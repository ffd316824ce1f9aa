------------------------- MODULE LocalChannelProofs -------------------------
(***************************************************************************)
(* Proofs about CyclicQueue and LocalChannel, for every capacity and every *)
(* set of messages and buffers.                                            *)
(***************************************************************************)
EXTENDS LocalChannel, TLAPS

-----------------------------------------------------------------------------
(* The cyclic queue is a sequence.                                          *)

(* An index that has gone once round the table.                             *)
LEMMA Around ==
    ASSUME NEW cap \in Nat \ {0}, NEW n \in Nat, n < 2 * cap
    PROVE  n % cap = IF n < cap THEN n ELSE n - cap
<1>1. n % cap \in 0..(cap - 1) /\ n = cap * (n \div cap) + (n % cap) /\ n \div cap \in Int
  OBVIOUS
<1>2. n \div cap < 2
  BY <1>1
<1>3. n \div cap >= 0
  BY <1>1
<1> QED BY <1>1, <1>2, <1>3

LEMMA QueueFields ==
    ASSUME NEW Cell, NEW q, IsQueue(q, Cell)
    PROVE  /\ q.cap \in Nat \ {0} /\ q.i \in 0..(q.cap - 1) /\ q.len \in 0..q.cap
           /\ q.table \in [0..(q.cap - 1) -> Cell]
           /\ q = [cap |-> q.cap, i |-> q.i, len |-> q.len, table |-> q.table]
BY DEF IsQueue

LEMMA CellPlace ==
    ASSUME NEW Cell, NEW q, IsQueue(q, Cell), NEW k \in 1..q.cap
    PROVE  /\ (q.i + k - 1) % q.cap = IF q.i + k - 1 < q.cap THEN q.i + k - 1
                                      ELSE q.i + k - 1 - q.cap
           /\ (q.i + k - 1) % q.cap \in 0..(q.cap - 1)
<1>1. q.i + k - 1 \in Nat /\ q.i + k - 1 < 2 * q.cap
  BY DEF IsQueue
<1> QED BY <1>1, Around DEF IsQueue

LEMMA CellsType ==
    ASSUME NEW Cell, NEW q, IsQueue(q, Cell)
    PROVE  /\ Cells(q) \in [1..q.len -> Cell]
           /\ Cells(q) \in Seq(Cell) /\ Len(Cells(q)) = q.len
<1>1. ASSUME NEW k \in 1..q.len PROVE q.table[(q.i + k - 1) % q.cap] \in Cell
  <2>1. k \in 1..q.cap BY DEF IsQueue
  <2> QED BY <2>1, CellPlace DEF IsQueue
<1>2. Cells(q) \in [1..q.len -> Cell] /\ q.len \in Nat
  BY <1>1 DEF Cells, IsQueue
<1> QED BY <1>2

(* The cell behind the last one is none of those in use.                    *)
LEMMA CellsApart ==
    ASSUME NEW cap \in Nat, NEW i \in 0..(cap - 1), NEW len \in 0..(cap - 1), NEW k \in 1..len
    PROVE  (IF i + k - 1 < cap THEN i + k - 1 ELSE i + k - 1 - cap)
             # (IF i + len < cap THEN i + len ELSE i + len - cap)
  OBVIOUS

(* What a sequence holds once an element was put behind it.                 *)
LEMMA ImageGrows ==
    ASSUME NEW n \in Nat, NEW f, NEW g, NEW b, f[n + 1] = b, \A k \in 1..n : f[k] = g[k]
    PROVE  {f[k] : k \in 1..(n + 1)} = {g[k] : k \in 1..n} \cup {b}
<1>1. 1..(n + 1) = (1..n) \cup {n + 1}
  OBVIOUS
<1> QED BY <1>1

(* q_push puts an element behind the others and touches none of them.       *)
LEMMA PushAppends ==
    ASSUME NEW Cell, NEW q, IsQueue(q, Cell), ~QFull(q), NEW x \in Cell
    PROVE  /\ IsQueue(QPush(q, x), Cell)
           /\ QPush(q, x).cap = q.cap /\ QPush(q, x).len = q.len + 1
           /\ Cells(QPush(q, x)) = Append(Cells(q), x)
<1> DEFINE p == QPush(q, x)
           at == (q.i + q.len) % q.cap
<1>0. /\ q.cap \in Nat \ {0} /\ q.i \in 0..(q.cap - 1) /\ q.len \in 0..q.cap
      /\ q.table \in [0..(q.cap - 1) -> Cell]
  BY QueueFields
<1>1. q.len \in 0..(q.cap - 1) /\ q.len + 1 \in 1..q.cap
  BY <1>0 DEF QFull
<1>2. at \in 0..(q.cap - 1)
  <2>1. q.i + (q.len + 1) - 1 = q.i + q.len BY <1>0
  <2> QED BY <1>1, <2>1, CellPlace
<1>3. p = [cap |-> q.cap, i |-> q.i, len |-> q.len + 1, table |-> [q.table EXCEPT ![at] = x]]
  BY DEF QPush, p, at
<1>4. IsQueue(p, Cell)
  BY <1>1, <1>2, <1>3 DEF IsQueue
<1>5. ASSUME NEW k \in 1..(q.len + 1)
      PROVE  Cells(p)[k] = Append(Cells(q), x)[k]
  <2>1. Cells(p)[k] = p.table[(q.i + k - 1) % q.cap]
    BY <1>3 DEF Cells
  <2>2. Append(Cells(q), x)[k] = IF k = q.len + 1 THEN x ELSE Cells(q)[k]
    BY CellsType, <1>1
  <2>3. CASE k = q.len + 1
    <3>1. q.i + k - 1 = q.i + q.len BY <2>3 DEF IsQueue
    <3> QED BY <2>1, <2>2, <2>3, <3>1, <1>2, <1>3 DEF IsQueue
  <2>4. CASE k \in 1..q.len
    <3>1. (q.i + k - 1) % q.cap # at
      <4>1. k \in 1..q.cap /\ q.len + 1 \in 1..q.cap BY <1>0, <1>1, <2>4
      <4>2. q.i + (q.len + 1) - 1 = q.i + q.len BY <1>0
      <4>5. (q.i + (q.len + 1) - 1) % q.cap =
              IF q.i + (q.len + 1) - 1 < q.cap THEN q.i + (q.len + 1) - 1
              ELSE q.i + (q.len + 1) - 1 - q.cap
        BY <4>1, CellPlace
      <4>3. at = IF q.i + q.len < q.cap THEN q.i + q.len ELSE q.i + q.len - q.cap
        BY <1>0, <4>2, <4>5 DEF at
      <4>4. (q.i + k - 1) % q.cap = IF q.i + k - 1 < q.cap THEN q.i + k - 1
                                    ELSE q.i + k - 1 - q.cap
        BY <4>1, CellPlace
      <4> HIDE DEF at
      <4>6. q.cap \in Nat /\ q.i \in 0..(q.cap - 1) /\ q.len \in 0..(q.cap - 1)
        BY <1>0, <1>1
      <4>7. (IF q.i + k - 1 < q.cap THEN q.i + k - 1 ELSE q.i + k - 1 - q.cap)
              # (IF q.i + q.len < q.cap THEN q.i + q.len ELSE q.i + q.len - q.cap)
        BY <2>4, <4>6, CellsApart
      <4> QED BY <4>3, <4>4, <4>7
    <3>2. (q.i + k - 1) % q.cap \in 0..(q.cap - 1)
      <4>1. k \in 1..q.cap BY <1>0, <2>4
      <4> QED BY <4>1, CellPlace
    <3>3. Cells(p)[k] = q.table[(q.i + k - 1) % q.cap]
      <4> HIDE DEF at
      <4> QED BY <2>1, <3>1, <3>2, <1>0, <1>3
    <3>4. Cells(q)[k] = q.table[(q.i + k - 1) % q.cap]
      BY <2>4 DEF Cells
    <3> QED BY <2>2, <2>4, <3>3, <3>4, <1>0
  <2>5. k = q.len + 1 \/ k \in 1..q.len BY <1>0
  <2> QED BY <2>3, <2>4, <2>5
<1>6. Cells(p) \in Seq(Cell) /\ Len(Cells(p)) = q.len + 1 /\ Append(Cells(q), x) \in Seq(Cell)
      /\ Len(Append(Cells(q), x)) = q.len + 1
  BY <1>3, <1>4, CellsType
<1>7. Cells(p) = Append(Cells(q), x)
  BY <1>5, <1>6
<1> QED BY <1>3, <1>4, <1>7

(* q_poll takes the first element and touches no other.                     *)
LEMMA PollTakesHead ==
    ASSUME NEW Cell, NEW q, IsQueue(q, Cell), q.len > 0
    PROVE  /\ IsQueue(QPoll(q), Cell)
           /\ QPoll(q).cap = q.cap /\ QPoll(q).len = q.len - 1
           /\ QFirst(q) = Cells(q)[1] /\ QFirst(q) \in Cell
           /\ Cells(QPoll(q)) = Tail(Cells(q))
<1> DEFINE p == QPoll(q)
           next == IF q.i + 1 = q.cap THEN 0 ELSE q.i + 1
<1>0. /\ q.cap \in Nat \ {0} /\ q.i \in 0..(q.cap - 1) /\ q.len \in 0..q.cap
      /\ q.table \in [0..(q.cap - 1) -> Cell]
      /\ q = [cap |-> q.cap, i |-> q.i, len |-> q.len, table |-> q.table]
  BY QueueFields
<1>1. p = [cap |-> q.cap, i |-> next, len |-> q.len - 1, table |-> q.table]
  BY DEF QPoll, p, next
<1>2. IsQueue(p, Cell)
  BY <1>0, <1>1 DEF IsQueue
<1>3. QFirst(q) = Cells(q)[1]
  <2>1. 1 \in 1..q.cap /\ 1 \in 1..q.len BY DEF IsQueue
  <2>2. (q.i + 1 - 1) % q.cap = q.i BY <2>1, CellPlace DEF IsQueue
  <2> QED BY <2>1, <2>2 DEF QFirst, Cells
<1>4. ASSUME NEW k \in 1..(q.len - 1)
      PROVE  Cells(p)[k] = Cells(q)[k + 1]
  <2>1. k \in 1..q.cap /\ k + 1 \in 1..q.cap /\ k + 1 \in 1..q.len BY DEF IsQueue
  <2>2. (q.i + (k + 1) - 1) % q.cap = IF q.i + (k + 1) - 1 < q.cap THEN q.i + (k + 1) - 1
                                      ELSE q.i + (k + 1) - 1 - q.cap
    BY <2>1, CellPlace
  <2>3. (p.i + k - 1) % p.cap = IF p.i + k - 1 < p.cap THEN p.i + k - 1
                                ELSE p.i + k - 1 - p.cap
    BY <1>1, <1>2, <2>1, CellPlace
  <2>4. (next + k - 1) % q.cap = (q.i + (k + 1) - 1) % q.cap
    <3>1. (next + k - 1) % q.cap = IF next + k - 1 < q.cap THEN next + k - 1
                                   ELSE next + k - 1 - q.cap
      BY <1>1, <2>3
    <3>2. q.i \in 0..(q.cap - 1) /\ q.cap \in Nat /\ k \in 1..(q.cap - 1)
      BY DEF IsQueue
    <3> QED BY <2>2, <3>1, <3>2
  <2> QED BY <1>1, <2>1, <2>4 DEF Cells
<1>5. Cells(p) \in Seq(Cell) /\ Len(Cells(p)) = q.len - 1
  BY <1>1, <1>2, CellsType
<1>6. Cells(q) \in Seq(Cell) /\ Len(Cells(q)) = q.len
  BY CellsType
<1>7. q.len \in Nat BY DEF IsQueue
<1>8. Cells(p) = Tail(Cells(q))
  BY <1>4, <1>5, <1>6, <1>7
<1>9. QFirst(q) \in Cell
  BY DEF QFirst, IsQueue
<1> QED BY <1>1, <1>2, <1>3, <1>8, <1>9

-----------------------------------------------------------------------------
(* The buffers.                                                             *)

Heap == [Bufs -> Msgs \cup {None}]

LEMMA ContentsType ==
    ASSUME NEW h \in Heap, NEW q, IsQueue(q, Bufs), Owned(h, q)
    PROVE  /\ Contents(h, q) \in Seq(Msgs) /\ Len(Contents(h, q)) = q.len
           /\ \A k \in 1..q.len : Contents(h, q)[k] = h[Cells(q)[k]]
<1>1. q.len \in Nat /\ Cells(q) \in [1..q.len -> Bufs]
  BY QueueFields, CellsType
<1>2. ASSUME NEW k \in 1..q.len PROVE h[Cells(q)[k]] \in Msgs
  BY <1>1 DEF Owned, Heap
<1>3. Contents(h, q) \in [1..q.len -> Msgs]
  BY <1>2 DEF Contents
<1> QED BY <1>1, <1>3 DEF Contents

(* A message stored in a free buffer is the last of the queue.              *)
LEMMA StoreAppends ==
    ASSUME NEW h \in Heap, NEW q, IsQueue(q, Bufs), Owned(h, q), ~QFull(q),
           NEW m \in Msgs, Store(h, q, m)
    PROVE  /\ heap' \in Heap /\ IsQueue(queue', Bufs) /\ queue'.cap = q.cap
           /\ Owned(heap', queue')
           /\ Contents(heap', queue') = Append(Contents(h, q), m)
<1>1. PICK b \in Bufs : h[b] = None /\ heap' = [h EXCEPT ![b] = m] /\ queue' = QPush(q, b)
  BY DEF Store
<1>2. /\ IsQueue(queue', Bufs) /\ queue'.cap = q.cap /\ queue'.len = q.len + 1
      /\ Cells(queue') = Append(Cells(q), b)
  BY <1>1, PushAppends
<1>3. /\ q.len \in Nat /\ Cells(q) \in Seq(Bufs) /\ Len(Cells(q)) = q.len
      /\ Cells(q) \in [1..q.len -> Bufs]
  BY QueueFields, CellsType
<1>4. heap' \in Heap
  BY <1>1 DEF Heap
<1>5. \A k \in 1..q.len : Cells(queue')[k] = Cells(q)[k] /\ Cells(q)[k] # b
  BY <1>1, <1>2, <1>3 DEF Owned
<1>6. Cells(queue')[q.len + 1] = b
  BY <1>2, <1>3
<1>7. Owned(heap', queue')
  <2>1. \A k, l \in 1..queue'.len : Cells(queue')[k] = Cells(queue')[l] => k = l
    BY <1>2, <1>3, <1>5, <1>6 DEF Owned
  <2>2. m # None
    BY Sizes
  <2>3. {x \in Bufs : heap'[x] # None} = {x \in Bufs : h[x] # None} \cup {b}
    BY <1>1, <2>2 DEF Heap
  <2>4. {Cells(queue')[k] : k \in 1..queue'.len} = {Cells(q)[k] : k \in 1..q.len} \cup {b}
    <3>1. {Cells(queue')[k] : k \in 1..(q.len + 1)} = {Cells(q)[k] : k \in 1..q.len} \cup {b}
      BY <1>3, <1>5, <1>6, ImageGrows
    <3> QED BY <3>1, <1>2
  <2> QED BY <2>1, <2>3, <2>4 DEF Owned
<1>8. Contents(heap', queue') = Append(Contents(h, q), m)
  <2>1. /\ Contents(heap', queue') \in Seq(Msgs) /\ Len(Contents(heap', queue')) = q.len + 1
        /\ \A k \in 1..(q.len + 1) : Contents(heap', queue')[k] = heap'[Cells(queue')[k]]
    BY <1>2, <1>4, <1>7, ContentsType
  <2>2. /\ Contents(h, q) \in Seq(Msgs) /\ Len(Contents(h, q)) = q.len
        /\ \A k \in 1..q.len : Contents(h, q)[k] = h[Cells(q)[k]]
    BY ContentsType
  <2>3. \A k \in 1..q.len : Contents(heap', queue')[k] = Contents(h, q)[k]
    <3> SUFFICES ASSUME NEW k \in 1..q.len
                 PROVE  Contents(heap', queue')[k] = Contents(h, q)[k]
      OBVIOUS
    <3>1. k \in 1..(q.len + 1) BY <1>3
    <3>2. Cells(queue')[k] = Cells(q)[k] /\ Cells(q)[k] # b /\ Cells(q)[k] \in Bufs
      BY <1>3, <1>5
    <3>3. heap'[Cells(q)[k]] = h[Cells(q)[k]] BY <3>2, <1>1 DEF Heap
    <3> QED BY <3>1, <3>2, <3>3, <2>1, <2>2
  <2>4. Contents(heap', queue')[q.len + 1] = m
    <3>1. q.len + 1 \in 1..(q.len + 1) BY <1>3
    <3>2. heap'[b] = m BY <1>1 DEF Heap
    <3> QED BY <3>1, <3>2, <1>6, <2>1
  <2>5. /\ Append(Contents(h, q), m) \in Seq(Msgs)
        /\ Len(Append(Contents(h, q), m)) = q.len + 1
        /\ \A k \in 1..(q.len + 1) : Append(Contents(h, q), m)[k] =
               IF k = q.len + 1 THEN m ELSE Contents(h, q)[k]
    BY <2>2, <1>3
  <2>6. \A k \in 1..(q.len + 1) : Contents(heap', queue')[k] = Append(Contents(h, q), m)[k]
    BY <2>3, <2>4, <2>5, <1>3
  <2> QED BY <2>1, <2>5, <2>6
<1> QED BY <1>2, <1>4, <1>7, <1>8

(* A message taken out of the queue is its first, and its buffer is freed.  *)
LEMMA TakeHead ==
    ASSUME NEW h \in Heap, NEW q, IsQueue(q, Bufs), Owned(h, q), q.len > 0
    PROVE  /\ Free(h, QFirst(q)) \in Heap /\ Owned(Free(h, QFirst(q)), QPoll(q))
           /\ Contents(h, q) # <<>> /\ h[QFirst(q)] = Head(Contents(h, q))
           /\ h[QFirst(q)] \in Msgs
           /\ Contents(Free(h, QFirst(q)), QPoll(q)) = Tail(Contents(h, q))
<1> DEFINE b == QFirst(q)
           g == Free(h, b)
           p == QPoll(q)
<1>1. /\ IsQueue(p, Bufs) /\ p.len = q.len - 1
      /\ b = Cells(q)[1] /\ b \in Bufs /\ Cells(p) = Tail(Cells(q))
  BY PollTakesHead
<1>2. /\ q.len \in Nat /\ Cells(q) \in Seq(Bufs) /\ Len(Cells(q)) = q.len
      /\ Cells(q) \in [1..q.len -> Bufs]
  BY QueueFields, CellsType
<1>3. g \in Heap /\ g = [h EXCEPT ![b] = None]
  BY <1>1 DEF Heap, Free
<1>4. \A k \in 1..(q.len - 1) : /\ k + 1 \in 1..q.len /\ Cells(p)[k] = Cells(q)[k + 1]
                                /\ Cells(q)[k + 1] # b
  <2> SUFFICES ASSUME NEW k \in 1..(q.len - 1)
               PROVE  k + 1 \in 1..q.len /\ Cells(p)[k] = Cells(q)[k + 1] /\ Cells(q)[k + 1] # b
    OBVIOUS
  <2>1. k + 1 \in 1..q.len /\ 1 \in 1..q.len /\ k + 1 # 1 BY <1>2
  <2>2. Cells(q)[k + 1] # Cells(q)[1] BY <2>1 DEF Owned
  <2>3. Cells(p)[k] = Cells(q)[k + 1] BY <1>1, <1>2, <2>1
  <2> QED BY <1>1, <2>1, <2>2, <2>3
<1> HIDE DEF b, g, p
<1>5. Owned(g, p)
  <2>1. \A k, l \in 1..p.len : Cells(p)[k] = Cells(p)[l] => k = l
    <3> SUFFICES ASSUME NEW k \in 1..p.len, NEW l \in 1..p.len, Cells(p)[k] = Cells(p)[l]
                 PROVE  k = l
      OBVIOUS
    <3>1. /\ k + 1 \in 1..q.len /\ l + 1 \in 1..q.len
          /\ Cells(q)[k + 1] = Cells(q)[l + 1]
      BY <1>1, <1>4
    <3>2. k + 1 = l + 1 BY <3>1 DEF Owned
    <3> QED BY <3>2, <1>1, <1>2
  <2>2. {x \in Bufs : g[x] # None} = {x \in Bufs : h[x] # None} \ {b}
    BY <1>1, <1>3 DEF Heap
  <2>3. {Cells(p)[k] : k \in 1..p.len} = {Cells(q)[k] : k \in 1..q.len} \ {b}
    <3>1. ASSUME NEW k \in 1..q.len, Cells(q)[k] # b
          PROVE  \E l \in 1..p.len : Cells(q)[k] = Cells(p)[l]
      <4>1. k # 1 BY <3>1, <1>1
      <4>2. k - 1 \in 1..p.len /\ (k - 1) + 1 = k BY <4>1, <1>1, <1>2
      <4>3. Cells(p)[k - 1] = Cells(q)[(k - 1) + 1] BY <4>2, <1>1, <1>4
      <4> QED BY <4>2, <4>3
    <3>2. \A l \in 1..p.len : \E k \in 1..q.len : Cells(p)[l] = Cells(q)[k] /\ Cells(q)[k] # b
      BY <1>1, <1>4
    <3> QED BY <3>1, <3>2
  <2> QED BY <2>1, <2>2, <2>3 DEF Owned
<1>6. /\ Contents(h, q) \in Seq(Msgs) /\ Len(Contents(h, q)) = q.len
      /\ \A k \in 1..q.len : Contents(h, q)[k] = h[Cells(q)[k]]
  BY ContentsType
<1>7. Contents(h, q) # <<>> /\ h[b] = Head(Contents(h, q)) /\ h[b] \in Msgs
  <2>1. 1 \in 1..q.len BY <1>2
  <2> QED BY <2>1, <1>1, <1>6
<1>8. Contents(g, p) = Tail(Contents(h, q))
  <2>1. /\ Contents(g, p) \in Seq(Msgs) /\ Len(Contents(g, p)) = q.len - 1
        /\ \A k \in 1..(q.len - 1) : Contents(g, p)[k] = g[Cells(p)[k]]
    <3>1. IsQueue(p, Bufs) /\ g \in Heap /\ p.len = q.len - 1
      BY <1>1, <1>3
    <3>2. /\ Contents(g, p) \in Seq(Msgs) /\ Len(Contents(g, p)) = p.len
          /\ \A k \in 1..p.len : Contents(g, p)[k] = g[Cells(p)[k]]
      BY <3>1, <1>5, ContentsType
    <3> QED BY <3>1, <3>2
  <2>2. \A k \in 1..(q.len - 1) : Contents(g, p)[k] = Contents(h, q)[k + 1]
    <3> SUFFICES ASSUME NEW k \in 1..(q.len - 1)
                 PROVE  Contents(g, p)[k] = Contents(h, q)[k + 1]
      OBVIOUS
    <3>1. k + 1 \in 1..q.len /\ Cells(p)[k] = Cells(q)[k + 1] /\ Cells(q)[k + 1] # b
      BY <1>4
    <3>2. Cells(q)[k + 1] \in Bufs BY <3>1, <1>2
    <3>3. g[Cells(q)[k + 1]] = h[Cells(q)[k + 1]] BY <3>1, <3>2, <1>3 DEF Heap
    <3> QED BY <3>1, <3>3, <2>1, <1>6
  <2>3. /\ Tail(Contents(h, q)) \in Seq(Msgs) /\ Len(Tail(Contents(h, q))) = q.len - 1
        /\ \A k \in 1..(q.len - 1) : Tail(Contents(h, q))[k] = Contents(h, q)[k + 1]
    BY <1>6, <1>7, <1>2
  <2>4. \A k \in 1..(q.len - 1) : Contents(g, p)[k] = Tail(Contents(h, q))[k]
    BY <2>2, <2>3
  <2> QED BY <2>1, <2>3, <2>4
<1> QED BY <1>3, <1>5, <1>7, <1>8 DEF b, g, p

-----------------------------------------------------------------------------
(* The channel.                                                             *)

IInv == TypeOK /\ BuffersOwned

LEMMA InitIInv == Init => IInv
<1> SUFFICES ASSUME Init PROVE IInv
  OBVIOUS
<1>1. PICK d \in Depths, b \in Bufs : queue = NewQueue(d, b)
  BY DEF Init
<1>2. /\ queue.len = 0 /\ queue.cap = d /\ queue.i = 0
      /\ queue = [cap |-> d, i |-> 0, len |-> 0, table |-> [k \in 0..(d - 1) |-> b]]
  BY <1>1 DEF NewQueue
<1>3. d \in Nat \ {0}
  BY Sizes
<1>4. IsQueue(queue, Bufs)
  BY <1>2, <1>3 DEF IsQueue
<1>5. heap = [x \in Bufs |-> None]
  BY DEF Init
<1>6. BuffersOwned
  <2>1. {x \in Bufs : heap[x] # None} = {}
    BY <1>5
  <2>2. 1..queue.len = {}
    BY <1>2
  <2> QED BY <2>1, <2>2 DEF BuffersOwned, Owned
<1>7. TypeOK
  <2>1. heap \in [Bufs -> Msgs \cup {None}] /\ queue.cap \in Depths
    BY <1>2, <1>5
  <2>2. received \in Seq(Msgs) /\ sends \in 0..MaxSends
    BY Sizes DEF Init
  <2>3. write_over \in BOOLEAN /\ deleted \in BOOLEAN /\ result = "CHN_SUCCESS"
    BY DEF Init
  <2> QED BY <1>4, <2>1, <2>2, <2>3 DEF TypeOK
<1> QED BY <1>6, <1>7 DEF IInv

(* What a step does to the buffers and to the messages in the channel.      *)
Kept == heap' = heap /\ queue' = queue

LEMMA SendStep ==
    ASSUME IInv, NEW m \in Msgs, Send(m)
    PROVE  /\ IInv' /\ queue'.cap = queue.cap /\ deleted' = deleted /\ received' = received
           /\ \/ Kept
              \/ ~deleted /\ Contents(heap', queue') = Append(Contents(heap, queue), m)
              \/ /\ ~deleted /\ Contents(heap, queue) # <<>>
                 /\ Len(Contents(heap, queue)) = queue.cap
                 /\ Contents(heap', queue') = Append(Tail(Contents(heap, queue)), m)
<1>0. /\ TypeOK /\ BuffersOwned /\ IsQueue(queue, Bufs) /\ heap \in Heap
      /\ Owned(heap, queue)
  BY DEF IInv, TypeOK, BuffersOwned, Heap
<1>1. CASE Kept /\ sends' = sends /\ result' \in {"CHN_INVALID_MSG_SIZE", "CHN_CHANNEL_FULL"}
  BY <1>0, <1>1 DEF Send, Kept, IInv, TypeOK, BuffersOwned
<1>2. CASE /\ Size(m) \in 1..MaxMsgSize /\ sends < MaxSends
           /\ QFull(queue) /\ write_over
           /\ Store(Free(heap, QFirst(queue)), QPoll(queue), m)
           /\ Return("CHN_SUCCESS") /\ sends' = sends + 1
  <2> DEFINE h == Free(heap, QFirst(queue))
             q == QPoll(queue)
  <2>1. queue.len > 0 /\ queue.len = queue.cap /\ queue.cap \in Nat \ {0}
    BY <1>0, <1>2, QueueFields DEF QFull
  <2>2. /\ h \in Heap /\ Owned(h, q) /\ Contents(heap, queue) # <<>>
        /\ Contents(h, q) = Tail(Contents(heap, queue))
    BY <1>0, <2>1, TakeHead
  <2>3. IsQueue(q, Bufs) /\ q.cap = queue.cap /\ q.len = queue.len - 1
    BY <1>0, <2>1, PollTakesHead
  <2>4. ~QFull(q)
    BY <2>1, <2>3 DEF QFull
  <2>5. Store(h, q, m)
    BY <1>2
  <2> HIDE DEF h, q
  <2>6. /\ heap' \in Heap /\ IsQueue(queue', Bufs) /\ queue'.cap = q.cap
        /\ Owned(heap', queue') /\ Contents(heap', queue') = Append(Contents(h, q), m)
    BY <2>2, <2>3, <2>4, <2>5, StoreAppends
  <2>7. Len(Contents(heap, queue)) = queue.cap
    BY <1>0, <2>1, ContentsType
  <2>8. IInv'
    BY <1>0, <1>2, <2>3, <2>6, Sizes DEF IInv, TypeOK, BuffersOwned, Return, Send, Heap
  <2> QED BY <2>2, <2>3, <2>6, <2>7, <2>8 DEF Send
<1>3. CASE /\ Size(m) \in 1..MaxMsgSize /\ sends < MaxSends
           /\ ~QFull(queue)
           /\ Store(heap, queue, m)
           /\ Return("CHN_SUCCESS") /\ sends' = sends + 1
  <2>1. /\ heap' \in Heap /\ IsQueue(queue', Bufs) /\ queue'.cap = queue.cap
        /\ Owned(heap', queue') /\ Contents(heap', queue') = Append(Contents(heap, queue), m)
    BY <1>0, <1>3, StoreAppends
  <2>2. IInv'
    BY <1>0, <1>3, <2>1, Sizes DEF IInv, TypeOK, BuffersOwned, Return, Send, Heap
  <2> QED BY <2>1, <2>2 DEF Send
<1> QED BY <1>1, <1>2, <1>3 DEF Send, Kept, Return

LEMMA ReceiveStep ==
    ASSUME IInv, NEW len \in BufLens, Receive(len)
    PROVE  /\ IInv' /\ queue'.cap = queue.cap /\ deleted' = deleted
           /\ \/ Kept /\ received' = received
              \/ /\ Contents(heap, queue) # <<>>
                 /\ Contents(heap', queue') = Tail(Contents(heap, queue))
                 /\ received' = Append(received, Head(Contents(heap, queue)))
<1>0. /\ TypeOK /\ BuffersOwned /\ IsQueue(queue, Bufs) /\ heap \in Heap
      /\ Owned(heap, queue)
  BY DEF IInv, TypeOK, BuffersOwned, Heap
<1>1. CASE Kept /\ received' = received /\ result' \in {"CHN_NO_INCOMING_MSG", "CHN_BUFFER_TOO_SMALL"}
  BY <1>0, <1>1 DEF Receive, Kept, IInv, TypeOK, BuffersOwned
<1>2. CASE /\ QLen(queue) > 0
           /\ queue' = QPoll(queue)
           /\ received' = Append(received, heap[QFirst(queue)])
           /\ heap' = Free(heap, QFirst(queue))
           /\ Return("CHN_SUCCESS")
  <2>1. queue.len > 0
    BY <1>2 DEF QLen
  <2>2. /\ heap' \in Heap /\ Owned(heap', queue') /\ Contents(heap, queue) # <<>>
        /\ Contents(heap', queue') = Tail(Contents(heap, queue))
        /\ heap[QFirst(queue)] = Head(Contents(heap, queue)) /\ heap[QFirst(queue)] \in Msgs
    BY <1>0, <1>2, <2>1, TakeHead
  <2>3. IsQueue(queue', Bufs) /\ queue'.cap = queue.cap
    BY <1>0, <1>2, <2>1, PollTakesHead
  <2>4. IInv'
    BY <1>0, <1>2, <2>2, <2>3 DEF IInv, TypeOK, BuffersOwned, Return, Receive, Heap
  <2> QED BY <1>2, <2>2, <2>3, <2>4 DEF Receive
<1> QED BY <1>1, <1>2 DEF Receive, Kept, Return

LEMMA DeleteStep ==
    ASSUME IInv, Delete
    PROVE  IInv' /\ queue'.cap = queue.cap /\ Contents(heap', queue') = <<>>
<1>0. /\ TypeOK /\ IsQueue(queue, Bufs) /\ heap \in Heap /\ Owned(heap, queue)
  BY DEF IInv, TypeOK, BuffersOwned, Heap
<1>1. /\ queue' = [queue EXCEPT !.len = 0]
      /\ heap' = [b \in Bufs |-> IF \E k \in 1..QLen(queue) : Cells(queue)[k] = b
                                 THEN None ELSE heap[b]]
  BY DEF Delete
<1>2. IsQueue(queue', Bufs) /\ queue'.cap = queue.cap /\ queue'.len = 0
  BY <1>0, <1>1 DEF IsQueue
<1>3. \A b \in Bufs : heap'[b] = None
  BY <1>0, <1>1 DEF Owned, QLen, Heap
<1>4. 1..queue'.len = {}
  BY <1>2
<1>5. Owned(heap', queue')
  BY <1>3, <1>4 DEF Owned
<1>6. heap' \in Heap
  BY <1>1, <1>3 DEF Heap
<1>7. Len(Contents(heap', queue')) = 0 /\ Contents(heap', queue') \in Seq(Msgs)
  BY <1>2, <1>5, <1>6, ContentsType
<1>8. IInv'
  BY <1>0, <1>2, <1>5, <1>6 DEF IInv, TypeOK, BuffersOwned, Return, Delete, Heap
<1> QED BY <1>2, <1>7, <1>8

LEMMA NextIInv == IInv /\ [Next]_vars => IInv'
<1> SUFFICES ASSUME IInv, [Next]_vars PROVE IInv'
  OBVIOUS
<1>1. ASSUME NEW m \in Msgs, Send(m) PROVE IInv'
  BY <1>1, SendStep
<1>2. ASSUME IncomingLen PROVE IInv'
  BY <1>2 DEF IncomingLen, Return, IInv, TypeOK, BuffersOwned
<1>3. ASSUME NEW len \in BufLens, Receive(len) PROVE IInv'
  BY <1>3, ReceiveStep
<1>4. ASSUME Delete PROVE IInv'
  BY <1>4, DeleteStep
<1>5. ASSUME UNCHANGED vars PROVE IInv'
  BY <1>5 DEF vars, IInv, TypeOK, BuffersOwned
<1> QED BY <1>1, <1>2, <1>3, <1>4, <1>5 DEF Next

(* In every reachable state the queue is well formed and its buffers, and   *)
(* no others, are allocated (queue.c:29-62, channel_local.c:63-160).        *)
THEOREM InductiveInvariant == Spec => []IInv
BY InitIInv, NextIInv, PTL DEF Spec

(* The state has its type (channel_local.c:22-41, queue.c:29-62).           *)
THEOREM TypeCorrect == Spec => []TypeOK
<1>1. IInv => TypeOK
  BY DEF IInv
<1> QED BY <1>1, InductiveInvariant, PTL

(* No message is leaked, freed twice or read after it was freed             *)
(* (channel_local.c:43-55, 83-96, 148-155).                                 *)
THEOREM NoLeak == Spec => []BuffersOwned
<1>1. IInv => BuffersOwned
  BY DEF IInv
<1> QED BY <1>1, InductiveInvariant, PTL

(* Every step of the table is a step of a channel of messages, or none      *)
(* (channel_local.c:63-160 against what MessageChannel promises).           *)
THEOREM Implements == Spec => ImplementsChannel
<1>1. Init => Channel!MInit
  <2> SUFFICES ASSUME Init PROVE Channel!MInit
    OBVIOUS
  <2>1. IInv BY InitIInv
  <2>2. queue.len = 0 /\ queue.cap \in Nat \ {0}
    <3>1. PICK d \in Depths, b \in Bufs : queue = NewQueue(d, b) BY DEF Init
    <3> QED BY <3>1, Sizes DEF NewQueue
  <2>3. Contents(heap, queue) \in Seq(Msgs) /\ Len(Contents(heap, queue)) = 0
    BY <2>1, <2>2, ContentsType DEF IInv, TypeOK, BuffersOwned, Heap
  <2>4. Contents(heap, queue) = <<>> BY <2>3
  <2> QED BY <2>2, <2>4 DEF Init, Channel!MInit
<1>2. IInv /\ [Next]_vars => [Channel!MNext]_(Channel!mvars)
  <2> SUFFICES ASSUME IInv, [Next]_vars PROVE [Channel!MNext]_(Channel!mvars)
    OBVIOUS
  <2>1. ASSUME NEW m \in Msgs, Send(m) PROVE [Channel!MNext]_(Channel!mvars)
    <3>1. queue.cap \in Nat BY DEF IInv, TypeOK, IsQueue
    <3> QED BY <2>1, <3>1, SendStep
            DEF Channel!MNext, Channel!mvars, Channel!MSend, Channel!MSendOver, Kept
  <2>2. ASSUME IncomingLen PROVE [Channel!MNext]_(Channel!mvars)
    BY <2>2 DEF IncomingLen, Channel!mvars
  <2>3. ASSUME NEW len \in BufLens, Receive(len) PROVE [Channel!MNext]_(Channel!mvars)
    BY <2>3, ReceiveStep DEF Channel!MNext, Channel!mvars, Channel!MReceive, Kept
  <2>4. ASSUME Delete PROVE [Channel!MNext]_(Channel!mvars)
    <3>1. Contents(heap, queue) \in Seq(Msgs) /\ Len(Contents(heap, queue)) \in Nat
      BY ContentsType DEF IInv, TypeOK, BuffersOwned, Heap
    <3>2. 0 \in 0..Len(Contents(heap, queue)) /\ SubSeq(Contents(heap, queue), 1, 0) = <<>>
      BY <3>1
    <3>3. /\ ~deleted /\ deleted' = TRUE /\ received' = received
          /\ queue'.cap = queue.cap /\ Contents(heap', queue') = <<>>
      BY <2>4, DeleteStep DEF Delete
    <3> QED BY <3>2, <3>3 DEF Channel!MNext, Channel!Break
  <2>5. ASSUME UNCHANGED vars PROVE [Channel!MNext]_(Channel!mvars)
    BY <2>5 DEF vars, Channel!mvars
  <2> QED BY <2>1, <2>2, <2>3, <2>4, <2>5 DEF Next
<1> QED BY <1>1, <1>2, InductiveInvariant, PTL DEF Spec, ImplementsChannel, Channel!MSpec
=============================================================================
