-------------------------- MODULE ChannelFdProofs --------------------------
(***************************************************************************)
(* Proofs about ChannelFd, for messages, bytes of others and chunks of any *)
(* kind and size: the loop of chn_fd_refresh ends on every chunk, the      *)
(* frame buffer never overflows, where the chunks end makes no difference  *)
(* to the messages that are found, a frame is read as it was written, and  *)
(* the two ends implement a channel of whole messages.                     *)
(***************************************************************************)
EXTENDS ChannelFd, FiniteSetTheorems, SequenceTheorems, WellFoundedInduction, TLAPS

-----------------------------------------------------------------------------
(* Induction.  What holds of a number when it holds of all smaller ones     *)
(* holds of every number.                                                   *)
LEMMA StrongInduction ==
    ASSUME NEW G, \A n \in Nat : (\A m \in 0..(n - 1) : m \in G) => n \in G
    PROVE  Nat \subseteq G
<1> SUFFICES ASSUME Nat \ G # {} PROVE FALSE
  OBVIOUS
<1> DEFINE R == OpToRel(<, Nat)
<1>1. \A i, j \in Nat : j < i => <<j, i>> \in R
  BY DEF OpToRel
<1>2. IsWellFoundedOn(R, Nat)
  BY NatLessThanWellFounded
<1> HIDE DEF R
<1>3. PICK n \in Nat \ G : \A m \in Nat \ G : ~(<<m, n>> \in R)
  <2>1. Nat \ G \subseteq Nat
    OBVIOUS
  <2>2. \E n \in Nat \ G : \A m \in Nat \ G : ~(<<m, n>> \in R)
    BY <1>2, <2>1, WFMin
  <2> QED BY <2>2
<1>4. ASSUME NEW m \in 0..(n - 1) PROVE m \in G
  <2>1. m \in Nat /\ m < n
    OBVIOUS
  <2>2. <<m, n>> \in R
    BY <1>1, <2>1
  <2> QED BY <1>3, <2>1, <2>2
<1> QED BY <1>3, <1>4

-----------------------------------------------------------------------------
(* The length of a frame.                                                   *)

(* The recursion of Number has a solution, which counts from the last byte. *)
LEMMA SumExists ==
    ASSUME NEW N \in Nat, NEW b, \A i \in 1..N : b[i] \in Nat
    PROVE  \E f : f = [i \in 1..(N + 1) |-> IF i > N THEN 0 ELSE b[i] + 256 * f[i + 1]]
<1> DEFINE Whole(f) == f = [i \in 1..(N + 1) |-> IF i > N THEN 0 ELSE b[i] + 256 * f[i + 1]]
           Solves(f, n) == /\ f \in [1..(N + 1) -> Nat] /\ f[N + 1] = 0
                           /\ \A i \in (N + 1 - n)..N : f[i] = b[i] + 256 * f[i + 1]
           Good == {n \in Nat : n <= N => \E f : Solves(f, n)}
<1>1. ASSUME NEW n \in Nat, \A m \in 0..(n - 1) : m \in Good PROVE n \in Good
  <2> SUFFICES ASSUME n <= N PROVE \E f : Solves(f, n)
    OBVIOUS
  <2>1. CASE n = 0
    <3>1. Solves([i \in 1..(N + 1) |-> 0], n)
      BY <2>1
    <3> QED BY <3>1
  <2>2. CASE n # 0
    <3> DEFINE k == N + 1 - n
    <3>1. k \in 1..N /\ k + 1 \in 1..(N + 1) /\ k \in 1..(N + 1) /\ N + 1 \in 1..(N + 1)
          /\ N + 1 - (n - 1) = k + 1 /\ k # N + 1
      BY <2>2
    <3>2. \E f : Solves(f, n - 1)
      <4>1. n - 1 \in 0..(n - 1) /\ n - 1 <= N
        BY <2>2
      <4>2. n - 1 \in Good
        <5> HIDE DEF Good
        <5> QED BY <1>1, <4>1
      <4> QED BY <4>1, <4>2
    <3>3. PICK f : Solves(f, n - 1)
      BY <3>2
    <3>4. /\ f \in [1..(N + 1) -> Nat] /\ f[N + 1] = 0
          /\ \A i \in (k + 1)..N : f[i] = b[i] + 256 * f[i + 1]
      BY <3>1, <3>3
    <3> HIDE DEF k
    <3> DEFINE x == b[k] + 256 * f[k + 1]
               g == [f EXCEPT ![k] = x]
    <3>5. x \in Nat
      <4>1. b[k] \in Nat /\ f[k + 1] \in Nat
        BY <3>1, <3>4
      <4> QED BY <4>1
    <3>6. /\ g \in [1..(N + 1) -> Nat] /\ g[k] = b[k] + 256 * f[k + 1]
          /\ \A i \in 1..(N + 1) : i # k => g[i] = f[i]
      <4> HIDE DEF x
      <4>1. /\ g \in [1..(N + 1) -> Nat] /\ g[k] = x
            /\ \A i \in 1..(N + 1) : i # k => g[i] = f[i]
        BY <3>1, <3>4, <3>5
      <4> QED BY <4>1 DEF x
    <3> HIDE DEF g
    <3>7. ASSUME NEW i \in k..N PROVE g[i] = b[i] + 256 * g[i + 1]
      <4>1. i \in 1..(N + 1) /\ i + 1 \in 1..(N + 1) /\ i + 1 # k
            /\ (i = k \/ i \in (k + 1)..N)
        BY <3>1
      <4>2. g[i + 1] = f[i + 1]
        BY <3>6, <4>1
      <4> QED BY <3>4, <3>6, <4>1, <4>2
    <3>8. Solves(g, n)
      BY <3>1, <3>4, <3>6, <3>7 DEF k
    <3> QED BY <3>8
  <2> QED BY <2>1, <2>2
<1>2. \E f : Solves(f, N)
  <2>1. Nat \subseteq Good
    <3> HIDE DEF Good
    <3> QED BY <1>1, StrongInduction
  <2> HIDE DEF Solves
  <2> QED BY <2>1
<1>3. PICK f : Solves(f, N)
  BY <1>2
<1>4. \A i \in 1..(N + 1) : f[i] = IF i > N THEN 0 ELSE b[i] + 256 * f[i + 1]
  <2>1. f[N + 1] = 0 /\ \A i \in 1..N : f[i] = b[i] + 256 * f[i + 1]
    BY <1>3
  <2>2. \A i \in 1..(N + 1) : i = N + 1 \/ (i \in 1..N /\ ~(i > N))
    OBVIOUS
  <2> QED BY <2>1, <2>2
<1>5. Whole(f)
  BY <1>3, <1>4
<1> HIDE DEF Whole
<1>6. \E g : Whole(g)
  BY <1>5
<1> QED BY <1>6 DEF Whole

LEMMA NumberIs ==
    ASSUME NEW bytes \in Seq(Bytes)
    PROVE  \E F : /\ Number(bytes) = F[1] /\ F[Len(bytes) + 1] = 0
                 /\ \A i \in 1..Len(bytes) : bytes[i] \in Nat /\ F[i] = bytes[i] + 256 * F[i + 1]
<1> DEFINE N == Len(bytes)
           Sums(f) == f = [i \in 1..(N + 1) |-> IF i > N THEN 0 ELSE bytes[i] + 256 * f[i + 1]]
           F == CHOOSE f : Sums(f)
<1>1. N \in Nat /\ \A i \in 1..N : bytes[i] \in Nat
  <2>1. \A i \in 1..Len(bytes) : bytes[i] \in Bytes
    BY ElementOfSeq
  <2>2. Len(bytes) \in Nat
    BY LenProperties
  <2>3. Bytes \subseteq Nat
    BY DEF Bytes
  <2> QED BY <2>1, <2>2, <2>3
<1>2. Number(bytes) = F[1]
  BY DEF Number
<1> HIDE DEF N
<1>3. \E f : Sums(f)
  BY <1>1, SumExists
<1>4. Sums(F)
  <2> HIDE DEF Sums
  <2> QED BY <1>3
<1> HIDE DEF F
<1>5. F[N + 1] = 0 /\ \A i \in 1..N : F[i] = bytes[i] + 256 * F[i + 1]
  <2>1. \A i \in 1..(N + 1) : F[i] = IF i > N THEN 0 ELSE bytes[i] + 256 * F[i + 1]
    BY <1>4
  <2> QED BY <1>1, <2>1
<1> HIDE DEF Sums
<1> QED BY <1>1, <1>2, <1>5 DEF N

LEMMA NumberType ==
    ASSUME NEW bytes \in Seq(Bytes)
    PROVE  Number(bytes) \in Nat
<1> DEFINE N == Len(bytes)
<1>1. PICK F : /\ Number(bytes) = F[1] /\ F[Len(bytes) + 1] = 0
               /\ \A i \in 1..Len(bytes) : bytes[i] \in Nat /\ F[i] = bytes[i] + 256 * F[i + 1]
  BY NumberIs
<1>2. N \in Nat /\ F[N + 1] = 0
      /\ \A i \in 1..N : bytes[i] \in Nat /\ F[i] = bytes[i] + 256 * F[i + 1]
  BY <1>1, LenProperties
<1> HIDE DEF N
<1>3. F[1] \in Nat
  <2> DEFINE Good == {n \in Nat : n <= N => F[N + 1 - n] \in Nat}
  <2>1. ASSUME NEW n \in Nat, \A m \in 0..(n - 1) : m \in Good PROVE n \in Good
    <3> SUFFICES ASSUME n <= N PROVE F[N + 1 - n] \in Nat
      OBVIOUS
    <3>1. CASE n = 0
      BY <1>2, <3>1
    <3>2. CASE n # 0
      <4> DEFINE k == N + 1 - n
      <4>1. k \in 1..N /\ N + 1 - (n - 1) = k + 1 /\ n - 1 \in 0..(n - 1) /\ n - 1 <= N
        BY <1>2, <3>2
      <4>2. F[N + 1 - (n - 1)] \in Nat
        <5>1. n - 1 \in Good
          <6> HIDE DEF Good
          <6> QED BY <2>1, <4>1
        <5> QED BY <4>1, <5>1
      <4>3. F[k + 1] \in Nat
        BY <4>1, <4>2
      <4> HIDE DEF k
      <4>4. F[k] = bytes[k] + 256 * F[k + 1] /\ bytes[k] \in Nat
        BY <1>2, <4>1
      <4>5. F[k] \in Nat
        BY <4>3, <4>4
      <4> QED BY <4>5 DEF k
    <3> QED BY <3>1, <3>2
  <2>2. N \in Good
    <3> HIDE DEF Good
    <3>1. Nat \subseteq Good
      BY <2>1, StrongInduction
    <3> QED BY <1>2, <3>1
  <2>3. N + 1 - N = 1
    BY <1>2
  <2> QED BY <1>2, <2>2, <2>3
<1> QED BY <1>1, <1>3

-----------------------------------------------------------------------------
(* Parts of sequences.                                                      *)

LEMMA MinOf ==
    ASSUME NEW T \in SUBSET Nat, T # {}
    PROVE  Min(T) \in T /\ \A x \in T : Min(T) <= x
<1> DEFINE G == {n \in Nat : \A m \in T : m # n}
<1>1. \E n \in T : \A m \in T : n <= m
  <2> SUFFICES ASSUME \A n \in T : \E m \in T : ~(n <= m) PROVE FALSE
    OBVIOUS
  <2>1. ASSUME NEW n \in Nat, \A m \in 0..(n - 1) : m \in G PROVE n \in G
    <3> SUFFICES ASSUME n \in T PROVE FALSE
      OBVIOUS
    <3>1. PICK m \in T : ~(n <= m)
      OBVIOUS
    <3>2. m \in 0..(n - 1)
      BY <3>1
    <3> QED BY <2>1, <3>2
  <2> HIDE DEF G
  <2>2. Nat \subseteq G
    BY <2>1, StrongInduction
  <2> QED BY <2>2 DEF G
<1> QED BY <1>1 DEF Min

LEMMA MinOfTwo ==
    ASSUME NEW a \in Nat, NEW b \in Nat
    PROVE  Min({a, b}) = IF a <= b THEN a ELSE b
<1>1. Min({a, b}) \in {a, b} /\ \A x \in {a, b} : Min({a, b}) <= x
  BY MinOf
<1> QED BY <1>1

LEMMA SkipPart ==
    ASSUME NEW S, NEW s \in Seq(S), NEW n \in 0..Len(s)
    PROVE  /\ Skip(s, n) \in Seq(S) /\ Len(Skip(s, n)) = Len(s) - n
           /\ \A i \in 1..(Len(s) - n) : Skip(s, n)[i] = s[n + i]
           /\ SubSeq(s, 1, n) \in Seq(S) /\ Len(SubSeq(s, 1, n)) = n
           /\ \A i \in 1..n : SubSeq(s, 1, n)[i] = s[i]
<1>1. Len(s) \in Nat /\ \A i \in 1..Len(s) : s[i] \in S
  BY LenProperties, ElementOfSeq
<1>2. /\ SubSeq(s, n + 1, Len(s)) \in Seq(S)
      /\ Len(SubSeq(s, n + 1, Len(s))) = IF n + 1 <= Len(s) THEN Len(s) - (n + 1) + 1 ELSE 0
      /\ \A i \in 1..(Len(s) - (n + 1) + 1) : SubSeq(s, n + 1, Len(s))[i] = s[(n + 1) + i - 1]
  BY <1>1, SubSeqProperties
<1>3. /\ SubSeq(s, 1, n) \in Seq(S)
      /\ Len(SubSeq(s, 1, n)) = IF 1 <= n THEN n - 1 + 1 ELSE 0
      /\ \A i \in 1..(n - 1 + 1) : SubSeq(s, 1, n)[i] = s[1 + i - 1]
  BY <1>1, SubSeqProperties
<1>4. Skip(s, n) = SubSeq(s, n + 1, Len(s))
  BY DEF Skip
<1>5. ASSUME NEW i \in 1..(Len(s) - n) PROVE SubSeq(s, n + 1, Len(s))[i] = s[n + i]
  <2>1. i \in 1..(Len(s) - (n + 1) + 1) /\ (n + 1) + i - 1 = n + i
    BY <1>1
  <2>2. SubSeq(s, n + 1, Len(s))[i] = s[(n + 1) + i - 1]
    BY <1>2, <2>1
  <2> QED BY <2>1, <2>2
<1>6. ASSUME NEW i \in 1..n PROVE SubSeq(s, 1, n)[i] = s[i]
  <2>1. i \in 1..(n - 1 + 1) /\ 1 + i - 1 = i
    BY <1>1
  <2>2. SubSeq(s, 1, n)[i] = s[1 + i - 1]
    BY <1>3, <2>1
  <2> QED BY <2>1, <2>2
<1>7. /\ Len(SubSeq(s, n + 1, Len(s))) = Len(s) - n
      /\ Len(SubSeq(s, 1, n)) = n
  BY <1>1, <1>2, <1>3
<1> QED BY <1>2, <1>3, <1>4, <1>5, <1>6, <1>7

(* The same for strings of bytes.                                           *)
LEMMA SkipBytes ==
    ASSUME NEW s \in Seq(Bytes), NEW n \in 0..Len(s)
    PROVE  Skip(s, n) \in Seq(Bytes) /\ Len(Skip(s, n)) = Len(s) - n
<1> DEFINE S == Bytes
<1>1. s \in Seq(S)
  OBVIOUS
<1> HIDE DEF S
<1>2. Skip(s, n) \in Seq(S) /\ Len(Skip(s, n)) = Len(s) - n
  BY <1>1, SkipPart
<1> QED BY <1>2 DEF S

LEMMA Together ==
    ASSUME NEW S, NEW s \in Seq(S), NEW t \in Seq(S), NEW u \in Seq(S)
    PROVE  s \o (t \o u) = (s \o t) \o u
BY ConcatAssociative

LEMMA BytesJoined ==
    ASSUME NEW s \in Seq(Bytes), NEW t \in Seq(Bytes)
    PROVE  s \o t \in Seq(Bytes) /\ Len(s \o t) = Len(s) + Len(t)
<1> DEFINE S == Bytes
<1>1. s \in Seq(S) /\ t \in Seq(S)
  OBVIOUS
<1> HIDE DEF S
<1>2. s \o t \in Seq(S) /\ Len(s \o t) = Len(s) + Len(t)
  BY <1>1, ConcatProperties
<1> QED BY <1>2 DEF S

LEMMA BytesTogether ==
    ASSUME NEW s \in Seq(Bytes), NEW t \in Seq(Bytes), NEW u \in Seq(Bytes)
    PROVE  s \o (t \o u) = (s \o t) \o u
<1> DEFINE S == Bytes
<1>1. s \in Seq(S) /\ t \in Seq(S) /\ u \in Seq(S)
  OBVIOUS
<1> HIDE DEF S
<1> QED BY <1>1, Together

LEMMA SkipAll ==
    ASSUME NEW S, NEW s \in Seq(S)
    PROVE  /\ Skip(s, Len(s)) = <<>> /\ Skip(s, 0) = s /\ SubSeq(s, 1, Len(s)) = s
           /\ (Len(s) = 0 <=> s = <<>>)
<1>1. Len(s) \in Nat /\ SubSeq(s, 1, Len(s)) = s
  BY LenProperties, SubSeqFull
<1>2. Skip(s, Len(s)) = <<>>
  BY <1>1, SubSeqEmpty DEF Skip
<1>3. Skip(s, 0) = s
  BY <1>1 DEF Skip
<1> QED BY <1>1, <1>2, <1>3, EmptySeq

(* Skipping and taking within the first of two parts.                       *)
LEMMA PartOfFirst ==
    ASSUME NEW S, NEW s \in Seq(S), NEW t \in Seq(S), NEW n \in 0..Len(s)
    PROVE  /\ SubSeq(s \o t, 1, n) = SubSeq(s, 1, n)
           /\ Skip(s \o t, n) = Skip(s, n) \o t
<1>1. /\ Len(s) \in Nat /\ Len(t) \in Nat /\ s \o t \in Seq(S)
      /\ Len(s \o t) = Len(s) + Len(t)
      /\ \A i \in 1..(Len(s) + Len(t)) :
             (s \o t)[i] = IF i <= Len(s) THEN s[i] ELSE t[i - Len(s)]
  BY LenProperties, ConcatProperties
<1>2. n \in 0..Len(s \o t)
  BY <1>1
<1>3. /\ Skip(s \o t, n) \in Seq(S) /\ Len(Skip(s \o t, n)) = Len(s \o t) - n
      /\ \A i \in 1..(Len(s \o t) - n) : Skip(s \o t, n)[i] = (s \o t)[n + i]
      /\ SubSeq(s \o t, 1, n) \in Seq(S) /\ Len(SubSeq(s \o t, 1, n)) = n
      /\ \A i \in 1..n : SubSeq(s \o t, 1, n)[i] = (s \o t)[i]
  BY <1>1, <1>2, SkipPart
<1>4. /\ Skip(s, n) \in Seq(S) /\ Len(Skip(s, n)) = Len(s) - n
      /\ \A i \in 1..(Len(s) - n) : Skip(s, n)[i] = s[n + i]
      /\ SubSeq(s, 1, n) \in Seq(S) /\ Len(SubSeq(s, 1, n)) = n
      /\ \A i \in 1..n : SubSeq(s, 1, n)[i] = s[i]
  BY SkipPart
<1>5. SubSeq(s \o t, 1, n) = SubSeq(s, 1, n)
  <2>1. \A i \in 1..n : SubSeq(s \o t, 1, n)[i] = SubSeq(s, 1, n)[i]
    BY <1>1, <1>3, <1>4
  <2> QED BY <1>3, <1>4, <2>1, SeqEqual
<1>6. Skip(s \o t, n) = Skip(s, n) \o t
  <2>1. /\ Skip(s, n) \o t \in Seq(S)
        /\ Len(Skip(s, n) \o t) = (Len(s) - n) + Len(t)
        /\ \A i \in 1..((Len(s) - n) + Len(t)) :
               (Skip(s, n) \o t)[i] = IF i <= Len(s) - n THEN Skip(s, n)[i]
                                                         ELSE t[i - (Len(s) - n)]
    <3> DEFINE r == Skip(s, n)
    <3>1. r \in Seq(S) /\ Len(r) = Len(s) - n
      BY <1>4
    <3> HIDE DEF r
    <3>2. /\ r \o t \in Seq(S) /\ Len(r \o t) = Len(r) + Len(t)
          /\ \A i \in 1..(Len(r) + Len(t)) :
                 (r \o t)[i] = IF i <= Len(r) THEN r[i] ELSE t[i - Len(r)]
      BY <3>1, ConcatProperties
    <3> QED BY <3>1, <3>2 DEF r
  <2>2. Len(s \o t) - n = (Len(s) - n) + Len(t)
    BY <1>1
  <2>3. ASSUME NEW i \in 1..((Len(s) - n) + Len(t))
        PROVE  Skip(s \o t, n)[i] = (Skip(s, n) \o t)[i]
    <3>1. Skip(s \o t, n)[i] = (s \o t)[n + i]
      BY <1>3, <2>2
    <3>2. n + i \in 1..(Len(s) + Len(t)) /\ (n + i) - Len(s) = i - (Len(s) - n)
          /\ (n + i <= Len(s) <=> i <= Len(s) - n)
      BY <1>1
    <3>3. (s \o t)[n + i] = IF i <= Len(s) - n THEN s[n + i] ELSE t[i - (Len(s) - n)]
      BY <1>1, <3>2
    <3>4. i <= Len(s) - n => Skip(s, n)[i] = s[n + i]
      BY <1>1, <1>4
    <3> QED BY <2>1, <3>1, <3>3, <3>4
  <2> DEFINE u == Skip(s \o t, n)
             v == Skip(s, n) \o t
  <2>4. u \in Seq(S) /\ v \in Seq(S) /\ Len(u) = (Len(s) - n) + Len(t) /\ Len(v) = Len(u)
    BY <1>3, <2>1, <2>2
  <2>5. \A i \in 1..Len(u) : u[i] = v[i]
    BY <2>3, <2>4
  <2> HIDE DEF u, v
  <2>6. u = v
    BY <2>4, <2>5, SeqEqual
  <2> QED BY <2>6 DEF u, v
<1> QED BY <1>5, <1>6

(* Skipping and taking beyond the first of two parts.                       *)
LEMMA PartOfSecond ==
    ASSUME NEW S, NEW s \in Seq(S), NEW t \in Seq(S), NEW n \in 0..Len(t)
    PROVE  /\ SubSeq(s \o t, 1, Len(s) + n) = s \o SubSeq(t, 1, n)
           /\ Skip(s \o t, Len(s) + n) = Skip(t, n)
<1>1. /\ SubSeq(t, 1, n) \in Seq(S) /\ Skip(t, n) \in Seq(S) /\ Len(SubSeq(t, 1, n)) = n
  BY SkipPart
<1>2. t = SubSeq(t, 1, n) \o Skip(t, n)
  <2>1. Len(t) \in Nat /\ n \in 0..Len(t) /\ 1 \in 1..(Len(t) + 1) /\ n \in (1 - 1)..Len(t)
        /\ Len(t) \in n..Len(t)
    BY LenProperties
  <2>2. SubSeq(t, 1, n) \o SubSeq(t, n + 1, Len(t)) = SubSeq(t, 1, Len(t))
    BY <2>1, ConcatAdjacentSubSeq
  <2> QED BY <2>2, SubSeqFull DEF Skip
<1> DEFINE u == s \o SubSeq(t, 1, n)
<1>3. u \in Seq(S) /\ Len(u) = Len(s) + n /\ Len(u) \in Nat
  BY <1>1, ConcatProperties, LenProperties
<1>4. s \o t = u \o Skip(t, n)
  <2>1. s \o (SubSeq(t, 1, n) \o Skip(t, n)) = (s \o SubSeq(t, 1, n)) \o Skip(t, n)
    <3> DEFINE a == SubSeq(t, 1, n)
               b == Skip(t, n)
    <3>1. a \in Seq(S) /\ b \in Seq(S)
      BY <1>1
    <3> HIDE DEF a, b
    <3>2. s \o (a \o b) = (s \o a) \o b
      BY <3>1, Together
    <3> QED BY <3>2 DEF a, b
  <2>2. s \o t = s \o (SubSeq(t, 1, n) \o Skip(t, n))
    BY <1>2
  <2> QED BY <2>1, <2>2
<1> HIDE DEF u
<1>5. Len(u) \in 0..Len(u)
  BY <1>3
<1>6. /\ SubSeq(u \o Skip(t, n), 1, Len(u)) = SubSeq(u, 1, Len(u))
      /\ Skip(u \o Skip(t, n), Len(u)) = Skip(u, Len(u)) \o Skip(t, n)
  BY <1>1, <1>3, <1>5, PartOfFirst
<1>7. SubSeq(u, 1, Len(u)) = u /\ Skip(u, Len(u)) = <<>> /\ <<>> \o Skip(t, n) = Skip(t, n)
  BY <1>1, <1>3, SkipAll, ConcatEmptySeq
<1> QED BY <1>3, <1>4, <1>6, <1>7 DEF u

-----------------------------------------------------------------------------
(* One round of the loop.                                                   *)

St(buf, rest, msgs) == [buf |-> buf, rest |-> rest, msgs |-> msgs]

LEMMA StFields ==
    ASSUME NEW b, NEW r, NEW m
    PROVE  /\ St(b, r, m).buf = b /\ St(b, r, m).rest = r /\ St(b, r, m).msgs = m
           /\ (b \in Seq(Bytes) /\ r \in Seq(Bytes) /\ m \in Seq(Seq(Bytes)) => St(b, r, m) \in Chunks)
  BY DEF St, Chunks

LEMMA ChunkFields ==
    ASSUME NEW s \in Chunks
    PROVE  /\ s.buf \in Seq(Bytes) /\ s.rest \in Seq(Bytes) /\ s.msgs \in Seq(Seq(Bytes))
           /\ Len(s.buf) \in Nat /\ Len(s.rest) \in Nat
           /\ s = St(s.buf, s.rest, s.msgs)
           /\ (s.buf = <<>> <=> Len(s.buf) = 0) /\ (s.rest = <<>> <=> Len(s.rest) = 0)
<1>1. /\ s.buf \in Seq(Bytes) /\ s.rest \in Seq(Bytes) /\ s.msgs \in Seq(Seq(Bytes))
      /\ s = St(s.buf, s.rest, s.msgs)
  BY DEF Chunks, St
<1> QED BY <1>1, LenProperties, SkipAll

LEMMA Header == HeaderSize \in Nat /\ HeaderSize >= 2 /\ LenSize \in Nat /\ LenSize >= 1
                /\ HeaderSize = 1 + LenSize /\ MaxMsgSize \in Nat
  BY Sizes DEF HeaderSize

(* The length is a number as soon as the header is there, and the bytes that *)
(* follow do not change it.                                                  *)
LEMMA LengthKnown ==
    ASSUME NEW buf \in Seq(Bytes), Len(buf) >= HeaderSize, NEW more \in Seq(Bytes)
    PROVE  /\ MsgLength(buf) \in Nat
           /\ MsgLength(buf \o more) = MsgLength(buf)
<1>1. Len(buf) \in Nat /\ 2 \in 1..Len(buf) /\ 1 + LenSize \in 1..Len(buf)
  BY Header, LenProperties
<1>2. SubSeq(buf, 2, 1 + LenSize) \in Seq(Bytes)
  <2>1. \A i \in 2..(1 + LenSize) : buf[i] \in Bytes
    <3> SUFFICES ASSUME NEW i \in 2..(1 + LenSize) PROVE buf[i] \in Bytes
      OBVIOUS
    <3>1. i \in 1..Len(buf)
      BY <1>1, Header
    <3> QED BY <3>1, ElementOfSeq
  <2> QED BY <2>1, Header, SubSeqProperties
<1>3. SubSeq(buf \o more, 2, 1 + LenSize) = SubSeq(buf, 2, 1 + LenSize)
  BY <1>1, SubSeqOfConcat1
<1> QED BY <1>2, <1>3, NumberType DEF MsgLength

(* The search for the first magic byte.                                      *)
LEMMA NoHeader ==
    ASSUME NEW s \in Chunks, s.buf = <<>> PROVE Step(s) = Hunt(s)
<1>1. Len(s.buf) = 0 /\ ~(Len(s.buf) >= HeaderSize) /\ Len(s.buf) \notin 1..(HeaderSize - 1)
  BY ChunkFields, Header
<1> QED BY <1>1 DEF Step

LEMMA HuntFails ==
    ASSUME NEW s \in Chunks, s.buf = <<>>, \A i \in 1..Len(s.rest) : s.rest[i] # START
    PROVE  Step(s) = St(<<>>, <<>>, s.msgs)
<1>1. {i \in DOMAIN s.rest : s.rest[i] = START} = {}
  BY ChunkFields, LenProperties
<1>2. Step(s) = Hunt(s)
  BY NoHeader
<1>3. Hunt(s) = [s EXCEPT !.rest = <<>>]
  BY <1>1 DEF Hunt
<1> QED BY <1>2, <1>3 DEF St, Chunks

LEMMA HuntFinds ==
    ASSUME NEW s \in Chunks, s.buf = <<>>, NEW k \in 1..Len(s.rest), s.rest[k] = START,
           \A i \in 1..(k - 1) : s.rest[i] # START
    PROVE  Step(s) = St(<<START>>, Skip(s.rest, k), s.msgs)
<1> DEFINE at == {i \in DOMAIN s.rest : s.rest[i] = START}
<1>1. k \in at /\ at \in SUBSET Nat /\ \A i \in at : ~(i < k)
  <2>1. DOMAIN s.rest = 1..Len(s.rest)
    BY ChunkFields, LenProperties
  <2> QED BY <2>1
<1> HIDE DEF at
<1>2. Min(at) \in at /\ Min(at) <= k
  BY <1>1, MinOf
<1>3. Min(at) = k
  <2>1. k \in Nat /\ Min(at) \in Nat /\ ~(Min(at) < k)
    BY <1>1, <1>2
  <2> QED BY <1>2, <2>1
<1>4. Step(s) = Hunt(s)
  BY NoHeader
<1>5. Hunt(s) = [s EXCEPT !.buf = <<START>>, !.rest = Skip(@, Min(at))]
  BY <1>1 DEF Hunt, at
<1> QED BY <1>3, <1>4, <1>5 DEF St, Chunks

(* Either the magic byte is in the chunk or it is not.                       *)
LEMMA HuntCases ==
    ASSUME NEW r \in Seq(Bytes)
    PROVE  \/ \A i \in 1..Len(r) : r[i] # START
           \/ \E k \in 1..Len(r) : r[k] = START /\ \A i \in 1..(k - 1) : r[i] # START
<1> SUFFICES ASSUME \E i \in 1..Len(r) : r[i] = START
             PROVE  \E k \in 1..Len(r) : r[k] = START /\ \A i \in 1..(k - 1) : r[i] # START
  OBVIOUS
<1> DEFINE at == {i \in 1..Len(r) : r[i] = START}
<1>1. at # {} /\ at \in SUBSET Nat
  OBVIOUS
<1> HIDE DEF at
<1>2. Min(at) \in at /\ \A x \in at : Min(at) <= x
  BY <1>1, MinOf
<1> DEFINE k == Min(at)
<1>3. k \in 1..Len(r) /\ r[k] = START
  BY <1>2 DEF at
<1>4. \A i \in 1..(k - 1) : r[i] # START
  <2> SUFFICES ASSUME NEW i \in 1..(k - 1), r[i] = START PROVE FALSE
    OBVIOUS
  <2>1. Len(r) \in Nat
    BY LenProperties
  <2>2. i \in at
    <3> HIDE DEF k
    <3> QED BY <1>3, <2>1 DEF at
  <2>3. k <= i
    BY <1>2, <2>2
  <2> HIDE DEF k
  <2> QED BY <1>3, <2>1, <2>3
<1> QED BY <1>3, <1>4

(* Bytes of the chunk move to the frame buffer, as many as it lacks.         *)
LEMMA Fills ==
    ASSUME NEW s \in Chunks, NEW size \in Nat, NEW need \in Nat, size = Len(s.buf) + need
    PROVE  /\ Len(s.rest) <= need => Fill(s, size) = St(s.buf \o s.rest, <<>>, s.msgs)
           /\ Len(s.rest) >= need =>
                 Fill(s, size) = St(s.buf \o SubSeq(s.rest, 1, need), Skip(s.rest, need), s.msgs)
<1> DEFINE n == Min({size - Len(s.buf), Len(s.rest)})
<1>1. /\ Len(s.rest) \in Nat /\ Len(s.buf) \in Nat /\ size - Len(s.buf) = need
      /\ Skip(s.rest, Len(s.rest)) = <<>> /\ SubSeq(s.rest, 1, Len(s.rest)) = s.rest
  BY ChunkFields, SkipAll
<1>2. n = IF need <= Len(s.rest) THEN need ELSE Len(s.rest)
  BY <1>1, MinOfTwo
<1>3. Fill(s, size) = St(s.buf \o SubSeq(s.rest, 1, n), Skip(s.rest, n), s.msgs)
  <2>1. Fill(s, size) = [s EXCEPT !.buf = @ \o SubSeq(s.rest, 1, n), !.rest = Skip(@, n)]
    BY DEF Fill
  <2> HIDE DEF n
  <2> QED BY <2>1 DEF St, Chunks
<1> HIDE DEF n
<1>4. Len(s.rest) <= need => n = Len(s.rest)
  BY <1>1, <1>2
<1>5. Len(s.rest) >= need => n = need
  BY <1>1, <1>2
<1> QED BY <1>1, <1>3, <1>4, <1>5

LEMMA Rounds ==
    ASSUME NEW s \in Chunks, s.buf # <<>>
    PROVE  /\ Len(s.buf) < HeaderSize => Step(s) = Fill(s, HeaderSize)
           /\ Len(s.buf) >= HeaderSize /\ TooLong(s.buf) => Step(s) = St(<<>>, s.rest, s.msgs)
           /\ Len(s.buf) >= HeaderSize /\ ~TooLong(s.buf) =>
                 /\ Len(s.buf) < HeaderSize + MsgLength(s.buf) =>
                        Step(s) = Fill(s, HeaderSize + MsgLength(s.buf))
                 /\ ~(Len(s.buf) < HeaderSize + MsgLength(s.buf)) => Step(s) = Finish(s)
<1>1. Len(s.buf) \in Nat /\ Len(s.buf) > 0
  BY ChunkFields
<1>2. Len(s.buf) < HeaderSize => Step(s) = Fill(s, HeaderSize)
  <2> SUFFICES ASSUME Len(s.buf) < HeaderSize PROVE Step(s) = Fill(s, HeaderSize)
    OBVIOUS
  <2>1. Len(s.buf) \in 1..(HeaderSize - 1)
    BY <1>1, Header
  <2>2. ~(Len(s.buf) >= HeaderSize)
    BY <1>1, Header
  <2> QED BY <2>1, <2>2 DEF Step
<1>3. ASSUME Len(s.buf) >= HeaderSize
      PROVE  Step(s) = IF TooLong(s.buf) THEN [s EXCEPT !.buf = <<>>]
                       ELSE IF Len(s.buf) < HeaderSize + MsgLength(s.buf)
                            THEN Fill(s, HeaderSize + MsgLength(s.buf))
                            ELSE Finish(s)
  <2>1. Len(s.buf) \notin 1..(HeaderSize - 1)
    BY <1>1, <1>3, Header
  <2> QED BY <1>3, <2>1 DEF Step
<1>4. [s EXCEPT !.buf = <<>>] = St(<<>>, s.rest, s.msgs)
  BY DEF Chunks, St
<1> QED BY <1>2, <1>3, <1>4

LEMMA HeadTail ==
    ASSUME NEW S, NEW r \in Seq(S), r # <<>>
    PROVE  /\ Len(r) \in Nat /\ Len(r) >= 1 /\ 1 \in 0..Len(r)
           /\ Head(r) = r[1] /\ Tail(r) = Skip(r, 1)
<1>1. Len(r) \in Nat /\ Len(r) # 0
  BY SkipAll, LenProperties
<1>2. Tail(r) = SubSeq(r, 2, Len(r))
  OBVIOUS
<1> QED BY <1>1, <1>2, HeadTailProperties DEF Skip

(* The message a complete frame brings.                                      *)
Gained(buf, byte) ==
    IF byte = END /\ MsgLength(buf) > 0 THEN <<Skip(buf, HeaderSize)>> ELSE <<>>

LEMMA Finishes ==
    ASSUME NEW s \in Chunks, s.rest # <<>>, Len(s.buf) >= HeaderSize
    PROVE  /\ Finish(s) = St(<<>>, Skip(s.rest, 1), s.msgs \o Gained(s.buf, s.rest[1]))
           /\ Gained(s.buf, s.rest[1]) \in Seq(Seq(Bytes))
<1>1. Head(s.rest) = s.rest[1] /\ Tail(s.rest) = Skip(s.rest, 1)
  BY ChunkFields, HeadTail
<1> DEFINE m == Skip(s.buf, HeaderSize)
<1>2. m \in Seq(Bytes) /\ s.msgs \in Seq(Seq(Bytes))
  <2>1. HeaderSize \in 0..Len(s.buf) /\ s.buf \in Seq(Bytes) /\ s.msgs \in Seq(Seq(Bytes))
    BY Header, ChunkFields
  <2> QED BY <2>1, SkipPart
<1> HIDE DEF m
<1>3. <<m>> \in Seq(Seq(Bytes)) /\ <<>> \in Seq(Seq(Bytes))
  BY <1>2
<1>4. Append(s.msgs, m) = s.msgs \o <<m>> /\ s.msgs \o <<>> = s.msgs
  BY <1>2, AppendIsConcat, ConcatEmptySeq
<1>5. CASE s.rest[1] = END /\ MsgLength(s.buf) > 0
  <2>1. Gained(s.buf, s.rest[1]) = <<m>>
    BY <1>5 DEF Gained, m
  <2>2. Finish(s) = St(<<>>, Skip(s.rest, 1), Append(s.msgs, m))
    BY <1>1, <1>5 DEF Finish, St, m
  <2> QED BY <1>3, <1>4, <2>1, <2>2
<1>6. CASE ~(s.rest[1] = END /\ MsgLength(s.buf) > 0)
  <2>1. Gained(s.buf, s.rest[1]) = <<>>
    BY <1>6 DEF Gained
  <2>2. Finish(s) = St(<<>>, Skip(s.rest, 1), s.msgs)
    BY <1>1, <1>6 DEF Finish, St
  <2> QED BY <1>3, <1>4, <2>1, <2>2
<1> QED BY <1>5, <1>6

(* Every round uses up bytes of the chunk or drops a frame that is too long, *)
(* so the loop ends.  No round lets the frame buffer outgrow the longest     *)
(* message.                                                                  *)
Size(s) == 2 * Len(s.rest) + IF s.buf = <<>> THEN 0 ELSE 1

Fits(s) == Len(s.buf) <= HeaderSize + MaxMsgSize

LEMMA SizeIs ==
    ASSUME NEW s \in Chunks
    PROVE  /\ Size(s) \in Nat
           /\ s.buf = <<>> => Size(s) = 2 * Len(s.rest)
           /\ s.buf # <<>> => Size(s) = 2 * Len(s.rest) + 1
<1> DEFINE n == Len(s.rest)
<1>1. n \in Nat
  BY ChunkFields
<1>2. Size(s) = 2 * n + (IF s.buf = <<>> THEN 0 ELSE 1)
  BY DEF Size
<1> HIDE DEF n
<1>3. CASE s.buf = <<>>
  <2>1. Size(s) = 2 * n
    BY <1>1, <1>2, <1>3
  <2> QED BY <1>1, <1>3, <2>1 DEF n
<1>4. CASE s.buf # <<>>
  <2>1. Size(s) = 2 * n + 1
    BY <1>1, <1>2, <1>4
  <2>2. Size(s) \in Nat
    BY <1>1, <2>1
  <2> QED BY <1>4, <2>1, <2>2 DEF n
<1> QED BY <1>3, <1>4

(* A round gets nearer to the end of the chunk if it uses up bytes, or       *)
(* drops the frame.                                                          *)
LEMMA SizeFalls ==
    ASSUME NEW s \in Chunks, NEW t \in Chunks,
           \/ Len(t.rest) < Len(s.rest)
           \/ Len(t.rest) = Len(s.rest) /\ s.buf # <<>> /\ t.buf = <<>>
    PROVE  Size(t) < Size(s)
<1> DEFINE m == Len(s.rest)
           n == Len(t.rest)
<1>1. m \in Nat /\ n \in Nat
  BY ChunkFields
<1>2. Size(s) = 2 * m + (IF s.buf = <<>> THEN 0 ELSE 1)
  BY DEF Size
<1>3. Size(t) = 2 * n + (IF t.buf = <<>> THEN 0 ELSE 1)
  BY DEF Size
<1>4. n < m \/ (n = m /\ s.buf # <<>> /\ t.buf = <<>>)
  OBVIOUS
<1> HIDE DEF m, n
<1> QED BY <1>1, <1>2, <1>3, <1>4

(* What every round does.                                                    *)
Advances(s, t) ==
    /\ t \in Chunks
    /\ Size(t) < Size(s)
    /\ Fits(s) => Fits(t)

LEMMA FillAdvances ==
    ASSUME NEW s \in Chunks, s.rest # <<>>, s.buf # <<>>,
           NEW size \in Nat, size > Len(s.buf), size <= HeaderSize + MaxMsgSize
    PROVE  Advances(s, Fill(s, size))
<1> DEFINE need == size - Len(s.buf)
<1>1. /\ s.buf \in Seq(Bytes) /\ s.rest \in Seq(Bytes) /\ s.msgs \in Seq(Seq(Bytes))
      /\ Len(s.buf) \in Nat /\ Len(s.rest) \in Nat /\ Len(s.rest) >= 1 /\ Len(s.buf) >= 1
      /\ need \in Nat /\ need >= 1 /\ size = Len(s.buf) + need
  BY ChunkFields
<1> HIDE DEF need
<1>2. CASE Len(s.rest) <= need
  <2> DEFINE b == s.buf \o s.rest
  <2>1. b \in Seq(Bytes) /\ Len(b) = Len(s.buf) + Len(s.rest)
    BY <1>1, ConcatProperties
  <2>2. b # <<>> /\ <<>> \in Seq(Bytes) /\ Len(<<>>) = 0
    BY <1>1, <2>1, SkipAll
  <2> HIDE DEF b
  <2>3. Fill(s, size) = St(b, <<>>, s.msgs)
    BY <1>1, <1>2, Fills DEF b
  <2> DEFINE t == St(b, <<>>, s.msgs)
  <2>4. t \in Chunks /\ t.buf = b /\ t.rest = <<>>
    <3> DEFINE e == <<>>
    <3>1. e \in Seq(Bytes)
      BY <2>2
    <3> HIDE DEF e
    <3>2. St(b, e, s.msgs) \in Chunks /\ St(b, e, s.msgs).buf = b /\ St(b, e, s.msgs).rest = e
      BY <1>1, <2>1, <3>1, StFields
    <3> QED BY <3>2 DEF e
  <2> HIDE DEF t
  <2>5. Size(t) < Size(s)
    BY <1>1, <2>2, <2>4, SizeFalls
  <2>6. Fits(t)
    <3> DEFINE top == HeaderSize + MaxMsgSize
    <3>1. top \in Nat /\ size <= top
      BY Header
    <3> HIDE DEF top
    <3>2. Len(b) <= top
      <4> DEFINE x == Len(s.buf)
                 y == Len(s.rest)
      <4>1. Len(b) = x + y /\ x \in Nat /\ y \in Nat /\ y <= need /\ need \in Nat
            /\ size = x + need
        BY <1>1, <1>2, <2>1
      <4> HIDE DEF x, y
      <4> QED BY <3>1, <4>1
    <3> QED BY <2>4, <3>2 DEF Fits, top
  <2> QED BY <2>3, <2>4, <2>5, <2>6 DEF Advances, t
<1>3. CASE Len(s.rest) > need
  <2> DEFINE p == SubSeq(s.rest, 1, need)
             r == Skip(s.rest, need)
             b == s.buf \o p
             t == St(b, r, s.msgs)
  <2>1. /\ p \in Seq(Bytes) /\ r \in Seq(Bytes) /\ Len(p) = need
        /\ Len(r) = Len(s.rest) - need
    <3>1. need \in 0..Len(s.rest)
      BY <1>1, <1>3
    <3>2. r \in Seq(Bytes) /\ Len(r) = Len(s.rest) - need
      BY <1>1, <3>1, SkipBytes
    <3>3. p \in Seq(Bytes) /\ Len(p) = need
      BY <1>1, <3>1, SkipPart
    <3> QED BY <3>2, <3>3
  <2>2. Fill(s, size) = t
    BY <1>1, <1>3, Fills
  <2> HIDE DEF p, r
  <2>3. b \in Seq(Bytes) /\ Len(b) = Len(s.buf) + need
    BY <1>1, <2>1, ConcatProperties
  <2> HIDE DEF b
  <2>4. t \in Chunks /\ t.buf = b /\ t.rest = r
    BY <1>1, <2>1, <2>3, StFields
  <2> HIDE DEF t
  <2>5. Size(t) < Size(s)
    <3>1. Len(t.rest) < Len(s.rest)
      BY <1>1, <2>1, <2>4
    <3> QED BY <2>4, <3>1, SizeFalls
  <2>6. Fits(t)
    <3> DEFINE top == HeaderSize + MaxMsgSize
    <3>1. top \in Nat /\ size <= top
      BY Header
    <3> HIDE DEF top
    <3>2. Len(b) <= top
      BY <1>1, <2>3, <3>1
    <3> QED BY <2>4, <3>2 DEF Fits, top
  <2> QED BY <2>2, <2>4, <2>5, <2>6 DEF Advances
<1> QED BY <1>1, <1>2, <1>3

LEMMA StepAdvances ==
    ASSUME NEW s \in Chunks, s.rest # <<>> PROVE Advances(s, Step(s))
<1>1. /\ s.buf \in Seq(Bytes) /\ s.rest \in Seq(Bytes) /\ s.msgs \in Seq(Seq(Bytes))
      /\ Len(s.buf) \in Nat /\ Len(s.rest) \in Nat /\ Len(s.rest) >= 1
      /\ s.buf # <<>> => Len(s.buf) >= 1
  BY ChunkFields
<1> DEFINE e == <<>>
<1>0. e \in Seq(Bytes)
  BY EmptySeq
<1>2. Len(e) = 0 /\ e = <<>>
  BY EmptySeq
<1> HIDE DEF e
<1>3. Fits(s) => Len(s.buf) <= HeaderSize + MaxMsgSize
  BY DEF Fits
<1>4. CASE s.buf = <<>> /\ \A i \in 1..Len(s.rest) : s.rest[i] # START
  <2> DEFINE t == St(e, e, s.msgs)
  <2>1. Step(s) = t
    BY <1>2, <1>4, HuntFails
  <2>2. t \in Chunks /\ t.buf = e /\ t.rest = e
    BY <1>0, <1>1, StFields
  <2> HIDE DEF t
  <2>3. Size(t) < Size(s)
    BY <1>1, <1>2, <2>2, SizeFalls
  <2>4. Fits(t)
    BY <1>2, <2>2, Header DEF Fits
  <2> QED BY <2>1, <2>2, <2>3, <2>4 DEF Advances
<1>5. ASSUME s.buf = <<>>, NEW k \in 1..Len(s.rest), s.rest[k] = START,
             \A i \in 1..(k - 1) : s.rest[i] # START
      PROVE  Advances(s, Step(s))
  <2> DEFINE b == <<START>>
             r == Skip(s.rest, k)
             t == St(b, r, s.msgs)
  <2>1. Step(s) = t
    BY <1>5, HuntFinds
  <2>2. b \in Seq(Bytes) /\ Len(b) = 1
    BY DEF START, Bytes
  <2>3. r \in Seq(Bytes) /\ Len(r) < Len(s.rest)
    <3>1. k \in 0..Len(s.rest) /\ k >= 1
      BY <1>1
    <3>2. r \in Seq(Bytes) /\ Len(r) = Len(s.rest) - k
      BY <1>1, <3>1, SkipBytes
    <3> QED BY <1>1, <3>1, <3>2
  <2> HIDE DEF b, r
  <2>4. t \in Chunks /\ t.buf = b /\ t.rest = r
    BY <1>1, <2>2, <2>3, StFields
  <2> HIDE DEF t
  <2>5. Size(t) < Size(s)
    BY <2>3, <2>4, SizeFalls
  <2>6. Fits(t)
    <3>1. Len(t.buf) = 1
      BY <2>2, <2>4
    <3> QED BY <3>1, Header DEF Fits
  <2> QED BY <2>1, <2>4, <2>5, <2>6 DEF Advances
<1>6. CASE s.buf # <<>> /\ Len(s.buf) < HeaderSize
  <2>1. HeaderSize \in Nat /\ HeaderSize > Len(s.buf) /\ HeaderSize <= HeaderSize + MaxMsgSize
    BY <1>1, <1>6, Header
  <2>2. Step(s) = Fill(s, HeaderSize)
    BY <1>6, Rounds
  <2> QED BY <1>6, <2>1, <2>2, FillAdvances
<1>7. CASE s.buf # <<>> /\ Len(s.buf) >= HeaderSize
  <2>1. MsgLength(s.buf) \in Nat
    BY <1>1, <1>2, <1>7, LengthKnown
  <2>2. CASE TooLong(s.buf)
    <3> DEFINE t == St(e, s.rest, s.msgs)
    <3>1. Step(s) = t
      BY <1>2, <1>7, <2>2, Rounds
    <3>2. t \in Chunks /\ t.buf = e /\ t.rest = s.rest
      BY <1>0, <1>1, StFields
    <3> HIDE DEF t
    <3>3. Size(t) < Size(s)
      BY <1>2, <1>7, <3>2, SizeFalls
    <3>4. Fits(t)
      BY <1>2, <3>2, Header DEF Fits
    <3> QED BY <3>1, <3>2, <3>3, <3>4 DEF Advances
  <2>3. CASE ~TooLong(s.buf) /\ Len(s.buf) < HeaderSize + MsgLength(s.buf)
    <3> DEFINE size == HeaderSize + MsgLength(s.buf)
    <3>1. size \in Nat /\ size > Len(s.buf) /\ size <= HeaderSize + MaxMsgSize
      BY <1>1, <2>1, <2>3, Header DEF TooLong
    <3>2. Step(s) = Fill(s, size)
      BY <1>7, <2>3, Rounds
    <3> HIDE DEF size
    <3> QED BY <1>7, <3>1, <3>2, FillAdvances
  <2>4. CASE ~TooLong(s.buf) /\ ~(Len(s.buf) < HeaderSize + MsgLength(s.buf))
    <3> DEFINE r == Skip(s.rest, 1)
               g == Gained(s.buf, s.rest[1])
               m == s.msgs \o g
               t == St(e, r, m)
    <3>1. Step(s) = t /\ g \in Seq(Seq(Bytes))
      BY <1>2, <1>7, <2>4, Rounds, Finishes
    <3>2. r \in Seq(Bytes) /\ Len(r) < Len(s.rest)
      <4>1. 1 \in 0..Len(s.rest)
        BY <1>1
      <4>2. r \in Seq(Bytes) /\ Len(r) = Len(s.rest) - 1
        BY <1>1, <4>1, SkipBytes
      <4> QED BY <1>1, <4>2
    <3> HIDE DEF g, r
    <3>3. m \in Seq(Seq(Bytes))
      BY <1>1, <3>1, ConcatProperties
    <3> HIDE DEF m
    <3>4. t \in Chunks /\ t.buf = e /\ t.rest = r
      BY <1>0, <1>1, <3>2, <3>3, StFields
    <3> HIDE DEF t
    <3>5. Size(t) < Size(s)
      BY <3>2, <3>4, SizeFalls
    <3>6. Fits(t)
      BY <1>2, <3>4, Header DEF Fits
    <3> QED BY <3>1, <3>4, <3>5, <3>6 DEF Advances
  <2> QED BY <2>2, <2>3, <2>4
<1>8. s.buf = <<>> => Advances(s, Step(s))
  BY <1>1, <1>4, <1>5, HuntCases
<1>9. Len(s.buf) < HeaderSize \/ Len(s.buf) >= HeaderSize
  BY <1>1, Header
<1> QED BY <1>6, <1>7, <1>8, <1>9

-----------------------------------------------------------------------------
(* The loop.                                                                 *)

(* What holds of a chunk when the loop ends at it or it holds after the next *)
(* round, holds of every chunk.                                              *)
LEMMA ChunkInduction ==
    ASSUME NEW G,
           \A s \in Chunks : s.rest = <<>> => s \in G,
           \A s \in Chunks : s.rest # <<>> /\ Step(s) \in G => s \in G
    PROVE  Chunks \subseteq G
<1> DEFINE H == {n \in Nat : \A s \in Chunks : Size(s) = n => s \in G}
<1>1. ASSUME NEW n \in Nat, \A m \in 0..(n - 1) : m \in H PROVE n \in H
  <2> SUFFICES ASSUME NEW s \in Chunks, Size(s) = n, s.rest # <<>> PROVE s \in G
    OBVIOUS
  <2>1. Step(s) \in Chunks /\ Size(Step(s)) < n
    BY StepAdvances DEF Advances
  <2>2. Size(Step(s)) \in 0..(n - 1)
    BY <2>1, SizeIs
  <2>3. Size(Step(s)) \in H
    <3> HIDE DEF H
    <3> QED BY <1>1, <2>2
  <2>4. Step(s) \in G
    BY <2>1, <2>3
  <2> QED BY <2>4
<1>2. Nat \subseteq H
  <2> HIDE DEF H
  <2> QED BY <1>1, StrongInduction
<1> QED BY <1>2, SizeIs

(* The recursion of ProcessAll has a solution: there is one for the chunks   *)
(* of each size, and those for two sizes agree where both are defined.       *)
Solves(f, n) ==
    \A s \in Chunks : Size(s) <= n => f[s] = IF s.rest = <<>> THEN s ELSE f[Step(s)]

LEMMA StepOfSize ==
    ASSUME NEW s \in Chunks, s.rest # <<>>, NEW n \in Nat, Size(s) <= n
    PROVE  /\ Step(s) \in Chunks /\ Size(Step(s)) \in Nat
           /\ Size(Step(s)) <= n /\ n # 0 /\ Size(Step(s)) <= n - 1
           /\ Size(s) \in Nat /\ Size(Step(s)) <= Size(s)
<1>1. Step(s) \in Chunks /\ Size(Step(s)) < Size(s)
  BY StepAdvances DEF Advances
<1>2. Size(s) \in Nat /\ Size(Step(s)) \in Nat
  BY <1>1, SizeIs
<1> QED BY <1>1, <1>2

LEMMA SolutionForSize == \A n \in Nat : \E f : Solves(f, n)
<1> DEFINE G == {n \in Nat : \E f : Solves(f, n)}
<1>1. ASSUME NEW n \in Nat, \A m \in 0..(n - 1) : m \in G PROVE n \in G
  <2>1. CASE n = 0
    <3> DEFINE g == [s \in Chunks |-> s]
    <3>1. ASSUME NEW s \in Chunks, Size(s) <= n
          PROVE  g[s] = IF s.rest = <<>> THEN s ELSE g[Step(s)]
      <4>1. s.rest = <<>>
        BY <2>1, <3>1, StepOfSize
      <4> QED BY <4>1
    <3>2. Solves(g, n)
      BY <3>1 DEF Solves
    <3> QED BY <3>2
  <2>2. CASE n # 0
    <3>1. n - 1 \in Nat /\ n - 1 \in 0..(n - 1)
      BY <2>2
    <3>2. n - 1 \in G
      <4> HIDE DEF G
      <4> QED BY <1>1, <3>1
    <3>3. PICK f : Solves(f, n - 1)
      BY <3>2
    <3> DEFINE g == [s \in Chunks |-> IF s.rest = <<>> THEN s ELSE f[Step(s)]]
    <3>4. ASSUME NEW s \in Chunks, Size(s) <= n
          PROVE  g[s] = IF s.rest = <<>> THEN s ELSE g[Step(s)]
      <4>1. CASE s.rest = <<>>
        BY <4>1
      <4>2. CASE s.rest # <<>>
        <5> DEFINE t == Step(s)
        <5>1. t \in Chunks /\ Size(t) <= n - 1
          BY <3>4, <4>2, StepOfSize
        <5>2. g[s] = f[t]
          BY <4>2
        <5> HIDE DEF t
        <5>3. f[t] = IF t.rest = <<>> THEN t ELSE f[Step(t)]
          BY <3>3, <5>1 DEF Solves
        <5>4. g[t] = IF t.rest = <<>> THEN t ELSE f[Step(t)]
          BY <5>1
        <5> QED BY <4>2, <5>2, <5>3, <5>4 DEF t
      <4> QED BY <4>1, <4>2
    <3>5. Solves(g, n)
      BY <3>4 DEF Solves
    <3> QED BY <3>5
  <2> QED BY <2>1, <2>2
<1>2. Nat \subseteq G
  <2> HIDE DEF G
  <2> QED BY <1>1, StrongInduction
<1> QED BY <1>2

LEMMA SolutionsAgree ==
    \A s \in Chunks : \A m, n \in Nat : \A f, g :
        Size(s) <= m /\ Size(s) <= n /\ Solves(f, m) /\ Solves(g, n) => f[s] = g[s]
<1> DEFINE Agree(s) == \A m, n \in Nat : \A f, g :
                Size(s) <= m /\ Size(s) <= n /\ Solves(f, m) /\ Solves(g, n) => f[s] = g[s]
           G == {s \in Chunks : Agree(s)}
<1>1. ASSUME NEW s \in Chunks, s.rest = <<>> PROVE s \in G
  <2> SUFFICES ASSUME NEW m \in Nat, NEW n \in Nat, NEW f, NEW g, Size(s) <= m, Size(s) <= n,
                      Solves(f, m), Solves(g, n)
               PROVE  f[s] = g[s]
    OBVIOUS
  <2>1. f[s] = s /\ g[s] = s
    BY <1>1 DEF Solves
  <2> QED BY <2>1
<1>2. ASSUME NEW s \in Chunks, s.rest # <<>>, Step(s) \in G PROVE s \in G
  <2> SUFFICES ASSUME NEW m \in Nat, NEW n \in Nat, NEW f, NEW g, Size(s) <= m, Size(s) <= n,
                      Solves(f, m), Solves(g, n)
               PROVE  f[s] = g[s]
    OBVIOUS
  <2> DEFINE t == Step(s)
  <2>1. f[s] = f[t] /\ g[s] = g[t]
    BY <1>2 DEF Solves
  <2>2. Size(t) <= m /\ Size(t) <= n
    BY <1>2, StepOfSize
  <2>3. Agree(t)
    BY <1>2
  <2> HIDE DEF t
  <2>4. f[t] = g[t]
    BY <2>2, <2>3
  <2> QED BY <2>1, <2>4
<1> HIDE DEF Agree
<1>3. Chunks \subseteq G
  <2> HIDE DEF G
  <2> QED BY <1>1, <1>2, ChunkInduction
<1> QED BY <1>3 DEF Agree

LEMMA Unfold ==
    \A s \in Chunks : ProcessAll[s] = IF s.rest = <<>> THEN s ELSE ProcessAll[Step(s)]
<1> DEFINE Whole(f) == f = [s \in Chunks |-> IF s.rest = <<>> THEN s ELSE f[Step(s)]]
           Of(s) == CHOOSE f : Solves(f, Size(s))
           F == [s \in Chunks |-> Of(s)[s]]
<1>1. ASSUME NEW s \in Chunks PROVE Solves(Of(s), Size(s)) /\ Size(s) \in Nat
  <2>1. Size(s) \in Nat
    BY SizeIs
  <2>2. \E f : Solves(f, Size(s))
    BY <2>1, SolutionForSize
  <2> QED BY <2>1, <2>2
<1>2. ASSUME NEW s \in Chunks PROVE F[s] = Of(s)[s]
  OBVIOUS
<1> HIDE DEF Of
<1>3. ASSUME NEW s \in Chunks PROVE F[s] = IF s.rest = <<>> THEN s ELSE F[Step(s)]
  <2> HIDE DEF F
  <2> DEFINE f == Of(s)
             n == Size(s)
  <2>1. Solves(f, n) /\ n \in Nat /\ n <= n /\ F[s] = f[s]
    BY <1>1, <1>2
  <2>2. f[s] = IF s.rest = <<>> THEN s ELSE f[Step(s)]
    <3> HIDE DEF f
    <3> QED BY <2>1 DEF Solves
  <2>3. ASSUME s.rest # <<>> PROVE f[Step(s)] = F[Step(s)]
    <3> DEFINE t == Step(s)
               g == Of(t)
               m == Size(t)
    <3>1. t \in Chunks /\ m \in Nat /\ m <= m /\ m <= n
      BY <2>1, <2>3, StepOfSize
    <3>2. Solves(g, m) /\ F[t] = g[t]
      <4> HIDE DEF t
      <4> QED BY <1>1, <1>2, <3>1
    <3> HIDE DEF t, f, g
    <3>3. f[t] = g[t]
      <4>1. Size(t) <= m /\ Size(t) <= n
        BY <3>1
      <4> HIDE DEF m, n
      <4> QED BY <2>1, <3>1, <3>2, <4>1, SolutionsAgree
    <3> QED BY <3>2, <3>3 DEF t
  <2> QED BY <2>1, <2>2, <2>3
<1>4. Whole(F)
  <2> DEFINE R == [s \in Chunks |-> IF s.rest = <<>> THEN s ELSE F[Step(s)]]
  <2>1. \A s \in Chunks : F[s] = R[s]
    <3> HIDE DEF F
    <3> QED BY <1>3
  <2>2. F = [s \in Chunks |-> F[s]] /\ R = [s \in Chunks |-> R[s]]
    OBVIOUS
  <2> HIDE DEF F, R
  <2>3. F = R
    BY <2>1, <2>2
  <2> QED BY <2>3 DEF R
<1>5. ProcessAll = CHOOSE f : Whole(f)
  BY DEF ProcessAll
<1>6. Whole(ProcessAll)
  <2>1. \E f : Whole(f)
    BY <1>4
  <2> HIDE DEF Whole
  <2> QED BY <1>5, <2>1
<1> QED BY <1>6

(* The loop ends with the chunk used up, and the buffer has room for what    *)
(* is kept.                                                                  *)
LEMMA LoopEnds ==
    \A s \in Chunks : /\ ProcessAll[s] \in Chunks /\ ProcessAll[s].rest = <<>>
                      /\ Fits(s) => Fits(ProcessAll[s])
<1> DEFINE G == {s \in Chunks : /\ ProcessAll[s] \in Chunks /\ ProcessAll[s].rest = <<>>
                                /\ Fits(s) => Fits(ProcessAll[s])}
<1>1. ASSUME NEW s \in Chunks, s.rest = <<>> PROVE s \in G
  BY <1>1, Unfold
<1>2. ASSUME NEW s \in Chunks, s.rest # <<>>, Step(s) \in G PROVE s \in G
  <2>1. ProcessAll[s] = ProcessAll[Step(s)]
    BY <1>2, Unfold
  <2>2. Fits(s) => Fits(Step(s))
    BY <1>2, StepAdvances DEF Advances
  <2> QED BY <1>2, <2>1, <2>2
<1>3. Chunks \subseteq G
  <2> HIDE DEF G
  <2> QED BY <1>1, <1>2, ChunkInduction
<1> QED BY <1>3

-----------------------------------------------------------------------------
(* More bytes after the chunk.                                               *)
Found == Seq(Seq(Bytes))

(* A round that is given the bytes more after its chunk does the same and    *)
(* leaves them, or it used up the chunk and goes on with them as the next    *)
(* round would.  The messages found earlier play no part.                    *)
SameRound(b, r, more, b2, r2, g) ==
    /\ b2 \in Seq(Bytes) /\ r2 \in Seq(Bytes) /\ g \in Found
    /\ \A m \in Found : Step(St(b, r, m)) = St(b2, r2, m \o g)
    /\ \/ \A m \in Found : Step(St(b, r \o more, m)) = St(b2, r2 \o more, m \o g)
       \/ /\ r2 = <<>> /\ g = <<>>
          /\ \A m \in Found : Step(St(b, r \o more, m)) = Step(St(b2, more, m))

(* The bytes of a chunk that is followed by more.                            *)
LEMMA Joined ==
    ASSUME NEW r \in Seq(Bytes), NEW more \in Seq(Bytes)
    PROVE  /\ r \o more \in Seq(Bytes) /\ Len(r \o more) = Len(r) + Len(more)
           /\ Len(r) \in Nat /\ Len(more) \in Nat
           /\ \A i \in 1..Len(r) : (r \o more)[i] = r[i]
           /\ \A i \in 1..Len(more) : (r \o more)[Len(r) + i] = more[i]
           /\ (r # <<>> => r \o more # <<>>)
<1>1. /\ r \o more \in Seq(Bytes) /\ Len(r \o more) = Len(r) + Len(more)
      /\ Len(r) \in Nat /\ Len(more) \in Nat
      /\ \A i \in 1..(Len(r) + Len(more)) :
            (r \o more)[i] = IF i <= Len(r) THEN r[i] ELSE more[i - Len(r)]
  BY ConcatProperties, LenProperties
<1>2. ASSUME NEW i \in 1..Len(r) PROVE (r \o more)[i] = r[i]
  BY <1>1
<1>3. ASSUME NEW i \in 1..Len(more) PROVE (r \o more)[Len(r) + i] = more[i]
  <2>1. Len(r) + i \in 1..(Len(r) + Len(more)) /\ ~(Len(r) + i <= Len(r))
        /\ (Len(r) + i) - Len(r) = i
    BY <1>1
  <2>2. (r \o more)[Len(r) + i] = more[(Len(r) + i) - Len(r)]
    BY <1>1, <2>1
  <2> QED BY <2>1, <2>2
<1>4. ASSUME r # <<>> PROVE r \o more # <<>>
  <2>1. Len(r) # 0
    BY <1>4, SkipAll
  <2>2. Len(r \o more) # 0
    <3> DEFINE x == Len(r)
               y == Len(more)
    <3>1. x \in Nat /\ y \in Nat /\ x # 0 /\ Len(r \o more) = x + y
      BY <1>1, <2>1
    <3> HIDE DEF x, y
    <3> QED BY <3>1
  <2> QED BY <1>1, <2>2, SkipAll
<1> QED BY <1>1, <1>2, <1>3, <1>4

LEMMA HuntingOn ==
    ASSUME NEW r \in Seq(Bytes), NEW more \in Seq(Bytes)
    PROVE  \E b2, r2, g : SameRound(<<>>, r, more, b2, r2, g)
<1> DEFINE e == <<>>
           w == r \o more
<1>0. e \in Seq(Bytes) /\ e \in Found
  BY DEF Found
<1>1. /\ w \in Seq(Bytes) /\ Len(w) = Len(r) + Len(more) /\ Len(r) \in Nat /\ Len(more) \in Nat
      /\ \A i \in 1..Len(r) : w[i] = r[i]
      /\ \A i \in 1..Len(more) : w[Len(r) + i] = more[i]
  BY Joined
<1>2. ASSUME NEW m \in Found PROVE m \o e = m
  BY ConcatEmptySeq DEF Found
<1>3. ASSUME NEW x \in Seq(Bytes), NEW m \in Found
      PROVE  St(e, x, m) \in Chunks /\ St(e, x, m).buf = <<>> /\ St(e, x, m).rest = x
             /\ St(e, x, m).msgs = m
  <2> HIDE DEF e
  <2>1. St(e, x, m) \in Chunks /\ St(e, x, m).buf = e /\ St(e, x, m).rest = x
        /\ St(e, x, m).msgs = m
    BY <1>0, <1>3, StFields DEF Found
  <2> QED BY <2>1 DEF e
<1> HIDE DEF w
<1>4. ASSUME NEW x \in Seq(Bytes), NEW m \in Found, \A i \in 1..Len(x) : x[i] # START
      PROVE  Step(St(e, x, m)) = St(e, e, m)
  <2> DEFINE s == St(e, x, m)
  <2>1. s \in Chunks /\ s.buf = <<>> /\ s.rest = x /\ s.msgs = m
    BY <1>3, <1>4
  <2> HIDE DEF s
  <2>2. Step(s) = St(<<>>, <<>>, m)
    BY <1>4, <2>1, HuntFails
  <2> QED BY <2>2 DEF s
<1>5. ASSUME NEW x \in Seq(Bytes), NEW m \in Found, NEW k \in 1..Len(x), x[k] = START,
             \A i \in 1..(k - 1) : x[i] # START
      PROVE  Step(St(e, x, m)) = St(<<START>>, Skip(x, k), m)
  BY <1>3, <1>5, HuntFinds
<1>6. ASSUME \A i \in 1..Len(r) : r[i] # START, NEW m \in Found
      PROVE  Step(St(e, w, m)) = Step(St(e, more, m))
  <2>1. CASE \A i \in 1..Len(more) : more[i] # START
    <3>1. ASSUME NEW i \in 1..Len(w) PROVE w[i] # START
      <4>1. CASE i <= Len(r)
        BY <1>1, <1>6, <4>1
      <4>2. CASE i > Len(r)
        <5> DEFINE j == i - Len(r)
        <5>1. j \in 1..Len(more) /\ i = Len(r) + j
          BY <1>1, <4>2
        <5> HIDE DEF j
        <5> QED BY <1>1, <2>1, <5>1
      <4> QED BY <1>1, <4>1, <4>2
    <3> QED BY <1>1, <1>4, <2>1, <3>1
  <2>2. ASSUME NEW k \in 1..Len(more), more[k] = START, \A i \in 1..(k - 1) : more[i] # START
        PROVE  Step(St(e, w, m)) = Step(St(e, more, m))
    <3> DEFINE l == Len(r) + k
    <3>1. l \in 1..Len(w) /\ w[l] = START
      BY <1>1, <2>2
    <3>2. ASSUME NEW i \in 1..(l - 1) PROVE w[i] # START
      <4>1. CASE i <= Len(r)
        BY <1>1, <1>6, <4>1
      <4>2. CASE i > Len(r)
        <5> DEFINE j == i - Len(r)
        <5>1. j \in 1..Len(more) /\ j \in 1..(k - 1) /\ i = Len(r) + j
          BY <1>1, <4>2
        <5> HIDE DEF j
        <5> QED BY <1>1, <2>2, <5>1
      <4> QED BY <1>1, <4>1, <4>2
    <3>3. Skip(w, l) = Skip(more, k)
      <4>1. k \in 0..Len(more)
        BY <1>1
      <4> QED BY <4>1, PartOfSecond DEF w
    <3> HIDE DEF l
    <3>4. Step(St(e, w, m)) = St(<<START>>, Skip(w, l), m)
      BY <1>1, <1>5, <3>1, <3>2
    <3>5. Step(St(e, more, m)) = St(<<START>>, Skip(more, k), m)
      BY <1>5, <2>2
    <3> QED BY <3>3, <3>4, <3>5
  <2> QED BY <2>1, <2>2, HuntCases
<1>7. CASE \A i \in 1..Len(r) : r[i] # START
  <2>1. SameRound(e, r, more, e, e, e)
    <3>1. e = <<>>
      OBVIOUS
    <3> HIDE DEF e
    <3>2. \A m \in Found : Step(St(e, r, m)) = St(e, e, m \o e)
      BY <1>2, <1>4, <1>7
    <3>3. \A m \in Found : Step(St(e, r \o more, m)) = Step(St(e, more, m))
      BY <1>6, <1>7 DEF w
    <3> QED BY <1>0, <3>1, <3>2, <3>3 DEF SameRound
  <2> QED BY <2>1
<1>8. ASSUME NEW k \in 1..Len(r), r[k] = START, \A i \in 1..(k - 1) : r[i] # START
      PROVE  \E b2, r2, g : SameRound(e, r, more, b2, r2, g)
  <2>1. k \in 1..Len(w) /\ w[k] = START /\ \A i \in 1..(k - 1) : w[i] # START
    <3>1. k \in 1..Len(w)
      <4> DEFINE x == Len(r)
                 y == Len(more)
      <4>1. x \in Nat /\ y \in Nat /\ Len(w) = x + y /\ k \in 1..x
        BY <1>1
      <4> HIDE DEF x, y
      <4> QED BY <4>1
    <3>2. \A i \in 1..(k - 1) : i \in 1..Len(r)
      BY <1>1
    <3> QED BY <1>1, <1>8, <3>1, <3>2
  <2>2. Skip(w, k) = Skip(r, k) \o more /\ Skip(r, k) \in Seq(Bytes)
    <3>1. k \in 0..Len(r)
      BY <1>1
    <3> QED BY <3>1, PartOfFirst, SkipPart DEF w
  <2> DEFINE b == <<START>>
             s == Skip(r, k)
  <2>3. b \in Seq(Bytes)
    BY DEF START, Bytes
  <2>4. ASSUME NEW m \in Found PROVE Step(St(e, r, m)) = St(b, s, m \o e)
    BY <1>2, <1>5, <1>8, <2>4
  <2>5. ASSUME NEW m \in Found PROVE Step(St(e, w, m)) = St(b, s \o more, m \o e)
    <3>1. Step(St(e, w, m)) = St(<<START>>, Skip(w, k), m)
      BY <1>1, <1>5, <2>1, <2>5
    <3>2. m \o e = m
      BY <1>2, <2>5
    <3> QED BY <2>2, <3>1, <3>2
  <2>6. SameRound(e, r, more, b, s, e)
    <3> HIDE DEF b, s, e
    <3>1. s \in Seq(Bytes)
      BY <2>2 DEF s
    <3> QED BY <1>0, <2>3, <2>4, <2>5, <3>1 DEF SameRound, w
  <2> QED BY <2>6
<1> QED BY <1>7, <1>8, HuntCases

LEMMA FillingOn ==
    ASSUME NEW b \in Seq(Bytes), NEW r \in Seq(Bytes), NEW more \in Seq(Bytes), NEW m \in Found,
           NEW size \in Nat, NEW need \in Nat, size = Len(b) + need
    PROVE  /\ Len(r) >= need =>
                /\ Fill(St(b, r, m), size) = St(b \o SubSeq(r, 1, need), Skip(r, need), m)
                /\ Fill(St(b, r \o more, m), size)
                     = St(b \o SubSeq(r, 1, need), Skip(r, need) \o more, m)
           /\ Len(r) < need =>
                /\ Fill(St(b, r, m), size) = St(b \o r, <<>>, m)
                /\ Fill(St(b, r \o more, m), size) = Fill(St(b \o r, more, m), size)
<1> DEFINE w == r \o more
           c == b \o r
<1>1. /\ w \in Seq(Bytes) /\ Len(w) = Len(r) + Len(more)
      /\ Len(r) \in Nat /\ Len(more) \in Nat /\ Len(b) \in Nat
  BY Joined, LenProperties
<1>2. c \in Seq(Bytes) /\ Len(c) = Len(b) + Len(r)
  BY ConcatProperties
<1> HIDE DEF c, w
<1>3. ASSUME NEW x \in Seq(Bytes), NEW y \in Seq(Bytes), NEW n \in Nat, size = Len(x) + n
      PROVE  /\ Len(y) <= n => Fill(St(x, y, m), size) = St(x \o y, <<>>, m)
             /\ Len(y) >= n => Fill(St(x, y, m), size) = St(x \o SubSeq(y, 1, n), Skip(y, n), m)
  <2> DEFINE s == St(x, y, m)
  <2>1. s \in Chunks /\ s.buf = x /\ s.rest = y /\ s.msgs = m
    BY <1>3, StFields DEF Found
  <2> HIDE DEF s
  <2>2. /\ Len(y) <= n => Fill(s, size) = St(x \o y, <<>>, m)
        /\ Len(y) >= n => Fill(s, size) = St(x \o SubSeq(y, 1, n), Skip(y, n), m)
    BY <1>3, <2>1, Fills
  <2> QED BY <2>2 DEF s
<1>4. CASE Len(r) >= need
  <2>1. need \in 0..Len(r)
    BY <1>1, <1>4
  <2>2. SubSeq(w, 1, need) = SubSeq(r, 1, need) /\ Skip(w, need) = Skip(r, need) \o more
    BY <2>1, PartOfFirst DEF w
  <2>3. Len(w) >= need
    BY <1>1, <1>4
  <2>4. Fill(St(b, r, m), size) = St(b \o SubSeq(r, 1, need), Skip(r, need), m)
    BY <1>3, <1>4
  <2>5. Fill(St(b, w, m), size) = St(b \o SubSeq(w, 1, need), Skip(w, need), m)
    BY <1>1, <1>3, <2>3
  <2>6. ~(Len(r) < need)
    BY <1>1, <1>4
  <2> QED BY <2>2, <2>4, <2>5, <2>6 DEF w
<1>5. CASE Len(r) < need
  <2> DEFINE n == need - Len(r)
  <2>1. n \in Nat /\ size = Len(c) + n /\ need = Len(r) + n
    <3> DEFINE x == Len(r)
               y == Len(b)
    <3>1. x \in Nat /\ y \in Nat /\ size = y + need /\ Len(c) = y + x /\ x < need
      BY <1>1, <1>2, <1>5
    <3> HIDE DEF x, y
    <3>2. need - x \in Nat /\ size = Len(c) + (need - x) /\ need = x + (need - x)
      BY <3>1
    <3> QED BY <3>2 DEF x
  <2> HIDE DEF n
  <2>2. Fill(St(b, r, m), size) = St(c, <<>>, m)
    <3>1. Len(r) <= need
      BY <1>1, <1>5
    <3> QED BY <1>3, <3>1 DEF c
  <2>3. Fill(St(b, w, m), size) = Fill(St(c, more, m), size)
    <3>1. CASE Len(more) <= n
      <4>1. Len(w) <= need
        <5> DEFINE x == Len(r)
                   y == Len(more)
        <5>1. x \in Nat /\ y \in Nat /\ Len(w) = x + y /\ need = x + n /\ y <= n
          BY <1>1, <2>1, <3>1
        <5> HIDE DEF x, y
        <5> QED BY <2>1, <5>1
      <4>2. Fill(St(b, w, m), size) = St(b \o w, <<>>, m)
        BY <1>1, <1>3, <4>1
      <4>3. Fill(St(c, more, m), size) = St(c \o more, <<>>, m)
        BY <1>2, <1>3, <2>1, <3>1
      <4>4. b \o w = c \o more
        BY BytesTogether DEF c, w
      <4> QED BY <4>2, <4>3, <4>4
    <3>2. CASE Len(more) >= n
      <4>1. Len(w) >= need
        <5> DEFINE x == Len(r)
                   y == Len(more)
        <5>1. x \in Nat /\ y \in Nat /\ Len(w) = x + y /\ need = x + n /\ y >= n
          BY <1>1, <2>1, <3>2
        <5> HIDE DEF x, y
        <5> QED BY <2>1, <5>1
      <4>2. Fill(St(b, w, m), size) = St(b \o SubSeq(w, 1, need), Skip(w, need), m)
        BY <1>1, <1>3, <4>1
      <4>3. Fill(St(c, more, m), size) = St(c \o SubSeq(more, 1, n), Skip(more, n), m)
        BY <1>2, <1>3, <2>1, <3>2
      <4>4. n \in 0..Len(more)
        BY <1>1, <2>1, <3>2
      <4>5. SubSeq(w, 1, need) = r \o SubSeq(more, 1, n) /\ Skip(w, need) = Skip(more, n)
        BY <2>1, <4>4, PartOfSecond DEF w
      <4>6. b \o (r \o SubSeq(more, 1, n)) = c \o SubSeq(more, 1, n)
        <5> DEFINE p == SubSeq(more, 1, n)
        <5>1. p \in Seq(Bytes)
          BY <4>4, SkipPart
        <5> HIDE DEF p
        <5>2. b \o (r \o p) = c \o p
          BY <5>1, BytesTogether DEF c
        <5> QED BY <5>2 DEF p
      <4> QED BY <4>2, <4>3, <4>5, <4>6
    <3>3. Len(more) <= n \/ Len(more) >= n
      BY <1>1, <2>1
    <3> QED BY <3>1, <3>2, <3>3
  <2>4. ~(Len(r) >= need)
    BY <1>1, <1>5
  <2> QED BY <2>2, <2>3, <2>4 DEF c, w
<1>6. Len(r) >= need \/ Len(r) < need
  BY <1>1
<1> QED BY <1>4, <1>5, <1>6

(* The buffer is filled up to the same size with and without more.           *)
LEMMA FillRound ==
    ASSUME NEW b \in Seq(Bytes), NEW r \in Seq(Bytes), NEW more \in Seq(Bytes),
           NEW size \in Nat, Len(b) < size,
           \A x \in Seq(Bytes) : \A m \in Found : Step(St(b, x, m)) = Fill(St(b, x, m), size),
           Len(b \o r) < size =>
              \A m \in Found : Step(St(b \o r, more, m)) = Fill(St(b \o r, more, m), size)
    PROVE  \E b2, r2, g : SameRound(b, r, more, b2, r2, g)
<1> DEFINE need == size - Len(b)
           w == r \o more
           c == b \o r
           e == <<>>
<1>1. /\ w \in Seq(Bytes) /\ Len(r) \in Nat /\ Len(b) \in Nat
      /\ need \in Nat /\ size = Len(b) + need
  BY Joined, LenProperties
<1>2. c \in Seq(Bytes) /\ Len(c) = Len(b) + Len(r)
  BY ConcatProperties
<1>3. e \in Seq(Bytes) /\ e \in Found
  BY DEF Found
<1>4. ASSUME NEW m \in Found PROVE m \o e = m
  BY ConcatEmptySeq DEF Found
<1>5. e = <<>>
  OBVIOUS
<1> HIDE DEF need, w, c, e
<1>6. CASE Len(r) >= need
  <2> DEFINE p == SubSeq(r, 1, need)
             b2 == b \o p
             r2 == Skip(r, need)
  <2>1. r2 \in Seq(Bytes) /\ p \in Seq(Bytes)
    <3>1. need \in 0..Len(r)
      BY <1>1, <1>6
    <3> QED BY <3>1, SkipPart
  <2> HIDE DEF p
  <2>2. b2 \in Seq(Bytes)
    BY <2>1, ConcatProperties
  <2>3. ASSUME NEW m \in Found PROVE Step(St(b, r, m)) = St(b2, r2, m \o e)
    <3>1. Fill(St(b, r, m), size) = St(b \o SubSeq(r, 1, need), Skip(r, need), m)
      BY <1>1, <1>6, <2>3, FillingOn
    <3>2. Step(St(b, r, m)) = Fill(St(b, r, m), size) /\ m \o e = m
      BY <1>4, <2>3
    <3> QED BY <3>1, <3>2 DEF p
  <2>4. ASSUME NEW m \in Found PROVE Step(St(b, w, m)) = St(b2, r2 \o more, m \o e)
    <3>1. Fill(St(b, r \o more, m), size) = St(b \o SubSeq(r, 1, need), Skip(r, need) \o more, m)
      BY <1>1, <1>6, <2>4, FillingOn
    <3>2. Step(St(b, w, m)) = Fill(St(b, w, m), size) /\ m \o e = m
      BY <1>1, <1>4, <2>4
    <3> QED BY <3>1, <3>2 DEF p, w
  <2> HIDE DEF b2, r2
  <2> QED BY <1>3, <2>1, <2>2, <2>3, <2>4 DEF SameRound, w
<1>7. CASE Len(r) < need
  <2>1. Len(c) < size
    <3> DEFINE x == Len(r)
               y == Len(b)
    <3>1. x \in Nat /\ y \in Nat /\ size = y + need /\ Len(c) = y + x /\ x < need
      BY <1>1, <1>2, <1>7
    <3> HIDE DEF x, y
    <3> QED BY <1>1, <3>1
  <2>2. ASSUME NEW m \in Found PROVE Step(St(b, r, m)) = St(c, e, m \o e)
    BY <1>1, <1>4, <1>5, <1>7, <2>2, FillingOn DEF c
  <2>3. ASSUME NEW m \in Found PROVE Step(St(b, w, m)) = Step(St(c, more, m))
    <3>1. Step(St(b, w, m)) = Fill(St(b, w, m), size)
      BY <1>1
    <3>2. Fill(St(b, w, m), size) = Fill(St(c, more, m), size)
      BY <1>1, <1>7, FillingOn DEF c, w
    <3>3. Step(St(c, more, m)) = Fill(St(c, more, m), size)
      BY <2>1 DEF c
    <3> QED BY <3>1, <3>2, <3>3
  <2>4. SameRound(b, r, more, c, e, e)
    BY <1>2, <1>3, <1>5, <2>2, <2>3 DEF SameRound, w
  <2> QED BY <2>4
<1> QED BY <1>1, <1>6, <1>7

LEMMA RoundIsSame ==
    ASSUME NEW b \in Seq(Bytes), NEW r \in Seq(Bytes), NEW more \in Seq(Bytes), r # <<>>
    PROVE  \E b2, r2, g : SameRound(b, r, more, b2, r2, g)
<1> DEFINE w == r \o more
           e == <<>>
<1>0. Len(b) \in Nat /\ HeaderSize \in Nat
  BY LenProperties, Header
<1>1. w \in Seq(Bytes) /\ w # <<>>
  BY Joined
<1>2. e \in Seq(Bytes) /\ e \in Found
  BY DEF Found
<1>3. ASSUME NEW m \in Found PROVE m \o e = m
  BY ConcatEmptySeq DEF Found
<1>4. e = <<>>
  OBVIOUS
<1> HIDE DEF w, e
<1>5. ASSUME NEW x \in Seq(Bytes), NEW y \in Seq(Bytes), NEW m \in Found
      PROVE  St(x, y, m) \in Chunks /\ St(x, y, m).buf = x /\ St(x, y, m).rest = y
             /\ St(x, y, m).msgs = m
  BY <1>5, StFields DEF Found
<1>6. CASE b = <<>>
  BY <1>6, HuntingOn
<1>7. CASE b # <<>> /\ Len(b) < HeaderSize
  <2>1. ASSUME NEW c \in Seq(Bytes), c # <<>>, Len(c) < HeaderSize, NEW x \in Seq(Bytes),
               NEW m \in Found
        PROVE  Step(St(c, x, m)) = Fill(St(c, x, m), HeaderSize)
    BY <1>5, <2>1, Rounds
  <2>2. b \o r \in Seq(Bytes) /\ b \o r # <<>>
    BY <1>7, Joined
  <2> QED BY <1>0, <1>7, <2>1, <2>2, FillRound
<1>8. ASSUME b # <<>>, Len(b) >= HeaderSize
      PROVE  \E b2, r2, g : SameRound(b, r, more, b2, r2, g)
  <2>1. MsgLength(b) \in Nat
    BY <1>2, <1>8, LengthKnown
  <2>2. CASE TooLong(b)
    <3>1. ASSUME NEW x \in Seq(Bytes), NEW m \in Found PROVE Step(St(b, x, m)) = St(e, x, m \o e)
      BY <1>3, <1>4, <1>5, <1>8, <2>2, <3>1, Rounds
    <3>2. SameRound(b, r, more, e, r, e)
      BY <1>1, <1>2, <3>1 DEF SameRound, w
    <3> QED BY <3>2
  <2>3. CASE ~TooLong(b) /\ Len(b) < HeaderSize + MsgLength(b)
    <3> DEFINE size == HeaderSize + MsgLength(b)
               c == b \o r
    <3>1. size \in Nat /\ Len(b) < size
      BY <1>0, <2>1, <2>3
    <3>2. ASSUME NEW x \in Seq(Bytes), NEW m \in Found
          PROVE  Step(St(b, x, m)) = Fill(St(b, x, m), size)
      BY <1>5, <1>8, <2>3, <3>2, Rounds
    <3>3. c \in Seq(Bytes) /\ c # <<>> /\ Len(c) >= HeaderSize
      <4>1. c \in Seq(Bytes) /\ c # <<>> /\ Len(c) = Len(b) + Len(r) /\ Len(r) \in Nat
        BY <1>8, Joined
      <4>2. Len(c) >= HeaderSize
        <5> DEFINE x == Len(r)
                   y == Len(b)
        <5>1. x \in Nat /\ y \in Nat /\ Len(c) = y + x /\ y >= HeaderSize
          BY <1>0, <1>8, <4>1
        <5> HIDE DEF x, y, c
        <5> QED BY <1>0, <5>1
      <4> QED BY <4>1, <4>2
    <3>4. MsgLength(c) = MsgLength(b)
      BY <1>8, LengthKnown
    <3>5. ~TooLong(c)
      BY <2>3, <3>4 DEF TooLong
    <3>6. ASSUME Len(c) < size, NEW m \in Found
          PROVE  Step(St(c, more, m)) = Fill(St(c, more, m), size)
      <4>1. Len(c) < HeaderSize + MsgLength(c)
        BY <3>4, <3>6
      <4> HIDE DEF c
      <4>2. Step(St(c, more, m)) = Fill(St(c, more, m), HeaderSize + MsgLength(c))
        BY <1>5, <3>3, <3>5, <4>1, Rounds
      <4> QED BY <3>4, <4>2
    <3> HIDE DEF size
    <3> QED BY <3>1, <3>2, <3>6, FillRound
  <2>4. CASE ~TooLong(b) /\ ~(Len(b) < HeaderSize + MsgLength(b))
    <3> DEFINE g == Gained(b, r[1])
               t == Skip(r, 1)
    <3>1. ASSUME NEW x \in Seq(Bytes), x # <<>>, NEW m \in Found
          PROVE  /\ Step(St(b, x, m)) = St(e, Skip(x, 1), m \o Gained(b, x[1]))
                 /\ Gained(b, x[1]) \in Found
      <4> DEFINE s == St(b, x, m)
      <4>1. s \in Chunks /\ s.buf = b /\ s.rest = x /\ s.msgs = m
        BY <1>5, <3>1
      <4> HIDE DEF s
      <4>2. Step(s) = Finish(s)
        BY <1>8, <2>4, <4>1, Rounds
      <4>3. /\ Finish(s) = St(<<>>, Skip(x, 1), m \o Gained(b, x[1]))
            /\ Gained(b, x[1]) \in Found
        BY <1>8, <3>1, <4>1, Finishes DEF Found
      <4> QED BY <1>4, <4>2, <4>3 DEF s
    <3>2. \A m \in Found : Step(St(b, r, m)) = St(e, t, m \o g)
      BY <3>1
    <3>3. g \in Found
      BY <3>1, <1>2
    <3>4. 1 \in 0..Len(r) /\ 1 \in 1..Len(r)
      BY HeadTail
    <3>5. Skip(w, 1) = t \o more /\ t \in Seq(Bytes)
      BY <3>4, PartOfFirst, SkipPart DEF w
    <3>6. w[1] = r[1]
      BY <3>4, Joined DEF w
    <3>7. \A m \in Found : Step(St(b, w, m)) = St(e, t \o more, m \o g)
      BY <1>1, <3>1, <3>5, <3>6
    <3>8. SameRound(b, r, more, e, t, g)
      <4> HIDE DEF t, g
      <4> QED BY <1>2, <3>2, <3>3, <3>5, <3>7 DEF SameRound, w
    <3> QED BY <3>8
  <2> QED BY <2>2, <2>3, <2>4
<1> QED BY <1>0, <1>6, <1>7, <1>8

LEMMA FoundTogether ==
    ASSUME NEW m \in Found, NEW g \in Found, NEW h \in Found
    PROVE  m \o g \in Found /\ (m \o g) \o h = m \o (g \o h)
<1> DEFINE S == Seq(Bytes)
<1>1. m \in Seq(S) /\ g \in Seq(S) /\ h \in Seq(S)
  BY DEF Found
<1> HIDE DEF S
<1>2. m \o g \in Seq(S)
  BY <1>1, ConcatProperties
<1>3. (m \o g) \o h = m \o (g \o h)
  BY <1>1, Together
<1> QED BY <1>2, <1>3 DEF Found, S

LEMMA Parts ==
    ASSUME NEW s \in Seq(Bytes), NEW n \in 0..Len(s)
    PROVE  /\ SubSeq(s, 1, n) \in Seq(Bytes) /\ Skip(s, n) \in Seq(Bytes)
           /\ SubSeq(s, 1, n) \o Skip(s, n) = s
<1>1. SubSeq(s, 1, n) \in Seq(Bytes) /\ Skip(s, n) \in Seq(Bytes)
  BY SkipPart
<1>2. Len(s) \in Nat /\ n \in 0..Len(s) /\ 1 \in 1..(Len(s) + 1) /\ n \in (1 - 1)..Len(s)
      /\ Len(s) \in n..Len(s)
  BY LenProperties
<1>3. SubSeq(s, 1, n) \o SubSeq(s, n + 1, Len(s)) = SubSeq(s, 1, Len(s))
  BY <1>2, ConcatAdjacentSubSeq
<1> QED BY <1>1, <1>3, SkipAll DEF Skip

LEMMA NothingTogether ==
    ASSUME NEW g \in Found, NEW r \in Found, g \o r = <<>>
    PROVE  g = <<>>
<1> DEFINE x == Len(g)
           y == Len(r)
<1>1. Len(g \o r) = x + y /\ x \in Nat /\ y \in Nat
  BY ConcatProperties, LenProperties DEF Found
<1>2. Len(g \o r) = 0
  OBVIOUS
<1>3. x = 0
  <2> HIDE DEF x, y
  <2> QED BY <1>1, <1>2
<1> QED BY <1>3, EmptySeq DEF Found

LEMMA NoMore ==
    ASSUME NEW b \in Seq(Bytes), NEW m \in Found
    PROVE  ProcessAll[St(b, <<>>, m)] = St(b, <<>>, m)
<1> DEFINE e == <<>>
<1>0. e \in Seq(Bytes)
  OBVIOUS
<1>1. e = <<>>
  OBVIOUS
<1> HIDE DEF e
<1>2. St(b, e, m) \in Chunks /\ St(b, e, m).rest = e
  BY <1>0, StFields DEF Found
<1> DEFINE s == St(b, e, m)
<1>3. s \in Chunks /\ s.rest = <<>>
  BY <1>1, <1>2
<1> HIDE DEF s
<1>4. ProcessAll[s] = s
  BY <1>3, Unfold
<1> QED BY <1>1, <1>4 DEF s

LEMMA OneRound ==
    ASSUME NEW b \in Seq(Bytes), NEW r \in Seq(Bytes), r # <<>>, NEW m \in Found
    PROVE  ProcessAll[St(b, r, m)] = ProcessAll[Step(St(b, r, m))]
<1>1. St(b, r, m) \in Chunks /\ St(b, r, m).rest = r
  BY StFields DEF Found
<1> QED BY <1>1, Unfold

(* The messages found earlier stay in front, whatever they are.              *)
EarlierKept(s) ==
    \E c \in Seq(Bytes), g \in Found :
        \A m \in Found : ProcessAll[St(s.buf, s.rest, m)] = St(c, <<>>, m \o g)

LEMMA Earlier == \A s \in Chunks : EarlierKept(s)
<1> DEFINE G == {s \in Chunks : EarlierKept(s)}
           e == <<>>
<1>0. e \in Found /\ e \in Seq(Bytes)
  BY DEF Found
<1>1. ASSUME NEW s \in Chunks, s.rest = <<>> PROVE EarlierKept(s)
  <2>1. s.buf \in Seq(Bytes)
    BY ChunkFields
  <2>2. ASSUME NEW m \in Found PROVE ProcessAll[St(s.buf, s.rest, m)] = St(s.buf, <<>>, m \o e)
    <3>1. m \o e = m
      BY ConcatEmptySeq DEF Found
    <3> QED BY <1>1, <2>1, <3>1, NoMore
  <2> HIDE DEF e
  <2> QED BY <1>0, <2>1, <2>2 DEF EarlierKept
<1>2. ASSUME NEW s \in Chunks, s.rest # <<>>, EarlierKept(Step(s)) PROVE EarlierKept(s)
  <2> DEFINE b == s.buf
             r == s.rest
  <2>1. b \in Seq(Bytes) /\ r \in Seq(Bytes) /\ r # <<>> /\ s.msgs \in Found
        /\ s = St(b, r, s.msgs)
    BY <1>2, ChunkFields DEF Found
  <2>2. PICK b2, r2, g : SameRound(b, r, e, b2, r2, g)
    <3> HIDE DEF b, r, e
    <3> QED BY <1>0, <2>1, RoundIsSame
  <2> HIDE DEF b, r
  <2>3. /\ b2 \in Seq(Bytes) /\ r2 \in Seq(Bytes) /\ g \in Found
        /\ \A m \in Found : Step(St(b, r, m)) = St(b2, r2, m \o g)
    BY <2>2 DEF SameRound
  <2>4. Step(s).buf = b2 /\ Step(s).rest = r2
    <3>1. Step(s) = St(b2, r2, s.msgs \o g)
      BY <2>1, <2>3
    <3> QED BY <3>1, StFields
  <2>5. PICK c \in Seq(Bytes), h \in Found :
            \A m \in Found : ProcessAll[St(b2, r2, m)] = St(c, <<>>, m \o h)
    BY <1>2, <2>4 DEF EarlierKept
  <2>6. g \o h \in Found
    BY <2>3, ConcatProperties DEF Found
  <2>7. ASSUME NEW m \in Found PROVE ProcessAll[St(b, r, m)] = St(c, <<>>, m \o (g \o h))
    <3>1. m \o g \in Found /\ (m \o g) \o h = m \o (g \o h)
      BY <2>3, FoundTogether
    <3>2. ProcessAll[St(b, r, m)] = ProcessAll[St(b2, r2, m \o g)]
      BY <2>1, <2>3, OneRound
    <3>3. ProcessAll[St(b2, r2, m \o g)] = St(c, <<>>, (m \o g) \o h)
      BY <2>5, <3>1
    <3> QED BY <3>1, <3>2, <3>3
  <2> QED BY <2>5, <2>6, <2>7 DEF EarlierKept, b, r
<1>3. Chunks \subseteq G
  <2>1. \A s \in Chunks : s.rest = <<>> => s \in G
    BY <1>1
  <2>2. \A s \in Chunks : s.rest # <<>> /\ Step(s) \in G => s \in G
    BY <1>2
  <2> HIDE DEF G
  <2> QED BY <2>1, <2>2, ChunkInduction
<1> QED BY <1>3

(* Bytes that come later are read as if they had been there from the start.  *)
LEMMA Later ==
    ASSUME NEW more \in Seq(Bytes), more # <<>>
    PROVE  \A s \in Chunks : \A m \in Found :
              LET p == ProcessAll[St(s.buf, s.rest, m)] IN
              ProcessAll[St(s.buf, s.rest \o more, m)] = ProcessAll[St(p.buf, more, p.msgs)]
<1> DEFINE P(s, m) == ProcessAll[St(s.buf, s.rest, m)]
           Same(s) == \A m \in Found : ProcessAll[St(s.buf, s.rest \o more, m)]
                                         = ProcessAll[St(P(s, m).buf, more, P(s, m).msgs)]
           G == {s \in Chunks : Same(s)}
<1>1. ASSUME NEW s \in Chunks, s.rest = <<>> PROVE Same(s)
  <2> SUFFICES ASSUME NEW m \in Found
               PROVE  ProcessAll[St(s.buf, s.rest \o more, m)]
                        = ProcessAll[St(P(s, m).buf, more, P(s, m).msgs)]
    OBVIOUS
  <2>1. s.buf \in Seq(Bytes)
    BY ChunkFields
  <2>2. P(s, m) = St(s.buf, <<>>, m)
    BY <1>1, <2>1, NoMore
  <2>3. P(s, m).buf = s.buf /\ P(s, m).msgs = m
    BY <2>2, StFields
  <2>4. s.rest \o more = more
    BY <1>1, ConcatEmptySeq
  <2> QED BY <2>3, <2>4
<1>2. ASSUME NEW s \in Chunks, s.rest # <<>>, Same(Step(s)) PROVE Same(s)
  <2> SUFFICES ASSUME NEW m \in Found
               PROVE  ProcessAll[St(s.buf, s.rest \o more, m)]
                        = ProcessAll[St(P(s, m).buf, more, P(s, m).msgs)]
    OBVIOUS
  <2> DEFINE b == s.buf
             r == s.rest
             w == r \o more
  <2>1. b \in Seq(Bytes) /\ r \in Seq(Bytes) /\ r # <<>> /\ s.msgs \in Found
        /\ s = St(b, r, s.msgs)
    BY <1>2, ChunkFields DEF Found
  <2>2. w \in Seq(Bytes) /\ w # <<>>
    BY <2>1, Joined
  <2>3. PICK b2, r2, g : SameRound(b, r, more, b2, r2, g)
    <3> HIDE DEF b, r
    <3> QED BY <2>1, RoundIsSame
  <2>4. P(s, m) = ProcessAll[St(b, r, m)]
    OBVIOUS
  <2>5. P(Step(s), m \o g) = ProcessAll[St(b2, r2, m \o g)]
        /\ Step(s).buf = b2 /\ Step(s).rest = r2
    <3> HIDE DEF b, r
    <3>1. Step(s) = St(b2, r2, s.msgs \o g)
      BY <2>1, <2>3 DEF SameRound
    <3>2. Step(s).buf = b2 /\ Step(s).rest = r2
      BY <3>1, StFields
    <3> QED BY <3>2
  <2> HIDE DEF b, r, w
  <2>6. b2 \in Seq(Bytes) /\ g \in Found /\ Step(St(b, r, m)) = St(b2, r2, m \o g)
    BY <2>3 DEF SameRound
  <2>7. P(s, m) = ProcessAll[St(b2, r2, m \o g)]
    BY <2>1, <2>4, <2>6, OneRound
  <2>8. ProcessAll[St(b, w, m)] = ProcessAll[Step(St(b, w, m))]
    BY <2>1, <2>2, OneRound
  <2>9. CASE \A n \in Found : Step(St(b, r \o more, n)) = St(b2, r2 \o more, n \o g)
    <3>1. Step(St(b, w, m)) = St(b2, r2 \o more, m \o g)
      BY <2>9 DEF w
    <3>2. m \o g \in Found
      BY <2>6, ConcatProperties DEF Found
    <3> DEFINE p == P(Step(s), m \o g)
    <3>3. ProcessAll[St(b2, r2 \o more, m \o g)] = ProcessAll[St(p.buf, more, p.msgs)]
      <4>1. ProcessAll[St(Step(s).buf, Step(s).rest \o more, m \o g)]
               = ProcessAll[St(p.buf, more, p.msgs)]
        BY <1>2, <3>2
      <4> HIDE DEF p
      <4> QED BY <2>5, <4>1
    <3>4. p = P(s, m)
      BY <2>5, <2>7
    <3> QED BY <2>8, <3>1, <3>3, <3>4 DEF b, r, w
  <2>10. CASE /\ r2 = <<>> /\ g = <<>>
              /\ \A n \in Found : Step(St(b, r \o more, n)) = Step(St(b2, more, n))
    <3>1. Step(St(b, w, m)) = Step(St(b2, more, m))
      BY <2>10 DEF w
    <3>2. ProcessAll[St(b2, more, m)] = ProcessAll[Step(St(b2, more, m))]
      BY <2>6, OneRound
    <3>3. m \o g = m
      BY <2>10, ConcatEmptySeq DEF Found
    <3>4. P(s, m) = St(b2, <<>>, m)
      BY <2>6, <2>7, <2>10, <3>3, NoMore
    <3>5. P(s, m).buf = b2 /\ P(s, m).msgs = m
      BY <3>4, StFields
    <3> QED BY <2>8, <3>1, <3>2, <3>5 DEF b, r, w
  <2> QED BY <2>3, <2>9, <2>10 DEF SameRound
<1> HIDE DEF Same
<1>3. Chunks \subseteq G
  <2>1. \A s \in Chunks : s.rest = <<>> => s \in G
    BY <1>1
  <2>2. \A s \in Chunks : s.rest # <<>> /\ Step(s) \in G => s \in G
    BY <1>2
  <2> HIDE DEF G
  <2> QED BY <2>1, <2>2, ChunkInduction
<1> QED BY <1>3 DEF Same

-----------------------------------------------------------------------------
(* Reading a chunk.                                                          *)

LEMMA ProcessIs ==
    ASSUME NEW b \in Seq(Bytes), Len(b) < FrameSize(MaxMsgSize), NEW x \in Seq(Bytes)
    PROVE  /\ Process(b, x).buf \in Seq(Bytes) /\ Process(b, x).msgs \in Found
           /\ Len(Process(b, x).buf) < FrameSize(MaxMsgSize)
<1> DEFINE e == <<>>
           s == St(b, x, e)
           p == ProcessAll[s]
<1>0. e \in Found
  BY DEF Found
<1> HIDE DEF e
<1>1. s \in Chunks /\ s.buf = b
  BY <1>0, StFields DEF Found
<1>2. Process(b, x) = p
  BY DEF Process, St, e
<1> HIDE DEF s
<1>3. Len(b) \in Nat /\ FrameSize(MaxMsgSize) = HeaderSize + MaxMsgSize + 1
      /\ HeaderSize + MaxMsgSize \in Nat
  BY Header, LenProperties DEF FrameSize, HeaderSize
<1>4. Fits(s)
  <2> DEFINE top == HeaderSize + MaxMsgSize
  <2>1. Len(b) < top + 1 /\ top \in Nat
    BY <1>3
  <2> HIDE DEF top
  <2>2. Len(b) <= top
    BY <1>3, <2>1
  <2> QED BY <1>1, <2>2 DEF Fits, top
<1>5. p \in Chunks /\ Fits(p)
  BY <1>1, <1>4, LoopEnds
<1> HIDE DEF p
<1>6. p.buf \in Seq(Bytes) /\ p.msgs \in Found /\ Len(p.buf) \in Nat
  BY <1>5, ChunkFields DEF Found
<1>7. Len(p.buf) < FrameSize(MaxMsgSize)
  BY <1>3, <1>5, <1>6 DEF Fits
<1> QED BY <1>2, <1>6, <1>7

(* A chunk in two parts brings what its parts bring one after the other.     *)
InParts(b, x, y) ==
    /\ Process(b, x \o y).buf = Process(Process(b, x).buf, y).buf
    /\ Process(b, x \o y).msgs = Process(b, x).msgs \o Process(Process(b, x).buf, y).msgs
    /\ Process(b, x).buf \in Seq(Bytes) /\ Process(b, x).msgs \in Found
    /\ Process(b, x \o y).msgs \in Found

LEMMA ProcessInParts ==
    ASSUME NEW b \in Seq(Bytes), NEW x \in Seq(Bytes), NEW y \in Seq(Bytes)
    PROVE  InParts(b, x, y)
<1> DEFINE e == <<>>
           p == ProcessAll[St(b, x, e)]
           c == p.buf
           m == p.msgs
           r == ProcessAll[St(c, y, e)]
           t == ProcessAll[St(b, x \o y, e)]
<1>0. e \in Found
  BY DEF Found
<1> HIDE DEF e
<1>1. Process(b, x) = p /\ Process(c, y) = r /\ Process(b, x \o y) = t
  BY DEF Process, St, e
<1>2. p \in Chunks /\ p.rest = <<>>
  <2>1. St(b, x, e) \in Chunks
    BY <1>0, StFields DEF Found
  <2> QED BY <2>1, LoopEnds
<1>3. c \in Seq(Bytes) /\ m \in Found /\ p = St(c, <<>>, m)
  <2> HIDE DEF p
  <2> QED BY <1>2, ChunkFields DEF Found
<1> HIDE DEF c, m
<1>4. r.buf \in Seq(Bytes) /\ r.msgs \in Found /\ ProcessAll[St(c, y, m)] = St(r.buf, <<>>, m \o r.msgs)
  <2> DEFINE s == St(c, y, e)
  <2>1. s \in Chunks /\ s.buf = c /\ s.rest = y
    BY <1>0, <1>3, StFields DEF Found
  <2> HIDE DEF s, r
  <2>2. PICK d \in Seq(Bytes), g \in Found :
            \A n \in Found : ProcessAll[St(c, y, n)] = St(d, <<>>, n \o g)
    BY <2>1, Earlier DEF EarlierKept
  <2>3. r = St(d, <<>>, g)
    <3>1. e \o g = g
      <4>1. g \in Seq(Seq(Bytes))
        BY <2>2 DEF Found
      <4> QED BY <4>1, ConcatEmptySeq DEF e
    <3> QED BY <1>0, <2>2, <3>1 DEF r
  <2>4. r.buf = d /\ r.msgs = g
    BY <2>3, StFields
  <2> QED BY <1>3, <2>2, <2>4
<1>5. t = ProcessAll[St(c, y, m)]
  <2>1. CASE y = <<>>
    <3>1. x \o y = x
      BY <2>1, ConcatEmptySeq
    <3>2. ProcessAll[St(c, y, m)] = St(c, <<>>, m)
      BY <1>3, <2>1, NoMore
    <3> QED BY <1>3, <3>1, <3>2
  <2>2. CASE y # <<>>
    <3> DEFINE s == St(b, x, e)
    <3>1. s \in Chunks /\ s.buf = b /\ s.rest = x
      BY <1>0, StFields DEF Found
    <3>2. ProcessAll[St(s.buf, s.rest \o y, e)]
            = ProcessAll[St(ProcessAll[St(s.buf, s.rest, e)].buf, y,
                            ProcessAll[St(s.buf, s.rest, e)].msgs)]
      <4> HIDE DEF s
      <4> QED BY <1>0, <2>2, <3>1, Later
    <3> QED BY <3>1, <3>2 DEF c, m
  <2> QED BY <2>1, <2>2
<1>6. t.buf = r.buf /\ t.msgs = m \o r.msgs
  <2> DEFINE n == m \o r.msgs
             d == r.buf
  <2>1. t = St(d, <<>>, n)
    BY <1>4, <1>5
  <2> HIDE DEF t, n, d
  <2>2. t.buf = d /\ t.msgs = n
    BY <2>1 DEF St
  <2> QED BY <2>2 DEF n, d
<1>7. m \o r.msgs \in Found
  BY <1>3, <1>4, FoundTogether
<1> HIDE DEF p, r, t
<1> QED BY <1>1, <1>3, <1>6, <1>7 DEF c, m, InParts

LEMMA ProcessTypes ==
    ASSUME NEW b \in Seq(Bytes), NEW x \in Seq(Bytes)
    PROVE  Process(b, x).buf \in Seq(Bytes) /\ Process(b, x).msgs \in Found
<1>1. InParts(b, x, x)
  BY ProcessInParts
<1> QED BY <1>1 DEF InParts

-----------------------------------------------------------------------------
(* Writing a frame.                                                          *)

(* The recursion of LengthBytes has a solution, which counts from the low    *)
(* byte.                                                                     *)
LEMMA QuotientsExist ==
    ASSUME NEW n \in Nat
    PROVE  \E f : f = [i \in 1..LenSize |-> IF i = 1 THEN n ELSE f[i - 1] \div 256]
<1> DEFINE Whole(f) == f = [i \in 1..LenSize |-> IF i = 1 THEN n ELSE f[i - 1] \div 256]
           Solved(f, k) == /\ f \in [1..LenSize -> Nat] /\ f[1] = n
                           /\ \A i \in 2..k : f[i] = f[i - 1] \div 256
           Good == {k \in Nat : k <= LenSize => \E f : Solved(f, k)}
<1>0. LenSize \in Nat /\ LenSize >= 1
  BY Header
<1>1. ASSUME NEW k \in Nat, \A m \in 0..(k - 1) : m \in Good PROVE k \in Good
  <2> SUFFICES ASSUME k <= LenSize PROVE \E f : Solved(f, k)
    OBVIOUS
  <2>1. CASE k <= 1
    <3> DEFINE f == [i \in 1..LenSize |-> n]
    <3>1. f \in [1..LenSize -> Nat] /\ f[1] = n
      BY <1>0
    <3>2. 2..k = {}
      BY <2>1
    <3> HIDE DEF f
    <3>3. Solved(f, k)
      BY <3>1, <3>2
    <3> QED BY <3>3
  <2>2. CASE k > 1
    <3>1. k - 1 \in 0..(k - 1) /\ k - 1 <= LenSize /\ k \in 1..LenSize /\ k - 1 \in 1..LenSize
          /\ k # 1 /\ k - 1 # k
      BY <1>0, <2>2
    <3>2. \E f : Solved(f, k - 1)
      <4>1. k - 1 \in Good
        <5> HIDE DEF Good
        <5> QED BY <1>1, <3>1
      <4> QED BY <3>1, <4>1
    <3>3. PICK f : Solved(f, k - 1)
      BY <3>2
    <3> DEFINE x == f[k - 1] \div 256
               g == [f EXCEPT ![k] = x]
    <3>4. x \in Nat
      <4> DEFINE y == f[k - 1]
      <4>1. y \in Nat /\ x = y \div 256
        BY <3>1, <3>3
      <4> HIDE DEF x, y
      <4>2. y \div 256 \in Nat
        BY <4>1
      <4> QED BY <4>1, <4>2
    <3> HIDE DEF x
    <3>5. /\ g \in [1..LenSize -> Nat] /\ g[k] = x
          /\ \A i \in 1..LenSize : i # k => g[i] = f[i]
      BY <3>1, <3>3, <3>4
    <3> HIDE DEF g
    <3>6. g[1] = n
      BY <1>0, <3>1, <3>3, <3>5
    <3>7. ASSUME NEW i \in 2..k PROVE g[i] = g[i - 1] \div 256
      <4>1. i - 1 \in 1..LenSize /\ i - 1 # k /\ i \in 1..LenSize
        BY <1>0, <3>1
      <4>2. g[i - 1] = f[i - 1]
        BY <3>5, <4>1
      <4>3. CASE i = k
        BY <3>5, <4>2, <4>3 DEF x
      <4>4. CASE i # k
        <5>1. i \in 2..(k - 1)
          BY <4>4
        <5> QED BY <3>3, <3>5, <4>1, <4>2, <4>4, <5>1
      <4> QED BY <4>3, <4>4
    <3>8. Solved(g, k)
      BY <3>5, <3>6, <3>7
    <3> QED BY <3>8
  <2> QED BY <2>1, <2>2
<1>2. \E f : Solved(f, LenSize)
  <2>1. Nat \subseteq Good
    <3> HIDE DEF Good
    <3> QED BY <1>1, StrongInduction
  <2> HIDE DEF Solved
  <2> QED BY <1>0, <2>1
<1>3. PICK f : Solved(f, LenSize)
  BY <1>2
<1>4. \A i \in 1..LenSize : f[i] = IF i = 1 THEN n ELSE f[i - 1] \div 256
  <2>1. \A i \in 1..LenSize : i = 1 \/ i \in 2..LenSize
    BY <1>0
  <2> QED BY <1>3, <2>1
<1>5. Whole(f)
  <2> DEFINE R == [i \in 1..LenSize |-> IF i = 1 THEN n ELSE f[i - 1] \div 256]
  <2>1. \A i \in 1..LenSize : f[i] = R[i]
    BY <1>4
  <2>2. f = [i \in 1..LenSize |-> f[i]] /\ R = [i \in 1..LenSize |-> R[i]]
    BY <1>3
  <2> HIDE DEF R
  <2>3. f = R
    BY <2>1, <2>2
  <2> QED BY <2>3 DEF R
<1> HIDE DEF Whole
<1>6. \E g : Whole(g)
  BY <1>5
<1> QED BY <1>6 DEF Whole

LEMMA QuotientsAre ==
    ASSUME NEW n \in Nat
    PROVE  /\ Quotients(n)[1] = n
           /\ \A i \in 1..LenSize : Quotients(n)[i] \in Nat
           /\ \A i \in 2..LenSize : Quotients(n)[i] = Quotients(n)[i - 1] \div 256
<1> DEFINE Whole(f) == f = [i \in 1..LenSize |-> IF i = 1 THEN n ELSE f[i - 1] \div 256]
           L == CHOOSE f : Whole(f)
<1>0. LenSize \in Nat /\ LenSize >= 1
  BY Header
<1>1. Quotients(n) = L
  BY DEF Quotients
<1>2. Whole(L)
  <2>1. \E f : Whole(f)
    BY QuotientsExist
  <2> HIDE DEF Whole
  <2> QED BY <2>1
<1> HIDE DEF L
<1>3. \A i \in 1..LenSize : L[i] = IF i = 1 THEN n ELSE L[i - 1] \div 256
  BY <1>2
<1> HIDE DEF Whole
<1>4. ASSUME NEW i \in 1..LenSize PROVE L[i] \in Nat
  <2> DEFINE G == {k \in Nat : k \in 1..LenSize => L[k] \in Nat}
  <2>1. ASSUME NEW k \in Nat, \A m \in 0..(k - 1) : m \in G PROVE k \in G
    <3> SUFFICES ASSUME k \in 1..LenSize PROVE L[k] \in Nat
      OBVIOUS
    <3>1. CASE k = 1
      BY <1>3, <3>1
    <3>2. CASE k # 1
      <4>1. k - 1 \in 0..(k - 1) /\ k - 1 \in 1..LenSize
        BY <1>0, <3>2
      <4>2. k - 1 \in G
        <5> HIDE DEF G
        <5> QED BY <2>1, <4>1
      <4> DEFINE y == L[k - 1]
      <4>3. y \in Nat /\ L[k] = y \div 256
        BY <1>3, <3>2, <4>1, <4>2
      <4> HIDE DEF y
      <4>4. y \div 256 \in Nat
        BY <4>3
      <4> QED BY <4>3, <4>4
    <3> QED BY <3>1, <3>2
  <2>2. Nat \subseteq G
    <3> HIDE DEF G
    <3> QED BY <2>1, StrongInduction
  <2> QED BY <1>0, <2>2
<1>5. L[1] = n /\ \A i \in 2..LenSize : L[i] = L[i - 1] \div 256
  <2>1. 1 \in 1..LenSize /\ \A i \in 2..LenSize : i \in 1..LenSize /\ i # 1
    BY <1>0
  <2> QED BY <1>3, <2>1
<1> QED BY <1>1, <1>4, <1>5

LEMMA LengthBytesIs ==
    ASSUME NEW n \in Nat
    PROVE  LengthBytes(n) \in Seq(Bytes) /\ Len(LengthBytes(n)) = LenSize
           /\ \A i \in 1..LenSize : LengthBytes(n)[i] = Quotients(n)[i] % 256
<1> DEFINE L == Quotients(n)
           b == [i \in 1..LenSize |-> L[i] % 256]
<1>0. LenSize \in Nat /\ LenSize >= 1
  BY Header
<1>1. LengthBytes(n) = b
  BY DEF LengthBytes
<1>4. ASSUME NEW i \in 1..LenSize PROVE L[i] \in Nat
  BY QuotientsAre
<1> HIDE DEF L
<1>5. ASSUME NEW i \in 1..LenSize PROVE L[i] % 256 \in Bytes
  <2> DEFINE y == L[i]
  <2>1. y \in Nat
    BY <1>4
  <2> HIDE DEF y
  <2>2. y % 256 \in 0..255
    BY <2>1
  <2> QED BY <2>2 DEF Bytes, y
<1>6. b \in [1..LenSize -> Bytes]
  BY <1>5
<1>8. \A i \in 1..LenSize : b[i] = L[i] % 256
  OBVIOUS
<1> HIDE DEF b
<1>7. b \in Seq(Bytes) /\ Len(b) = LenSize
  BY <1>0, <1>6, IsASeq, LenProperties
<1> QED BY <1>1, <1>7, <1>8 DEF L

LEMMA FrameIs ==
    ASSUME NEW m \in Seq(Bytes)
    PROVE  Frame(m) \in Seq(Bytes) /\ Len(Frame(m)) = FrameSize(Len(m)) /\ Len(m) \in Nat
<1> DEFINE a == <<START>>
           l == LengthBytes(Len(m))
           z == <<END>>
           al == a \o l
           alm == al \o m
           f == alm \o z
<1>1. Len(m) \in Nat
  BY LenProperties
<1>2. a \in Seq(Bytes) /\ Len(a) = 1 /\ z \in Seq(Bytes) /\ Len(z) = 1
  BY DEF START, END, Bytes
<1>3. l \in Seq(Bytes) /\ Len(l) = LenSize
  BY <1>1, LengthBytesIs
<1> HIDE DEF a, l, z
<1>4. al \in Seq(Bytes) /\ Len(al) = 1 + LenSize
  BY <1>2, <1>3, BytesJoined
<1> HIDE DEF al
<1>5. alm \in Seq(Bytes) /\ Len(alm) = 1 + LenSize + Len(m)
  BY <1>4, BytesJoined
<1> HIDE DEF alm
<1>6. f \in Seq(Bytes) /\ Len(f) = 1 + LenSize + Len(m) + 1
  <2>1. alm \o z \in Seq(Bytes) /\ Len(alm \o z) = Len(alm) + Len(z)
    BY <1>2, <1>5, BytesJoined
  <2> QED BY <1>2, <1>5, <2>1
<1>7. Frame(m) = ((a \o l) \o m) \o z
  BY DEF Frame, a, l, z
<1>8. Frame(m) = f
  BY <1>7 DEF alm, al
<1> QED BY <1>1, <1>6, <1>8 DEF FrameSize

(* A chunk is taken from what is in the pipe.                                *)
LEMMA ChunkInWire ==
    ASSUME NEW w \in Seq(Bytes), NEW n \in 1..Min({ChunkSize, Len(w)})
    PROVE  n \in 0..Len(w)
<1>1. ChunkSize \in Nat /\ Len(w) \in Nat
  BY Sizes, LenProperties
<1>2. Min({ChunkSize, Len(w)}) = IF ChunkSize <= Len(w) THEN ChunkSize ELSE Len(w)
  BY <1>1, MinOfTwo
<1> QED BY <1>1, <1>2

LEMMA EnqueueIs ==
    ASSUME NEW ms \in Found, q \in Found, depth \in Nat \ {0}
    PROVE  Enqueue(ms) \in Found /\ Len(Enqueue(ms)) <= depth
<1> DEFINE all == q \o ms
           n == Min({depth, Len(all)})
<1>1. all \in Found /\ Len(all) \in Nat
  BY ConcatProperties, LenProperties DEF Found
<1> HIDE DEF all
<1>2. n = IF depth <= Len(all) THEN depth ELSE Len(all)
  BY <1>1, MinOfTwo
<1>3. Enqueue(ms) = IF write_over THEN Skip(all, Len(all) - n) ELSE SubSeq(all, 1, n)
  BY DEF Enqueue, all
<1> HIDE DEF n
<1>4. n \in 0..Len(all) /\ n <= depth /\ Len(all) - n \in 0..Len(all)
      /\ Len(all) - (Len(all) - n) = n
  BY <1>1, <1>2
<1>5. SubSeq(all, 1, n) \in Found /\ Len(SubSeq(all, 1, n)) = n
  BY <1>1, <1>4, SkipPart DEF Found
<1>6. Skip(all, Len(all) - n) \in Found /\ Len(Skip(all, Len(all) - n)) = n
  <2> DEFINE k == Len(all) - n
  <2>1. k \in 0..Len(all) /\ Len(all) - k = n
    BY <1>4
  <2> HIDE DEF k
  <2>2. Skip(all, k) \in Found /\ Len(Skip(all, k)) = n
    BY <1>1, <2>1, SkipPart DEF Found
  <2> QED BY <2>2 DEF k
<1> QED BY <1>3, <1>4, <1>5, <1>6

-----------------------------------------------------------------------------
(* The types of the fields; the frame that is being read stays within        *)
(* msg_buf, whatever bytes arrive and wherever the chunks end, and q within  *)
(* its depth, with and without write_over (channel_fd.c:171-290).            *)
THEOREM TypeCorrect == Spec => []TypeOK
<1>1. Init => TypeOK
  <2> SUFFICES ASSUME Init PROVE TypeOK
    OBVIOUS
  <2>1. /\ depth \in Nat \ {0} /\ 0 \in 0..MaxWrites
        /\ <<>> \in Seq(Bytes) /\ <<>> \in Seq(Seq(Bytes)) /\ Len(<<>>) = 0
    BY Sizes DEF Init
  <2>2. 0 < FrameSize(MaxMsgSize) /\ 0 <= depth
    BY <2>1, Header DEF FrameSize
  <2> QED BY <2>1, <2>2 DEF Init, TypeOK, Results
<1>2. TypeOK /\ [Next]_vars => TypeOK'
  <2> SUFFICES ASSUME TypeOK, [Next]_vars PROVE TypeOK'
    OBVIOUS
  <2>0. depth \in Nat \ {0} /\ MaxWrites \in Nat
    BY Sizes DEF TypeOK
  <2>a. ASSUME writes < MaxWrites, writes' = writes + 1 PROVE writes' \in 0..MaxWrites
    BY <2>0, <2>a DEF TypeOK
  <2>b. ASSUME NEW x \in Seq(Bytes) PROVE wire \o x \in Seq(Bytes)
    BY ConcatProperties DEF TypeOK
  <2>1. ASSUME NEW m \in Msgs, Send(m) PROVE TypeOK'
    <3>1. Frame(m) \in Seq(Bytes)
      BY FrameIs, Sizes
    <3>2. wire' \in Seq(Bytes) /\ writes' \in 0..MaxWrites
      BY <2>1, <2>a, <2>b, <3>1 DEF Send
    <3> QED BY <2>1, <3>2 DEF Send, TypeOK, reader
  <2>2. ASSUME NEW m \in Msgs, SendCut(m) PROVE TypeOK'
    <3>1. Frame(m) \in Seq(Bytes) /\ Len(Frame(m)) = FrameSize(Len(m)) /\ Len(m) \in Nat
      BY FrameIs, Sizes
    <3>2. PICK n \in 0..(FrameSize(Len(m)) - 1) : wire' = wire \o SubSeq(Frame(m), 1, n)
      BY <2>2 DEF SendCut
    <3>3. n \in 0..Len(Frame(m))
      <4>1. FrameSize(Len(m)) \in Nat
        BY <3>1, LenProperties
      <4> QED BY <3>1, <4>1
    <3>4. SubSeq(Frame(m), 1, n) \in Seq(Bytes)
      BY <3>1, <3>3, SkipPart
    <3>5. wire' \in Seq(Bytes) /\ writes' \in 0..MaxWrites
      BY <2>2, <2>a, <2>b, <3>2, <3>4 DEF SendCut
    <3> QED BY <2>2, <3>5 DEF SendCut, TypeOK, reader
  <2>3. ASSUME NEW bytes \in Junk, WriteJunk(bytes) PROVE TypeOK'
    <3>1. wire' \in Seq(Bytes) /\ writes' \in 0..MaxWrites
      BY <2>3, <2>a, <2>b, Sizes DEF WriteJunk
    <3> QED BY <2>3, <3>1 DEF WriteJunk, TypeOK, reader
  <2>4. CASE Hangup
    BY <2>4 DEF Hangup, TypeOK, reader
  <2>5. CASE ReadChunk
    <3>1. PICK n \in 1..Min({ChunkSize, Len(wire)}) :
             LET chunk == SubSeq(wire, 1, n)
                 p == Process(msg_buf, chunk) IN
             /\ wire' = Skip(wire, n) /\ consumed' = consumed \o chunk
             /\ msg_buf' = p.buf /\ found' = found \o p.msgs /\ q' = Enqueue(p.msgs)
      BY <2>5 DEF ReadChunk
    <3>2. n \in 0..Len(wire)
      BY ChunkInWire DEF TypeOK
    <3> DEFINE chunk == SubSeq(wire, 1, n)
               p == Process(msg_buf, chunk)
    <3>3. wire' = Skip(wire, n) /\ consumed' = consumed \o chunk
          /\ msg_buf' = p.buf /\ found' = found \o p.msgs /\ q' = Enqueue(p.msgs)
      BY <3>1
    <3>4. chunk \in Seq(Bytes) /\ Skip(wire, n) \in Seq(Bytes)
      BY <3>2, SkipPart DEF TypeOK
    <3> HIDE DEF chunk
    <3>5. p.buf \in Seq(Bytes) /\ p.msgs \in Found /\ Len(p.buf) < FrameSize(MaxMsgSize)
      BY <3>4, ProcessIs DEF TypeOK
    <3> HIDE DEF p
    <3>6. consumed' \in Seq(Bytes)
      BY <3>3, <3>4, ConcatProperties DEF TypeOK
    <3>7. found' \in Seq(Seq(Bytes))
      BY <3>3, <3>5, ConcatProperties DEF TypeOK, Found
    <3>8. q' \in Seq(Seq(Bytes)) /\ Len(q') <= depth
      <4>1. Enqueue(p.msgs) \in Found /\ Len(Enqueue(p.msgs)) <= depth
        BY <2>0, <3>5, EnqueueIs DEF TypeOK, Found
      <4> QED BY <3>3, <4>1 DEF Found
    <3>9. UNCHANGED <<depth, write_over, write_open, read_open, eof, result, received, writes>>
          /\ refreshing' = TRUE
      BY <2>5 DEF ReadChunk
    <3> QED BY <3>3, <3>4, <3>5, <3>6, <3>7, <3>8, <3>9 DEF TypeOK
  <2>6. CASE ReadWouldBlock
    BY <2>6 DEF ReadWouldBlock, TypeOK
  <2>7. ASSUME NEW failed \in BOOLEAN, ReadEnd(failed) PROVE TypeOK'
    BY <2>7 DEF ReadEnd, TypeOK
  <2>8. ASSUME NEW len \in BufLens, Receive(len) PROVE TypeOK'
    <3>1. UNCHANGED <<depth, write_over, write_open, read_open, wire, eof, msg_buf,
                      refreshing, consumed, found, writes>>
      BY <2>8 DEF Receive
    <3>2. result' \in Results
      BY <2>8 DEF Receive, Results
    <3>3. /\ q' \in Seq(Seq(Bytes)) /\ Len(q') <= depth
          /\ received' \in Seq(Seq(Bytes))
      <4>1. CASE UNCHANGED <<q, received>>
        BY <4>1 DEF TypeOK
      <4>2. CASE q # <<>> /\ received' = Append(received, Head(q)) /\ q' = Tail(q)
        <5>1. q \in Seq(Seq(Bytes)) /\ Len(q) <= depth /\ Len(q) \in Nat
          BY LenProperties DEF TypeOK
        <5>2. Head(q) \in Seq(Bytes) /\ Tail(q) \in Seq(Seq(Bytes)) /\ Len(Tail(q)) = Len(q) - 1
          BY <4>2, <5>1, HeadTailProperties
        <5>3. Append(received, Head(q)) \in Seq(Seq(Bytes))
          BY <5>2, AppendProperties DEF TypeOK
        <5>4. Len(Tail(q)) <= depth
          BY <2>0, <5>1, <5>2
        <5> QED BY <4>2, <5>2, <5>3, <5>4
      <4>3. UNCHANGED depth
        BY <3>1
      <4> QED BY <2>8, <4>1, <4>2 DEF Receive
    <3> QED BY <3>1, <3>2, <3>3 DEF TypeOK
  <2>9. CASE UNCHANGED vars
    BY <2>9 DEF vars, TypeOK
  <2> QED BY <2>1, <2>2, <2>3, <2>4, <2>5, <2>6, <2>7, <2>8, <2>9 DEF Next
<1> QED BY <1>1, <1>2, PTL DEF Spec

LEMMA ProcessNothing ==
    Process(<<>>, <<>>).buf = <<>> /\ Process(<<>>, <<>>).msgs = <<>>
<1> DEFINE e == <<>>
<1>1. e \in Seq(Bytes)
  OBVIOUS
<1>2. e \in Found
  BY DEF Found
<1>3. Process(<<>>, <<>>) = ProcessAll[St(e, <<>>, e)]
  BY DEF Process, St
<1> HIDE DEF e
<1>4. ProcessAll[St(e, <<>>, e)] = St(e, <<>>, e)
  BY <1>1, <1>2, NoMore
<1>5. St(e, <<>>, e).buf = e /\ St(e, <<>>, e).msgs = e
  BY DEF St
<1> QED BY <1>3, <1>4, <1>5 DEF e

(* Where the reads of the descriptor cut the stream of bytes makes no        *)
(* difference: the messages found and the frame begun are always those that  *)
(* one pass over all the bytes read so far would give                        *)
(* (channel_fd.c:171-290, 306-312).                                          *)
THEOREM ChunksInvisible == Spec => []ChunkingInvisible
<1>1. Init => ChunkingInvisible
  BY ProcessNothing DEF Init, ChunkingInvisible
<1>2. TypeOK /\ ChunkingInvisible /\ [Next]_vars => ChunkingInvisible'
  <2> SUFFICES ASSUME TypeOK, ChunkingInvisible, [Next]_vars PROVE ChunkingInvisible'
    OBVIOUS
  <2>1. CASE UNCHANGED <<consumed, msg_buf, found>>
    BY <2>1 DEF ChunkingInvisible
  <2>2. CASE ReadChunk
    <3>1. PICK n \in 1..Min({ChunkSize, Len(wire)}) :
             LET chunk == SubSeq(wire, 1, n)
                 p == Process(msg_buf, chunk) IN
             /\ consumed' = consumed \o chunk
             /\ msg_buf' = p.buf /\ found' = found \o p.msgs
      BY <2>2 DEF ReadChunk
    <3>2. n \in 0..Len(wire) /\ wire \in Seq(Bytes) /\ consumed \in Seq(Bytes)
      BY ChunkInWire DEF TypeOK
    <3> DEFINE chunk == SubSeq(wire, 1, n)
               p == Process(msg_buf, chunk)
               e == <<>>
    <3>3. consumed' = consumed \o chunk /\ msg_buf' = p.buf /\ found' = found \o p.msgs
      BY <3>1
    <3>4. chunk \in Seq(Bytes)
      BY <3>2, SkipPart
    <3>5. e \in Seq(Bytes)
      OBVIOUS
    <3>6. msg_buf = Process(e, consumed).buf /\ found = Process(e, consumed).msgs
      BY DEF ChunkingInvisible
    <3> HIDE DEF chunk, e
    <3>7. /\ Process(e, consumed \o chunk).buf = p.buf
          /\ Process(e, consumed \o chunk).msgs = found \o p.msgs
      <4>1. InParts(e, consumed, chunk)
        BY <3>2, <3>4, <3>5, ProcessInParts
      <4> QED BY <3>6, <4>1 DEF InParts
    <3>8. (Process(e, consumed))' = Process(e, consumed')
      BY DEF Process, e
    <3> HIDE DEF p
    <3> QED BY <3>3, <3>7, <3>8 DEF ChunkingInvisible, e
  <2>3. ASSUME NEW m \in Msgs, Send(m) \/ SendCut(m) PROVE ChunkingInvisible'
    BY <2>1, <2>3 DEF Send, SendCut, reader
  <2>4. ASSUME NEW bytes \in Junk, WriteJunk(bytes) PROVE ChunkingInvisible'
    BY <2>1, <2>4 DEF WriteJunk, reader
  <2>5. CASE Hangup
    BY <2>1, <2>5 DEF Hangup, reader
  <2>6. CASE ReadWouldBlock
    BY <2>1, <2>6 DEF ReadWouldBlock
  <2>7. ASSUME NEW failed \in BOOLEAN, ReadEnd(failed) PROVE ChunkingInvisible'
    BY <2>1, <2>7 DEF ReadEnd
  <2>8. ASSUME NEW len \in BufLens, Receive(len) PROVE ChunkingInvisible'
    BY <2>1, <2>8 DEF Receive
  <2>9. CASE UNCHANGED vars
    BY <2>1, <2>9 DEF vars
  <2> QED BY <2>2, <2>3, <2>4, <2>5, <2>6, <2>7, <2>8, <2>9 DEF Next
<1> QED BY <1>1, <1>2, TypeCorrect, PTL DEF Spec

(* After CHN_CANNOT_READ the descriptor is closed and nothing is queued, and *)
(* nothing can be queued any more.                                           *)
NothingLeft == result = "CHN_CANNOT_READ" => ~read_open /\ q = <<>>

(* CHN_CANNOT_READ is returned when no message is left to receive, and every *)
(* later receive returns it again (channel_fd.c:314-333, 364-366).           *)
THEOREM CannotReadFinal == Spec => CannotReadIsFinal
<1>1. Init => NothingLeft
  BY DEF Init, NothingLeft
<1>2. NothingLeft /\ [Next]_vars =>
         /\ NothingLeft'
         /\ [/\ result' = "CHN_CANNOT_READ" => q' = <<>>
             /\ result = "CHN_CANNOT_READ" => result' = "CHN_CANNOT_READ"]_vars
  <2> DEFINE Final == /\ result' = "CHN_CANNOT_READ" => q' = <<>>
                      /\ result = "CHN_CANNOT_READ" => result' = "CHN_CANNOT_READ"
  <2> SUFFICES ASSUME NothingLeft, [Next]_vars PROVE NothingLeft' /\ Final
    OBVIOUS
  <2>1. CASE UNCHANGED <<result, q>> /\ (read_open' => read_open)
    BY <2>1 DEF NothingLeft
  <2>2. CASE ReadChunk
    <3>1. read_open /\ read_open' = read_open /\ result' = result
      BY <2>2 DEF ReadChunk
    <3> QED BY <3>1 DEF NothingLeft
  <2>3. ASSUME NEW m \in Msgs, Send(m) \/ SendCut(m) PROVE NothingLeft' /\ Final
    BY <2>1, <2>3 DEF Send, SendCut, reader
  <2>4. ASSUME NEW bytes \in Junk, WriteJunk(bytes) PROVE NothingLeft' /\ Final
    BY <2>1, <2>4 DEF WriteJunk, reader
  <2>5. CASE Hangup
    BY <2>1, <2>5 DEF Hangup, reader
  <2>6. CASE ReadWouldBlock
    BY <2>1, <2>6 DEF ReadWouldBlock
  <2>7. ASSUME NEW failed \in BOOLEAN, ReadEnd(failed) PROVE NothingLeft' /\ Final
    BY <2>1, <2>7 DEF ReadEnd
  <2>8. ASSUME NEW len \in BufLens, Receive(len) PROVE NothingLeft' /\ Final
    BY <2>8 DEF Receive, NothingLeft
  <2>9. CASE UNCHANGED vars
    BY <2>1, <2>9 DEF vars
  <2> QED BY <2>2, <2>3, <2>4, <2>5, <2>6, <2>7, <2>8, <2>9 DEF Next
<1> QED BY <1>1, <1>2, PTL DEF Spec, CannotReadIsFinal

-----------------------------------------------------------------------------
(* A frame is read as it was written.                                        *)

(* A shorter message leaves no more beyond the last byte of its length.      *)
LEMMA LastQuotient ==
    ASSUME LengthFits, NEW n \in 0..MaxMsgSize
    PROVE  Quotients(n)[LenSize] < 256
<1> DEFINE L == Quotients(n)
           M == Quotients(MaxMsgSize)
           G == {k \in Nat : k \in 1..LenSize => L[k] <= M[k]}
<1>0. LenSize \in Nat /\ LenSize >= 1 /\ n \in Nat /\ MaxMsgSize \in Nat /\ n <= MaxMsgSize
  BY Header
<1>1. /\ L[1] = n /\ M[1] = MaxMsgSize
      /\ \A i \in 1..LenSize : L[i] \in Nat /\ M[i] \in Nat
      /\ \A i \in 2..LenSize : L[i] = L[i - 1] \div 256 /\ M[i] = M[i - 1] \div 256
  BY <1>0, QuotientsAre
<1> HIDE DEF L, M
<1>2. ASSUME NEW k \in Nat, \A m \in 0..(k - 1) : m \in G PROVE k \in G
  <2> SUFFICES ASSUME k \in 1..LenSize PROVE L[k] <= M[k]
    OBVIOUS
  <2>1. CASE k = 1
    BY <1>0, <1>1, <2>1
  <2>2. CASE k # 1
    <3>1. k - 1 \in 0..(k - 1) /\ k - 1 \in 1..LenSize /\ k \in 2..LenSize
      BY <1>0, <2>2
    <3>2. k - 1 \in G
      <4> HIDE DEF G
      <4> QED BY <1>2, <3>1
    <3> DEFINE x == L[k - 1]
               y == M[k - 1]
    <3>3. x \in Nat /\ y \in Nat /\ x <= y /\ L[k] = x \div 256 /\ M[k] = y \div 256
      BY <1>1, <3>1, <3>2
    <3> HIDE DEF x, y
    <3>4. x \div 256 <= y \div 256
      BY <3>3
    <3> QED BY <3>3, <3>4
  <2> QED BY <2>1, <2>2
<1>3. LenSize \in G
  <2> HIDE DEF G
  <2>1. Nat \subseteq G
    BY <1>2, StrongInduction
  <2> QED BY <1>0, <2>1
<1>4. M[LenSize] < 256
  BY DEF LengthFits, M
<1>5. L[LenSize] <= M[LenSize] /\ L[LenSize] \in Nat /\ M[LenSize] \in Nat
  BY <1>0, <1>1, <1>3
<1>6. L[LenSize] < 256
  BY <1>4, <1>5
<1> QED BY <1>6 DEF L

LEMMA RoundTrip ==
    ASSUME LengthFits, NEW n \in 0..MaxMsgSize
    PROVE  Number(LengthBytes(n)) = n
<1> DEFINE L == Quotients(n)
           b == LengthBytes(n)
           N == LenSize
<1>0. N \in Nat /\ N >= 1 /\ n \in Nat
  BY Header
<1>1. /\ L[1] = n
      /\ \A i \in 1..N : L[i] \in Nat
      /\ \A i \in 2..N : L[i] = L[i - 1] \div 256
  BY <1>0, QuotientsAre
<1>2. b \in Seq(Bytes) /\ Len(b) = N /\ \A i \in 1..N : b[i] = L[i] % 256
  BY <1>0, LengthBytesIs
<1>3. L[N] < 256
  BY LastQuotient
<1> HIDE DEF L, b
<1>4. PICK F : /\ Number(b) = F[1] /\ F[Len(b) + 1] = 0
               /\ \A i \in 1..Len(b) : b[i] \in Nat /\ F[i] = b[i] + 256 * F[i + 1]
  BY <1>2, NumberIs
<1>5. F[N + 1] = 0 /\ \A i \in 1..N : F[i] = (L[i] % 256) + 256 * F[i + 1]
  BY <1>2, <1>4
<1> HIDE DEF N
<1> DEFINE G == {m \in Nat : m < N => F[N - m] = L[N - m]}
<1>6. ASSUME NEW m \in Nat, \A k \in 0..(m - 1) : k \in G PROVE m \in G
  <2> SUFFICES ASSUME m < N PROVE F[N - m] = L[N - m]
    OBVIOUS
  <2>1. CASE m = 0
    <3>1. N \in 1..N /\ N - m = N
      BY <1>0, <2>1
    <3> DEFINE x == L[N]
    <3>2. F[N] = (x % 256) + 256 * F[N + 1] /\ x \in Nat /\ x < 256
      BY <1>1, <1>3, <1>5, <3>1
    <3> HIDE DEF x
    <3>3. F[N] = x % 256
      <4>1. x % 256 \in Nat /\ 256 * 0 = 0
        BY <3>2
      <4> QED BY <1>5, <3>2, <4>1
    <3>4. x % 256 = x
      BY <3>2
    <3> QED BY <3>1, <3>3, <3>4 DEF x
  <2>2. CASE m # 0
    <3> DEFINE k == N - m
    <3>1. k \in 1..N /\ k + 1 \in 2..N /\ N - (m - 1) = k + 1 /\ (k + 1) - 1 = k
          /\ m - 1 \in 0..(m - 1) /\ m - 1 < N
      BY <1>0, <2>2
    <3>2. m - 1 \in G
      <4> HIDE DEF G
      <4> QED BY <1>6, <3>1
    <3>3. F[k + 1] = L[k + 1]
      BY <3>1, <3>2
    <3> HIDE DEF k
    <3> DEFINE x == L[k]
    <3>4. F[k] = (x % 256) + 256 * F[k + 1] /\ x \in Nat
      BY <1>1, <1>5, <3>1
    <3>5. L[k + 1] = x \div 256
      BY <1>1, <3>1
    <3> HIDE DEF x
    <3>6. (x % 256) + 256 * (x \div 256) = x
      BY <3>4
    <3>7. F[k] = x
      BY <3>3, <3>4, <3>5, <3>6
    <3> QED BY <3>7 DEF k, x
  <2> QED BY <2>1, <2>2
<1>7. N - 1 \in G
  <2> HIDE DEF G
  <2>1. Nat \subseteq G
    BY <1>6, StrongInduction
  <2>2. N - 1 \in Nat
    BY <1>0
  <2> QED BY <2>1, <2>2
<1>8. N - (N - 1) = 1 /\ N - 1 < N
  BY <1>0
<1>9. F[1] = L[1]
  BY <1>7, <1>8
<1> QED BY <1>1, <1>4, <1>9 DEF b

LEMMA Beyond ==
    ASSUME NEW s \in Seq(Bytes), NEW t \in Seq(Bytes)
    PROVE  Skip(s \o t, Len(s)) = t
<1>1. Len(s) \in Nat /\ Len(t) \in Nat /\ 0 \in 0..Len(t) /\ Len(s) + 0 = Len(s)
  BY LenProperties
<1>2. Skip(s \o t, Len(s) + 0) = Skip(t, 0)
  BY <1>1, PartOfSecond
<1> QED BY <1>1, <1>2, SkipAll

(* The frame without its last byte.                                          *)
Body(m) == (<<START>> \o LengthBytes(Len(m))) \o m

LEMMA BodyIs ==
    ASSUME LengthFits, NEW m \in Seq(Bytes), Len(m) \in 1..MaxMsgSize
    PROVE  /\ Body(m) \in Seq(Bytes) /\ Len(Body(m)) = HeaderSize + Len(m)
           /\ MsgLength(Body(m)) = Len(m) /\ Skip(Body(m), HeaderSize) = m
           /\ Frame(m) = Body(m) \o <<END>>
           /\ Process(<<>>, Body(m)).buf = Body(m) /\ Process(<<>>, Body(m)).msgs = <<>>
<1> DEFINE a == <<START>>
           l == LengthBytes(Len(m))
           h == a \o l
           lm == l \o m
           e == <<>>
           b == h \o m
<1>0. /\ Len(m) \in Nat /\ Len(m) >= 1 /\ Len(m) <= MaxMsgSize /\ MaxMsgSize \in Nat
      /\ HeaderSize = 1 + LenSize /\ LenSize \in Nat /\ LenSize >= 1 /\ HeaderSize \in Nat
      /\ Len(m) \in 0..MaxMsgSize
  BY Header
<1>1. a \in Seq(Bytes) /\ Len(a) = 1 /\ a[1] = START /\ a # <<>>
  BY DEF START, Bytes
<1>2. l \in Seq(Bytes) /\ Len(l) = LenSize /\ Number(l) = Len(m)
  BY <1>0, LengthBytesIs, RoundTrip
<1>3. Body(m) = b /\ Frame(m) = b \o <<END>>
  BY DEF Body, Frame
<1>4. e \in Seq(Bytes)
  OBVIOUS
<1>5. e \in Found
  BY DEF Found
<1>6. Process(<<>>, b) = ProcessAll[St(<<>>, b, e)]
  BY DEF Process, St
<1> HIDE DEF a, l, e
<1>7. h \in Seq(Bytes) /\ Len(h) = HeaderSize /\ lm \in Seq(Bytes) /\ b = a \o lm
  <2>1. h \in Seq(Bytes) /\ Len(h) = Len(a) + Len(l)
    BY <1>1, <1>2, BytesJoined
  <2>2. lm \in Seq(Bytes)
    BY <1>2, BytesJoined
  <2>3. a \o (l \o m) = (a \o l) \o m
    BY <1>1, <1>2, BytesTogether
  <2> QED BY <1>0, <1>1, <1>2, <2>1, <2>2, <2>3
<1>8. Skip(h, 1) = l /\ Skip(b, 1) = lm
  <2>1. Skip(a \o l, Len(a)) = l
    BY <1>1, <1>2, Beyond
  <2> HIDE DEF lm
  <2>2. Skip(a \o lm, Len(a)) = lm
    BY <1>1, <1>7, Beyond
  <2> QED BY <1>1, <1>7, <2>1, <2>2
<1>9. b \in Seq(Bytes) /\ Len(b) = HeaderSize + Len(m) /\ Skip(b, HeaderSize) = m
  <2> HIDE DEF h
  <2>1. h \o m \in Seq(Bytes) /\ Len(h \o m) = Len(h) + Len(m) /\ Skip(h \o m, Len(h)) = m
    BY <1>7, BytesJoined, Beyond
  <2> QED BY <1>7, <2>1
<1>10. MsgLength(h) = Len(m) /\ MsgLength(b) = Len(m)
  <2>1. SubSeq(h, 2, 1 + LenSize) = l
    BY <1>0, <1>7, <1>8 DEF Skip
  <2>2. MsgLength(h) = Len(m)
    BY <1>2, <2>1 DEF MsgLength
  <2> HIDE DEF h
  <2>3. Len(h) >= HeaderSize
    BY <1>0, <1>7
  <2>4. MsgLength(h \o m) = MsgLength(h)
    BY <1>7, <2>3, LengthKnown
  <2> QED BY <2>2, <2>4
<1>11. ~TooLong(h) /\ ~TooLong(b)
  BY <1>0, <1>10 DEF TooLong
<1> HIDE DEF h, lm, b
<1>12. Step(St(<<>>, b, e)) = St(a, lm, e)
  <2> DEFINE s == St(e, b, e)
  <2>1. s \in Chunks /\ s.buf = e /\ s.rest = b /\ s.msgs = e
    BY <1>4, <1>5, <1>9, StFields DEF Found
  <2> HIDE DEF s
  <2>2. 1 \in 1..Len(s.rest) /\ s.rest[1] = START /\ \A i \in 1..(1 - 1) : s.rest[i] # START
    <3>1. 1 \in 1..Len(b)
      BY <1>0, <1>9
    <3>2. b[1] = a[1]
      <4>1. 1 \in 1..Len(a)
        BY <1>1
      <4> QED BY <1>1, <1>7, <4>1, Joined
    <3> QED BY <1>1, <2>1, <3>1, <3>2
  <2>3. s.buf = <<>>
    BY <2>1 DEF e
  <2>4. Step(s) = St(<<START>>, Skip(s.rest, 1), s.msgs)
    BY <2>1, <2>2, <2>3, HuntFinds
  <2>5. Step(s) = St(a, lm, e)
    BY <1>8, <2>1, <2>4 DEF a
  <2> QED BY <2>5 DEF s, e
<1>13. Step(St(a, lm, e)) = St(h, m, e)
  <2> DEFINE s == St(a, lm, e)
  <2>1. s \in Chunks /\ s.buf = a
    BY <1>1, <1>5, <1>7, StFields DEF Found
  <2>2. Len(a) < HeaderSize
    BY <1>0, <1>1
  <2>3. Step(s) = Fill(s, HeaderSize)
    <3> HIDE DEF s
    <3> QED BY <1>1, <2>1, <2>2, Rounds
  <2>4. HeaderSize = Len(a) + LenSize /\ Len(l) >= LenSize
    BY <1>0, <1>1, <1>2
  <2>5. Fill(St(a, l \o m, e), HeaderSize)
          = St(a \o SubSeq(l, 1, LenSize), Skip(l, LenSize) \o m, e)
    <3>1. /\ a \in Seq(Bytes) /\ l \in Seq(Bytes) /\ e \in Found
          /\ HeaderSize \in Nat /\ LenSize \in Nat
      BY <1>0, <1>1, <1>2, <1>5
    <3> QED BY <2>4, <3>1, FillingOn
  <2>6. SubSeq(l, 1, LenSize) = l /\ Skip(l, LenSize) = <<>>
    BY <1>2, SkipAll
  <2>7. <<>> \o m = m
    BY ConcatEmptySeq
  <2> QED BY <2>3, <2>5, <2>6, <2>7 DEF h, lm
<1>14. Step(St(h, m, e)) = St(b, <<>>, e)
  <2> DEFINE s == St(h, m, e)
             size == HeaderSize + Len(m)
  <2>1. s \in Chunks /\ s.buf = h /\ s.rest = m /\ s.msgs = e
    BY <1>5, <1>7, StFields DEF Found
  <2>2. h # <<>> /\ Len(h) >= HeaderSize /\ Len(h) < size
    <3>1. Len(h) # 0
      BY <1>0, <1>7
    <3> QED BY <1>0, <1>7, <3>1, SkipAll
  <2> HIDE DEF s
  <2>3. Step(s) = Fill(s, size)
    <3>1. s.buf # <<>> /\ Len(s.buf) >= HeaderSize /\ ~TooLong(s.buf)
          /\ MsgLength(s.buf) = Len(m) /\ Len(s.buf) < HeaderSize + MsgLength(s.buf)
      BY <1>10, <1>11, <2>1, <2>2
    <3>2. Step(s) = Fill(s, HeaderSize + MsgLength(s.buf))
      BY <2>1, <3>1, Rounds
    <3> QED BY <3>1, <3>2
  <2>4. size \in Nat /\ Len(m) \in Nat /\ size = Len(s.buf) + Len(m) /\ Len(s.rest) <= Len(m)
    <3>1. Len(s.buf) = HeaderSize
      BY <1>7, <2>1
    <3>2. Len(s.rest) = Len(m)
      BY <2>1
    <3> DEFINE k == Len(m)
    <3>3. k \in Nat
      BY <1>0
    <3> HIDE DEF k
    <3>4. HeaderSize + k \in Nat /\ k <= k
      BY <1>0, <3>3
    <3> QED BY <3>1, <3>2, <3>3, <3>4 DEF k
  <2> HIDE DEF size
  <2>5. Fill(s, size) = St(s.buf \o s.rest, <<>>, s.msgs)
    BY <2>1, <2>4, Fills
  <2> QED BY <2>1, <2>3, <2>5 DEF s, b
<1>15. ProcessAll[St(<<>>, b, e)] = St(b, <<>>, e)
  <2>1. b # <<>> /\ lm # <<>> /\ m # <<>>
    <3>1. m # <<>>
      BY <1>0, SkipAll
    <3>2. Len(b) # 0
      BY <1>0, <1>9
    <3>3. Len(lm) # 0
      <4>1. Len(lm) = Len(l) + Len(m)
        BY <1>2, BytesJoined DEF lm
      <4> QED BY <1>0, <1>2, <4>1
    <3>4. b # <<>>
      BY <1>9, <3>2, SkipAll
    <3>5. lm # <<>>
      BY <1>7, <3>3, SkipAll
    <3> QED BY <3>1, <3>4, <3>5
  <2>2. ProcessAll[St(e, b, e)] = ProcessAll[Step(St(e, b, e))]
    BY <1>4, <1>5, <1>9, <2>1, OneRound
  <2>3. ProcessAll[St(a, lm, e)] = ProcessAll[Step(St(a, lm, e))]
    BY <1>1, <1>5, <1>7, <2>1, OneRound
  <2>4. ProcessAll[St(h, m, e)] = ProcessAll[Step(St(h, m, e))]
    BY <1>5, <1>7, <2>1, OneRound
  <2>5. ProcessAll[St(b, <<>>, e)] = St(b, <<>>, e)
    BY <1>5, <1>9, NoMore
  <2>6. Step(St(e, b, e)) = St(a, lm, e)
    BY <1>12 DEF e
  <2>7. ProcessAll[St(e, b, e)] = St(b, <<>>, e)
    BY <1>13, <1>14, <2>2, <2>3, <2>4, <2>5, <2>6
  <2> QED BY <2>7 DEF e
<1>16. St(b, <<>>, e).buf = b /\ St(b, <<>>, e).msgs = e
  BY DEF St
<1>17. Process(<<>>, b).buf = b /\ Process(<<>>, b).msgs = e
  BY <1>6, <1>15, <1>16
<1> QED BY <1>3, <1>9, <1>10, <1>17 DEF e

(* A complete frame brings its message and leaves nothing behind.            *)
LEMMA FrameRead ==
    ASSUME LengthFits, NEW m \in Seq(Bytes), Len(m) \in 1..MaxMsgSize
    PROVE  Process(<<>>, Frame(m)).buf = <<>> /\ Process(<<>>, Frame(m)).msgs = <<m>>
<1> DEFINE b == Body(m)
           z == <<END>>
           e == <<>>
           ms == <<m>>
<1>1. /\ b \in Seq(Bytes) /\ Len(b) = HeaderSize + Len(m) /\ MsgLength(b) = Len(m)
      /\ Skip(b, HeaderSize) = m /\ Frame(m) = b \o z
      /\ Process(<<>>, b).buf = b /\ Process(<<>>, b).msgs = <<>>
  BY BodyIs
<1>2. z \in Seq(Bytes) /\ Len(z) = 1 /\ z[1] = END /\ z # <<>>
  BY DEF END, Bytes
<1>3. e \in Seq(Bytes)
  OBVIOUS
<1>4. e \in Found
  BY DEF Found
<1>5. ms \in Found
  BY DEF Found
<1>6. e \o ms = ms
  BY <1>5, ConcatEmptySeq DEF Found
<1>7. Process(e, b).buf = b /\ Process(e, b).msgs = e
  BY <1>1
<1>8. Len(m) \in Nat /\ Len(m) > 0 /\ Len(m) <= MaxMsgSize /\ HeaderSize \in Nat /\ HeaderSize >= 2
  BY Header
<1> HIDE DEF b, z
<1>9. Process(b, z) = ProcessAll[St(b, z, e)]
  BY DEF Process, St
<1>10. Skip(z, 1) = e
  BY <1>2, SkipAll
<1>11. Gained(b, z[1]) = ms
  BY <1>1, <1>2, <1>8 DEF Gained
<1> HIDE DEF e, ms
<1>12. Step(St(b, z, e)) = St(e, e, ms)
  <2> DEFINE s == St(b, z, e)
  <2>1. s \in Chunks /\ s.buf = b /\ s.rest = z /\ s.msgs = e
    BY <1>1, <1>2, <1>4, StFields DEF Found
  <2> HIDE DEF s
  <2>2. Len(b) >= HeaderSize /\ ~(Len(b) < HeaderSize + MsgLength(b)) /\ ~TooLong(b)
    <3> DEFINE k == Len(m)
    <3>1. k \in Nat /\ k <= MaxMsgSize /\ Len(b) = HeaderSize + k /\ MsgLength(b) = k
      BY <1>1, <1>8
    <3> HIDE DEF k
    <3>2. ~(k > MaxMsgSize)
      BY <3>1, Sizes
    <3> QED BY <1>8, <3>1, <3>2 DEF TooLong
  <2>3. b # <<>>
    <3>1. Len(b) # 0
      BY <1>1, <1>8
    <3> QED BY <1>1, <3>1, SkipAll
  <2>4. s.buf # <<>> /\ Len(s.buf) >= HeaderSize /\ ~TooLong(s.buf)
        /\ ~(Len(s.buf) < HeaderSize + MsgLength(s.buf))
    BY <2>1, <2>2, <2>3
  <2>5. Step(s) = Finish(s)
    BY <2>1, <2>4, Rounds
  <2>6. s.rest # <<>>
    BY <1>2, <2>1
  <2>7. Finish(s) = St(<<>>, Skip(s.rest, 1), s.msgs \o Gained(s.buf, s.rest[1]))
    BY <2>1, <2>4, <2>6, Finishes
  <2>8. Finish(s) = St(<<>>, e, ms)
    BY <1>6, <1>10, <1>11, <2>1, <2>7
  <2> QED BY <2>5, <2>8 DEF s, e
<1>13. ProcessAll[St(b, z, e)] = ProcessAll[Step(St(b, z, e))]
  BY <1>1, <1>2, <1>4, OneRound
<1>14. ProcessAll[St(e, e, ms)] = St(e, e, ms)
  <2>1. ProcessAll[St(e, <<>>, ms)] = St(e, <<>>, ms)
    BY <1>3, <1>5, NoMore
  <2> QED BY <2>1 DEF e
<1>15. St(e, e, ms).buf = e /\ St(e, e, ms).msgs = ms
  BY DEF St
<1>16. Process(b, z).buf = e /\ Process(b, z).msgs = ms
  BY <1>9, <1>12, <1>13, <1>14, <1>15
<1>17. Process(e, b \o z).buf = e /\ Process(e, b \o z).msgs = e \o ms
  <2>1. /\ Process(e, b \o z).buf = Process(Process(e, b).buf, z).buf
        /\ Process(e, b \o z).msgs = Process(e, b).msgs \o Process(Process(e, b).buf, z).msgs
    <3>1. InParts(e, b, z)
      BY <1>1, <1>2, <1>3, ProcessInParts
    <3> QED BY <3>1 DEF InParts
  <2> QED BY <1>7, <1>16, <2>1
<1>18. Process(e, Frame(m)).buf = e /\ Process(e, Frame(m)).msgs = ms
  BY <1>1, <1>6, <1>17
<1> QED BY <1>18 DEF e, ms

(* An unfinished one brings nothing.                                         *)
LEMMA FrameCut ==
    ASSUME LengthFits, NEW m \in Seq(Bytes), Len(m) \in 1..MaxMsgSize,
           NEW n \in 0..(FrameSize(Len(m)) - 1)
    PROVE  Process(<<>>, SubSeq(Frame(m), 1, n)).msgs = <<>>
<1> DEFINE b == Body(m)
           z == <<END>>
           h == SubSeq(b, 1, n)
           t == Skip(b, n)
           e == <<>>
<1>1. /\ b \in Seq(Bytes) /\ Len(b) = HeaderSize + Len(m) /\ Frame(m) = b \o z
      /\ Process(e, b).msgs = <<>>
  BY BodyIs
<1>2. z \in Seq(Bytes)
  BY DEF END, Bytes
<1>3. n \in 0..Len(b)
  <2> DEFINE k == Len(m)
  <2>1. k \in Nat /\ Len(b) = HeaderSize + k /\ n \in 0..(FrameSize(k) - 1)
    BY <1>1
  <2> HIDE DEF k, b
  <2>2. FrameSize(k) - 1 = HeaderSize + k
    BY <2>1, Header DEF FrameSize, HeaderSize
  <2> QED BY <2>1, <2>2
<1>4. e \in Seq(Bytes)
  OBVIOUS
<1> HIDE DEF b, z, e
<1>5. h \in Seq(Bytes) /\ t \in Seq(Bytes) /\ h \o t = b
  BY <1>1, <1>3, Parts
<1>6. SubSeq(b \o z, 1, n) = h
  BY <1>1, <1>2, <1>3, PartOfFirst
<1> HIDE DEF h, t
<1> DEFINE g == Process(e, h).msgs
           r == Process(Process(e, h).buf, t).msgs
<1>7. Process(e, h \o t).msgs = g \o r /\ g \in Found
  <2>1. InParts(e, h, t)
    BY <1>4, <1>5, ProcessInParts
  <2> QED BY <2>1 DEF InParts
<1>8. r \in Found
  <2> DEFINE c == Process(e, h).buf
  <2>1. c \in Seq(Bytes)
    BY <1>4, <1>5, ProcessTypes
  <2> HIDE DEF c
  <2>2. Process(c, t).msgs \in Found
    BY <1>5, <2>1, ProcessTypes
  <2> QED BY <2>2 DEF c
<1> HIDE DEF g, r
<1>9. g \o r = <<>>
  BY <1>1, <1>5, <1>7
<1>10. g = <<>>
  BY <1>7, <1>8, <1>9, NothingTogether
<1> QED BY <1>1, <1>6, <1>10 DEF g, e

-----------------------------------------------------------------------------
(* The two ends implement a channel of whole messages.                       *)

(* What a chunk and the bytes after it bring together.                       *)
LEMMA ChunkThenRest ==
    ASSUME NEW b \in Seq(Bytes), NEW w \in Seq(Bytes), NEW n \in 0..Len(w)
    PROVE  LET p == Process(b, SubSeq(w, 1, n))
               r == Process(p.buf, Skip(w, n))
           IN  /\ Process(b, w).buf = r.buf /\ Process(b, w).msgs = p.msgs \o r.msgs
               /\ p.buf \in Seq(Bytes) /\ p.msgs \in Found /\ r.msgs \in Found
<1> DEFINE x == SubSeq(w, 1, n)
           y == Skip(w, n)
           p == Process(b, x)
           r == Process(p.buf, y)
<1>0. x \o y = w
  BY Parts
<1>1. x \in Seq(Bytes) /\ y \in Seq(Bytes)
  BY Parts
<1> HIDE DEF x, y
<1>2. /\ Process(b, x \o y).buf = r.buf /\ Process(b, x \o y).msgs = p.msgs \o r.msgs
      /\ p.buf \in Seq(Bytes) /\ p.msgs \in Found
  <2>1. InParts(b, x, y)
    BY <1>1, ProcessInParts
  <2> QED BY <2>1 DEF InParts
<1>3. r.msgs \in Found
  <2> HIDE DEF p
  <2> QED BY <1>1, <1>2, ProcessTypes
<1> HIDE DEF p, r
<1>4. Process(b, w).buf = r.buf /\ Process(b, w).msgs = p.msgs \o r.msgs
  BY <1>0, <1>2
<1> QED BY <1>2, <1>3, <1>4 DEF p, r, x, y

(* What is written after complete frames only.                               *)
LEMMA WrittenAfter ==
    ASSUME NEW b \in Seq(Bytes), NEW w \in Seq(Bytes), NEW x \in Seq(Bytes),
           Process(b, w).buf = <<>>
    PROVE  /\ Process(b, w \o x).buf = Process(<<>>, x).buf
           /\ Process(b, w \o x).msgs = Process(b, w).msgs \o Process(<<>>, x).msgs
           /\ Process(b, w).msgs \in Found
<1>1. /\ Process(b, w \o x).buf = Process(Process(b, w).buf, x).buf
      /\ Process(b, w \o x).msgs = Process(b, w).msgs \o Process(Process(b, w).buf, x).msgs
      /\ Process(b, w).msgs \in Found
  <2>1. InParts(b, w, x)
    BY ProcessInParts
  <2> QED BY <2>1 DEF InParts
<1> QED BY <1>1

(* As long as the writing end is open, only complete frames were written.    *)
Clean == write_open => Process(msg_buf, wire).buf = <<>>

LEMMA ReadTypes ==
    ASSUME TypeOK, ReadChunk
    PROVE  \E n \in 0..Len(wire) :
              LET p == Process(msg_buf, SubSeq(wire, 1, n)) IN
              /\ wire' = Skip(wire, n) /\ msg_buf' = p.buf /\ q' = Enqueue(p.msgs)
<1>1. PICK n \in 1..Min({ChunkSize, Len(wire)}) :
         LET chunk == SubSeq(wire, 1, n)
             p == Process(msg_buf, chunk) IN
         /\ wire' = Skip(wire, n)
         /\ msg_buf' = p.buf /\ q' = Enqueue(p.msgs)
  BY DEF ReadChunk
<1>2. n \in 0..Len(wire)
  BY ChunkInWire DEF TypeOK
<1> QED BY <1>1, <1>2

LEMMA CleanKept ==
    ASSUME LengthFits, Harmless
    PROVE  (Init => Clean) /\ (TypeOK /\ Clean /\ [Next]_vars => Clean')
<1>1. Init => Clean
  BY ProcessNothing DEF Init, Clean
<1>2. TypeOK /\ Clean /\ [Next]_vars => Clean'
  <2> SUFFICES ASSUME TypeOK, Clean, [Next]_vars PROVE Clean'
    OBVIOUS
  <2>0. wire \in Seq(Bytes) /\ msg_buf \in Seq(Bytes)
    BY DEF TypeOK
  <2>1. CASE UNCHANGED <<wire, msg_buf>> /\ (write_open' => write_open)
    BY <2>1 DEF Clean, Process
  <2>2. CASE ~write_open'
    BY <2>2 DEF Clean
  <2>3. ASSUME NEW x \in Seq(Bytes), Process(<<>>, x).buf = <<>>, write_open,
               wire' = wire \o x, msg_buf' = msg_buf
        PROVE  Clean'
    <3>1. Process(msg_buf, wire).buf = <<>>
      BY <2>3 DEF Clean
    <3>2. Process(msg_buf, wire \o x).buf = <<>>
      BY <2>0, <2>3, <3>1, WrittenAfter
    <3>3. (Process(msg_buf, wire))' = Process(msg_buf, wire \o x)
      BY <2>3 DEF Process
    <3> QED BY <3>2, <3>3 DEF Clean
  <2>4. ASSUME NEW m \in Msgs, Send(m) PROVE Clean'
    <3>1. m \in Seq(Bytes) /\ Len(m) \in 1..MaxMsgSize
      BY <2>4, Sizes DEF Send
    <3>2. Frame(m) \in Seq(Bytes) /\ Process(<<>>, Frame(m)).buf = <<>>
      BY <3>1, FrameIs, FrameRead
    <3> QED BY <2>3, <2>4, <3>2 DEF Send, reader
  <2>5. ASSUME NEW m \in Msgs, SendCut(m) PROVE Clean'
    BY <2>2, <2>5 DEF SendCut
  <2>6. ASSUME NEW bytes \in Junk, WriteJunk(bytes) PROVE Clean'
    <3>1. bytes \in Seq(Bytes) /\ Process(<<>>, bytes).buf = <<>>
      BY Sizes DEF Harmless
    <3> QED BY <2>3, <2>6, <3>1 DEF WriteJunk, reader
  <2>7. CASE Hangup
    BY <2>2, <2>7 DEF Hangup
  <2>8. CASE ReadChunk
    <3>1. PICK n \in 0..Len(wire) :
             LET p == Process(msg_buf, SubSeq(wire, 1, n)) IN
             wire' = Skip(wire, n) /\ msg_buf' = p.buf
      BY <2>8, ReadTypes
    <3> DEFINE p == Process(msg_buf, SubSeq(wire, 1, n))
    <3>2. Process(msg_buf, wire).buf = Process(p.buf, Skip(wire, n)).buf
      BY <2>0, ChunkThenRest
    <3>3. wire' = Skip(wire, n) /\ msg_buf' = p.buf
      BY <3>1
    <3> HIDE DEF p
    <3>4. (Process(msg_buf, wire))' = Process(p.buf, Skip(wire, n))
      BY <3>3 DEF Process
    <3>5. write_open' = write_open
      BY <2>8 DEF ReadChunk
    <3> QED BY <3>2, <3>4, <3>5 DEF Clean
  <2>9. CASE ReadWouldBlock
    BY <2>1, <2>9 DEF ReadWouldBlock
  <2>10. ASSUME NEW failed \in BOOLEAN, ReadEnd(failed) PROVE Clean'
    BY <2>1, <2>10 DEF ReadEnd
  <2>11. ASSUME NEW len \in BufLens, Receive(len) PROVE Clean'
    BY <2>1, <2>11 DEF Receive
  <2>12. CASE UNCHANGED vars
    BY <2>1, <2>12 DEF vars
  <2> QED BY <2>4, <2>5, <2>6, <2>7, <2>8, <2>9, <2>10, <2>11, <2>12 DEF Next
<1> QED BY <1>1, <1>2

(* The positions that are kept when those after a and up to c are given up.  *)
Kept(a, c, d) == (1..a) \cup ((c + 1)..d)

LEMMA KeptCount ==
    ASSUME NEW a \in Nat, NEW c \in Nat, NEW d \in Nat, a <= c, c <= d
    PROVE  Channel!Cardinality(Kept(a, c, d)) = a + (d - c)
<1> DEFINE x == 1..a
           y == (c + 1)..d
<1>1. IsFiniteSet(x) /\ Cardinality(x) = a
  <2>1. IsFiniteSet(1..a) /\ Cardinality(1..a) = IF 1 > a THEN 0 ELSE a - 1 + 1
    BY FS_Interval
  <2> QED BY <2>1
<1>2. IsFiniteSet(y) /\ Cardinality(y) = d - c
  <2>1. c + 1 \in Int /\ d \in Int
    OBVIOUS
  <2>2. IsFiniteSet((c + 1)..d)
        /\ Cardinality((c + 1)..d) = IF c + 1 > d THEN 0 ELSE d - (c + 1) + 1
    BY <2>1, FS_Interval
  <2> QED BY <2>2
<1>3. x \cap y = {}
  OBVIOUS
<1>4. Cardinality({}) = 0
  BY FS_EmptySet
<1> HIDE DEF x, y
<1>5. Cardinality(x \cup y) = Cardinality(x) + Cardinality(y) - Cardinality(x \cap y)
  BY <1>1, <1>2, FS_Union
<1>6. Cardinality(x \cup y) = a + (d - c)
  BY <1>1, <1>2, <1>3, <1>4, <1>5
<1>7. Channel!Cardinality(Kept(a, c, d)) = Cardinality(Kept(a, c, d))
  BY DEF Channel!Cardinality, Cardinality, Channel!IsFiniteSet, IsFiniteSet
<1> QED BY <1>6, <1>7 DEF Kept, x, y

(* Which of them is the i-th.                                                *)
LEMMA KeptPlace ==
    ASSUME NEW a \in Nat, NEW c \in Nat, NEW d \in Nat, a <= c, c <= d,
           NEW i \in 1..(a + (d - c))
    PROVE  (CHOOSE j \in Kept(a, c, d) :
                Channel!Cardinality({k \in Kept(a, c, d) : k <= j}) = i)
             = IF i <= a THEN i ELSE c + (i - a)
<1> DEFINE P == Kept(a, c, d)
           Rank(j) == Channel!Cardinality({k \in P : k <= j})
           e == IF i <= a THEN i ELSE c + (i - a)
<1>1. ASSUME NEW j \in P PROVE Rank(j) = IF j <= a THEN j ELSE a + (j - c)
  <2>0. j \in Nat /\ (j \in 1..a \/ j \in (c + 1)..d)
    BY DEF Kept
  <2>1. CASE j <= a
    <3>1. {k \in P : k <= j} = 1..j
      BY <2>0, <2>1 DEF Kept
    <3>2. Kept(j, d, d) = 1..j
      BY <2>0 DEF Kept
    <3>3. j <= d
      BY <2>1, <2>0
    <3>4. Channel!Cardinality(Kept(j, d, d)) = j + (d - d)
      BY <2>0, <3>3, KeptCount
    <3>5. j + (d - d) = j
      BY <2>0
    <3> QED BY <2>1, <3>1, <3>2, <3>4, <3>5
  <2>2. CASE ~(j <= a)
    <3>1. {k \in P : k <= j} = Kept(a, c, j)
      BY <2>0, <2>2 DEF Kept
    <3>2. c <= j
      BY <2>0, <2>2
    <3>3. Channel!Cardinality(Kept(a, c, j)) = a + (j - c)
      BY <2>0, <3>2, KeptCount
    <3> QED BY <2>2, <3>1, <3>3
  <2> QED BY <2>1, <2>2
<1>2. e \in P
  BY DEF Kept
<1>3. Rank(e) = i
  <2>1. e <= a <=> i <= a
    OBVIOUS
  <2>2. ~(i <= a) => a + (e - c) = i
    OBVIOUS
  <2> HIDE DEF P, Rank
  <2> QED BY <1>1, <1>2, <2>1, <2>2
<1>4. ASSUME NEW j \in P, Rank(j) = i PROVE j = e
  <2>1. j \in Nat /\ (j \in 1..a \/ j \in (c + 1)..d)
    BY DEF Kept
  <2>2. i = IF j <= a THEN j ELSE a + (j - c)
    BY <1>1, <1>4
  <2> QED BY <2>1, <2>2
<1> HIDE DEF Rank, P, e
<1>5. (CHOOSE j \in P : Rank(j) = i) = e
  BY <1>2, <1>3, <1>4
<1> QED BY <1>5 DEF Rank, P, e

(* Thinning a sequence so gives its two ends.                                *)
LEMMA ThinIs ==
    ASSUME NEW S, NEW s \in Seq(S), NEW a \in Nat, NEW c \in Nat, a <= c, c <= Len(s)
    PROVE  /\ Kept(a, c, Len(s)) \in SUBSET DOMAIN s
           /\ Channel!Cardinality(Kept(a, c, Len(s))) = a + (Len(s) - c)
           /\ Channel!Thin(s, Kept(a, c, Len(s))) = SubSeq(s, 1, a) \o Skip(s, c)
<1> DEFINE d == Len(s)
           P == Kept(a, c, d)
           n == a + (d - c)
           x == SubSeq(s, 1, a)
           y == Skip(s, c)
           place(i) == IF i <= a THEN i ELSE c + (i - a)
<1>1. d \in Nat /\ DOMAIN s = 1..d
  BY LenProperties
<1>2. P \in SUBSET DOMAIN s
  BY <1>1 DEF Kept
<1>3. Channel!Cardinality(P) = n
  <2> HIDE DEF d
  <2> QED BY <1>1, KeptCount DEF d
<1>4. a \in 0..Len(s) /\ c \in 0..Len(s)
  BY <1>1
<1>5. /\ x \in Seq(S) /\ Len(x) = a /\ \A i \in 1..a : x[i] = s[i]
      /\ y \in Seq(S) /\ Len(y) = d - c /\ \A i \in 1..(d - c) : y[i] = s[c + i]
  BY <1>4, SkipPart
<1>6. Channel!Thin(s, P) = [i \in 1..n |-> s[place(i)]]
  <2>1. Channel!Thin(s, P)
          = [i \in 1..n |-> s[CHOOSE j \in P : Channel!Cardinality({k \in P : k <= j}) = i]]
    <3> HIDE DEF P, n
    <3> QED BY <1>3 DEF Channel!Thin
  <2>2. ASSUME NEW i \in 1..n
        PROVE  (CHOOSE j \in P : Channel!Cardinality({k \in P : k <= j}) = i) = place(i)
    <3> HIDE DEF d
    <3> QED BY <1>1, <1>4, KeptPlace DEF d
  <2> HIDE DEF P, n, place
  <2> QED BY <2>1, <2>2
<1>7. /\ x \o y \in Seq(S) /\ Len(x \o y) = n /\ n \in Nat
      /\ \A i \in 1..n : (x \o y)[i] = IF i <= a THEN x[i] ELSE y[i - a]
  <2>1. /\ x \o y \in Seq(S) /\ Len(x \o y) = Len(x) + Len(y)
        /\ \A i \in 1..(Len(x) + Len(y)) :
               (x \o y)[i] = IF i <= Len(x) THEN x[i] ELSE y[i - Len(x)]
    BY <1>5, ConcatProperties
  <2> HIDE DEF x, y, d
  <2> QED BY <1>1, <1>4, <1>5, <2>1 DEF d
<1>8. ASSUME NEW i \in 1..n PROVE (x \o y)[i] = s[place(i)] /\ s[place(i)] \in S
  <2>1. place(i) \in 1..d
    BY <1>1
  <2>2. s[place(i)] \in S
    BY <2>1, ElementOfSeq
  <2>3. CASE i <= a
    <3>1. i \in 1..a
      BY <1>1, <2>3
    <3>2. (x \o y)[i] = x[i]
      <4> HIDE DEF x, y, n
      <4> QED BY <1>7, <2>3
    <3> QED BY <1>5, <2>2, <2>3, <3>1, <3>2
  <2>4. CASE ~(i <= a)
    <3>1. i - a \in 1..(d - c)
      BY <1>1, <2>4
    <3>2. (x \o y)[i] = y[i - a]
      <4> HIDE DEF x, y, n
      <4> QED BY <1>7, <2>4
    <3>3. y[i - a] = s[c + (i - a)]
      <4> HIDE DEF y, d
      <4> QED BY <1>5, <3>1
    <3> QED BY <2>2, <2>4, <3>2, <3>3
  <2> QED BY <2>3, <2>4
<1>9. x \o y = [i \in 1..n |-> s[place(i)]]
  <2> DEFINE z == x \o y
  <2>1. z \in Seq(S) /\ Len(z) = n
    BY <1>7
  <2>2. z = [i \in 1..n |-> z[i]]
    <3> HIDE DEF z, n
    <3>1. z \in [1..Len(z) -> S]
      BY <2>1, LenProperties
    <3> QED BY <2>1, <3>1
  <2>3. \A i \in 1..n : z[i] = s[place(i)]
    BY <1>8
  <2> HIDE DEF z, n, place
  <2> QED BY <2>2, <2>3 DEF z
<1> HIDE DEF x, y, n, place
<1> QED BY <1>2, <1>3, <1>6, <1>9 DEF n, x, y

(* A full queue gives up its oldest messages or the newest of them.          *)
LEMMA EnqueueThins ==
    ASSUME q \in Found, depth \in Nat \ {0}, NEW ms \in Found, NEW more \in Found
    PROVE  LET all == q \o ms
               a == IF write_over THEN 0 ELSE depth
               c == a + (Len(all) - depth)
           IN  /\ Len(all) <= depth => Enqueue(ms) = all
               /\ Len(all) > depth =>
                     /\ a \in Nat /\ c \in Nat /\ a <= c /\ c <= Len(all)
                     /\ Enqueue(ms) \o more = SubSeq(all \o more, 1, a) \o Skip(all \o more, c)
<1> DEFINE S == Seq(Bytes)
           all == q \o ms
           l == Len(all)
           n == Min({depth, Len(all)})
           a == IF write_over THEN 0 ELSE depth
           c == a + (l - depth)
<1>1. all \in Seq(S) /\ l \in Nat /\ more \in Seq(S)
  <2>1. all \in Seq(Seq(Bytes)) /\ more \in Seq(Seq(Bytes))
    BY ConcatProperties DEF Found
  <2> HIDE DEF all
  <2> QED BY <2>1, LenProperties
<1> HIDE DEF S
<1>2. Enqueue(ms) = IF write_over THEN Skip(all, l - n) ELSE SubSeq(all, 1, n)
  BY DEF Enqueue
<1> HIDE DEF all
<1>3. n = IF depth <= l THEN depth ELSE l
  BY <1>1, MinOfTwo
<1>4. Skip(all, 0) = all /\ SubSeq(all, 1, l) = all
  BY <1>1, SkipAll
<1>5. ASSUME l <= depth PROVE Enqueue(ms) = all
  <2>1. n = l /\ l - n = 0
    <3> HIDE DEF n, l
    <3> QED BY <1>1, <1>3, <1>5
  <2> HIDE DEF n, l
  <2> QED BY <1>2, <1>4, <2>1
<1>6. ASSUME l > depth
      PROVE  /\ a \in Nat /\ c \in Nat /\ a <= c /\ c <= l
             /\ Enqueue(ms) \o more = SubSeq(all \o more, 1, a) \o Skip(all \o more, c)
  <2>1. n = depth /\ depth \in 0..l /\ l - depth \in 0..l /\ 0 \in 0..l /\ l \in 0..l
    <3> HIDE DEF n, l
    <3> QED BY <1>1, <1>3, <1>6
  <2> HIDE DEF n
  <2>2. a \in Nat /\ c \in Nat /\ a <= c /\ c <= l
    <3> HIDE DEF l
    <3> QED BY <1>1, <1>6
  <2>3. CASE write_over
    <3>1. a = 0 /\ c = l - depth
      <4> HIDE DEF l
      <4> QED BY <1>1, <2>3
    <3> DEFINE k == l - depth
    <3>2. Skip(all \o more, k) = Skip(all, k) \o more /\ Skip(all, k) \in Seq(S)
      <4>1. k \in 0..Len(all)
        BY <2>1
      <4> HIDE DEF k, l
      <4> QED BY <1>1, <4>1, PartOfFirst, SkipPart
    <3>3. SubSeq(all \o more, 1, 0) = <<>>
      <4> DEFINE w == all \o more
      <4>1. w \in Seq(S)
        BY <1>1, ConcatProperties
      <4> HIDE DEF w
      <4>2. SubSeq(w, 1, 0) = <<>>
        BY <4>1, SubSeqEmpty
      <4> QED BY <4>2 DEF w
    <3>4. Enqueue(ms) = Skip(all, k)
      BY <1>2, <2>1, <2>3
    <3>5. Skip(all, k) \o more \in Seq(S)
      <4> DEFINE v == Skip(all, k)
      <4>1. v \in Seq(S)
        BY <3>2
      <4> HIDE DEF v
      <4>2. v \o more \in Seq(S)
        BY <1>1, <4>1, ConcatProperties
      <4> QED BY <4>2 DEF v
    <3> DEFINE u == Skip(all, k) \o more
    <3>6. <<>> \o u = u
      <4>1. u \in Seq(S)
        BY <3>5
      <4> HIDE DEF u
      <4> QED BY <4>1, ConcatEmptySeq
    <3>7. Enqueue(ms) \o more = u /\ Skip(all \o more, c) = u /\ SubSeq(all \o more, 1, a) = <<>>
      BY <3>1, <3>2, <3>3, <3>4
    <3> HIDE DEF u
    <3> QED BY <2>2, <3>6, <3>7
  <2>4. CASE ~write_over
    <3>1. a = depth /\ c = l
      <4> HIDE DEF l
      <4> QED BY <1>1, <2>4
    <3>2. SubSeq(all \o more, 1, depth) = SubSeq(all, 1, depth)
      <4>1. depth \in 0..Len(all)
        BY <2>1
      <4> QED BY <1>1, <4>1, PartOfFirst
    <3>3. Skip(all \o more, l) = more
      <4>1. 0 \in 0..Len(more) /\ l + 0 = l
        BY <1>1, LenProperties
      <4>2. Skip(all \o more, Len(all) + 0) = Skip(more, 0)
        BY <1>1, <4>1, PartOfSecond
      <4> QED BY <1>1, <4>1, <4>2, SkipAll
    <3>4. Enqueue(ms) = SubSeq(all, 1, depth)
      BY <1>2, <2>1, <2>4
    <3> HIDE DEF a, c, l
    <3> QED BY <2>2, <3>1, <3>2, <3>3, <3>4
  <2> QED BY <2>3, <2>4
<1> QED BY <1>5, <1>6 DEF all

(* What waits to be received is a sequence of messages.                      *)
LEMMA InTransitType ==
    ASSUME TypeOK
    PROVE  InTransit \in Found /\ q \in Found
<1>1. Process(msg_buf, wire).msgs \in Found
  BY ProcessTypes DEF TypeOK
<1>2. <<>> \in Found
  BY DEF Found
<1> QED BY <1>1, <1>2 DEF InTransit, TypeOK, Found

(* What a write adds to it.                                                  *)
LEMMA InTransitGrows ==
    ASSUME TypeOK, Clean, write_open, NEW x \in Seq(Bytes),
           wire' = wire \o x, UNCHANGED <<msg_buf, read_open>>
    PROVE  InTransit' = IF read_open THEN InTransit \o Process(<<>>, x).msgs ELSE InTransit
<1>1. wire \in Seq(Bytes) /\ msg_buf \in Seq(Bytes)
  BY DEF TypeOK
<1>2. Process(msg_buf, wire).buf = <<>>
  BY DEF Clean
<1>3. Process(msg_buf, wire \o x).msgs = Process(msg_buf, wire).msgs \o Process(<<>>, x).msgs
  BY <1>1, <1>2, WrittenAfter
<1>4. (Process(msg_buf, wire))' = Process(msg_buf, wire \o x)
  BY DEF Process
<1> QED BY <1>3, <1>4 DEF InTransit

LEMMA InTransitSame ==
    ASSUME UNCHANGED <<wire, msg_buf, read_open>>
    PROVE  InTransit' = InTransit
BY DEF InTransit, Process

LEMMA FoundAssociates ==
    ASSUME NEW s \in Found, NEW t \in Found, NEW u \in Found
    PROVE  s \o t \in Found /\ s \o (t \o u) = (s \o t) \o u
<1> DEFINE S == Seq(Bytes)
<1>1. s \in Seq(S) /\ t \in Seq(S) /\ u \in Seq(S)
  BY DEF Found
<1>2. Found = Seq(S)
  BY DEF Found
<1> HIDE DEF S
<1>3. s \o t \in Seq(S)
  BY <1>1, ConcatProperties
<1>4. s \o (t \o u) = (s \o t) \o u
  BY <1>1, Together
<1> QED BY <1>2, <1>3, <1>4

LEMMA FoundJoined ==
    ASSUME NEW s \in Found, NEW t \in Found
    PROVE  /\ s \o <<>> = s /\ Len(s) \in 0..Len(s \o t) /\ Len(s \o t) \in Nat
           /\ SubSeq(s \o t, 1, Len(s)) = s
<1> DEFINE S == Seq(Bytes)
           a == Len(s)
           b == Len(t)
<1>1. s \in Seq(S) /\ t \in Seq(S)
  BY DEF Found
<1> HIDE DEF S
<1>2. Len(s \o t) = a + b /\ a \in Nat /\ b \in Nat
  BY <1>1, ConcatProperties, LenProperties
<1>3. s \o <<>> = s
  BY <1>1, ConcatEmptySeq
<1>4. SubSeq(s \o t, 1, a) = SubSeq(s, 1, a) /\ SubSeq(s, 1, a) = s
  <2>1. a \in 0..Len(s)
    BY <1>2
  <2> HIDE DEF a
  <2>2. SubSeq(s \o t, 1, a) = SubSeq(s, 1, a)
    BY <1>1, <2>1, PartOfFirst
  <2> QED BY <1>1, <2>2, SkipAll DEF a
<1>5. a \in 0..Len(s \o t) /\ Len(s \o t) \in Nat
  <2> HIDE DEF a, b
  <2> QED BY <1>2
<1> QED BY <1>3, <1>4, <1>5

(* The first message of the queue is the first of all that wait.             *)
LEMMA FirstOfAll ==
    ASSUME NEW s \in Found, NEW t \in Found, s # <<>>
    PROVE  /\ s \o t # <<>> /\ Head(s \o t) = Head(s) /\ Tail(s \o t) = Tail(s) \o t
<1> DEFINE S == Seq(Bytes)
           w == s \o t
           a == Len(s)
           b == Len(t)
<1>1. s \in Seq(S) /\ t \in Seq(S)
  BY DEF Found
<1> HIDE DEF S
<1>2. /\ w \in Seq(S) /\ Len(w) = a + b /\ a \in Nat /\ b \in Nat
      /\ \A i \in 1..(a + b) : w[i] = IF i <= a THEN s[i] ELSE t[i - a]
  BY <1>1, ConcatProperties, LenProperties
<1>3. a >= 1 /\ 1 \in 0..a /\ Head(s) = s[1] /\ Tail(s) = Skip(s, 1)
  BY <1>1, HeadTail
<1>4. w # <<>>
  <2>1. Len(w) # 0
    <3> HIDE DEF a, b, w
    <3> QED BY <1>2, <1>3
  <2> QED BY <1>2, <2>1, SkipAll
<1>5. Head(w) = w[1] /\ Tail(w) = Skip(w, 1)
  <2> HIDE DEF w
  <2> QED BY <1>2, <1>4, HeadTail
<1>6. w[1] = s[1]
  <2>1. 1 \in 1..(a + b) /\ 1 <= a
    <3> HIDE DEF a, b
    <3> QED BY <1>2, <1>3
  <2> HIDE DEF a, b, w
  <2> QED BY <1>2, <2>1
<1>7. Skip(w, 1) = Skip(s, 1) \o t
  BY <1>1, <1>3, PartOfFirst
<1> HIDE DEF w
<1> QED BY <1>3, <1>4, <1>5, <1>6, <1>7 DEF w

(* The step is one of the channel of messages, or none.                      *)
Simulates == [Channel!MNext]_(Channel!mvars)

(* Reading a chunk moves complete frames from the wire to the queue, and     *)
(* gives up some messages only if the queue is too short for them.           *)
LEMMA ReadSimulates ==
    ASSUME TypeOK, ReadChunk
    PROVE  Simulates
<1>1. PICK n \in 0..Len(wire) :
         LET p == Process(msg_buf, SubSeq(wire, 1, n)) IN
         /\ wire' = Skip(wire, n) /\ msg_buf' = p.buf /\ q' = Enqueue(p.msgs)
  BY ReadTypes
<1> DEFINE p == Process(msg_buf, SubSeq(wire, 1, n))
           g == p.msgs
           r == Process(p.buf, Skip(wire, n)).msgs
           all == q \o g
           w == all \o r
           a == IF write_over THEN 0 ELSE depth
           c == a + (Len(all) - depth)
<1>2. read_open /\ UNCHANGED <<depth, received, read_open>>
  BY DEF ReadChunk
<1>3. wire' = Skip(wire, n) /\ msg_buf' = p.buf /\ q' = Enqueue(g)
  BY <1>1
<1>4. Process(msg_buf, wire).msgs = g \o r /\ g \in Found /\ r \in Found
  BY ChunkThenRest DEF TypeOK
<1>5. InTransit = g \o r /\ InTransit' = r
  <2>1. (Process(msg_buf, wire))' = Process(p.buf, Skip(wire, n))
    <3> HIDE DEF p
    <3> QED BY <1>3 DEF Process
  <2> HIDE DEF p
  <2> QED BY <1>2, <1>4, <2>1 DEF InTransit
<1>6. q \in Found /\ depth \in Nat \ {0}
  BY Sizes DEF TypeOK, Found
<1> HIDE DEF p, g, r
<1>7. q \o InTransit = w /\ (q \o InTransit)' = Enqueue(g) \o r /\ all \in Found /\ w \in Found
  <2>0. g \in Found /\ r \in Found
    BY <1>4
  <2>1. q \o (g \o r) = (q \o g) \o r /\ q \o g \in Found
    BY <1>6, <2>0, FoundAssociates
  <2>2. (q \o g) \o r \in Found
    <3> HIDE DEF all
    <3>1. all \in Found
      BY <2>1 DEF all
    <3>2. all \o r \in Found
      BY <2>0, <3>1, FoundAssociates
    <3> QED BY <3>2 DEF all
  <2> QED BY <1>3, <1>5, <2>1, <2>2
<1>8. /\ Len(all) <= depth => Enqueue(g) = all
      /\ Len(all) > depth =>
            /\ a \in Nat /\ c \in Nat /\ a <= c /\ c <= Len(all)
            /\ Enqueue(g) \o r = SubSeq(w, 1, a) \o Skip(w, c)
  BY <1>4, <1>6, EnqueueThins
<1> HIDE DEF all
<1>9. Len(all) \in Nat /\ Len(w) \in Nat /\ Len(all) <= Len(w)
  <2>1. all \in Found /\ r \in Found
    BY <1>4, <1>7
  <2>2. Len(all) \in 0..Len(all \o r) /\ Len(all \o r) \in Nat
    BY <2>1, FoundJoined
  <2> QED BY <2>2
<1>10. CASE Len(all) <= depth
  BY <1>2, <1>7, <1>8, <1>10 DEF Simulates, Channel!mvars
<1>11. CASE Len(all) > depth
  <2> DEFINE kept == Kept(a, c, Len(w))
             size == a + (Len(w) - c)
  <2>1. a \in Nat /\ c \in Nat /\ a <= c /\ c <= Len(w)
    <3> DEFINE l == Len(all)
               k == Len(w)
    <3>1. a \in Nat /\ c \in Nat /\ a <= c /\ c <= l /\ l \in Nat /\ k \in Nat /\ l <= k
      BY <1>8, <1>9, <1>11
    <3> HIDE DEF a, c, l, k
    <3>2. c <= k
      BY <3>1
    <3> QED BY <3>1, <3>2 DEF k
  <2>2. size = Len(w) - (Len(all) - depth)
    <3> DEFINE l == Len(all)
               k == Len(w)
    <3>1. l \in Nat /\ k \in Nat /\ depth \in Nat
      BY <1>6, <1>9
    <3> HIDE DEF l, k, w
    <3>2. a + (k - (a + (l - depth))) = k - (l - depth)
      BY <1>6, <3>1
    <3> QED BY <3>2 DEF l, k
  <2>3. depth <= size /\ size < Len(w)
    <3> DEFINE l == Len(all)
               k == Len(w)
    <3>1. l \in Nat /\ k \in Nat /\ l <= k /\ l > depth /\ size = k - (l - depth)
      BY <1>9, <1>11, <2>2
    <3> HIDE DEF l, k, size
    <3>2. depth <= size /\ size < k
      BY <1>6, <3>1
    <3> QED BY <3>2 DEF k
  <2> HIDE DEF a, c, w
  <2>4. w \in Seq(Seq(Bytes))
    BY <1>7 DEF Found
  <2>5. /\ kept \in SUBSET DOMAIN w
        /\ Channel!Cardinality(kept) = size
        /\ Channel!Thin(w, kept) = SubSeq(w, 1, a) \o Skip(w, c)
    BY <2>1, <2>4, ThinIs
  <2>6. (q \o InTransit)' = Channel!Thin(w, kept)
    BY <1>7, <1>8, <1>11, <2>5
  <2> HIDE DEF kept, size
  <2>7. /\ kept \in SUBSET DOMAIN (q \o InTransit)
        /\ depth <= Channel!Cardinality(kept)
        /\ Channel!Cardinality(kept) < Len(q \o InTransit)
        /\ (q \o InTransit)' = Channel!Thin(q \o InTransit, kept)
    BY <1>7, <2>3, <2>5, <2>6
  <2>8. Channel!Overflow
    BY <1>2, <2>7 DEF Channel!Overflow
  <2> QED BY <2>8 DEF Simulates, Channel!MNext
<1> QED BY <1>6, <1>9, <1>10, <1>11

(* A write adds the messages of what it wrote, if anybody still reads.       *)
LEMMA WriteSimulates ==
    ASSUME TypeOK, Clean, write_open, NEW x \in Seq(Bytes), wire' = wire \o x,
           UNCHANGED <<msg_buf, read_open, q, depth, received>>
    PROVE  /\ Process(<<>>, x).msgs = <<>> => Simulates
           /\ \A m \in Msgs : Process(<<>>, x).msgs = <<m>> => Simulates
<1> DEFINE t == InTransit
           g == Process(<<>>, x).msgs
<1>1. t \in Found /\ q \in Found
  BY InTransitType
<1>2. InTransit' = IF read_open THEN t \o g ELSE t
  BY InTransitGrows
<1> HIDE DEF t, g
<1>3. (q \o InTransit)' = IF read_open THEN q \o (t \o g) ELSE q \o t
  BY <1>2
<1>4. q \o InTransit = q \o t
  BY DEF t
<1>5. ASSUME (q \o InTransit)' = q \o InTransit PROVE Simulates
  BY <1>5 DEF Simulates, Channel!mvars
<1>6. ASSUME g = <<>> PROVE Simulates
  <2>1. t \o g = t
    BY <1>1, <1>6, FoundJoined
  <2> QED BY <1>3, <1>4, <1>5, <2>1
<1>7. ASSUME NEW m \in Msgs, g = <<m>> PROVE Simulates
  <2>1. CASE ~read_open
    BY <1>3, <1>4, <1>5, <2>1
  <2>2. CASE read_open
    <3> DEFINE w == q \o t
               ms == <<m>>
    <3>1. ms \in Found
      BY Sizes DEF Found
    <3>2. w \in Found
      BY <1>1, FoundAssociates
    <3>3. w \o ms = Append(w, m)
      <4>1. w \in Seq(Seq(Bytes)) /\ m \in Seq(Bytes)
        BY <3>2, Sizes DEF Found
      <4> HIDE DEF w
      <4>2. Append(w, m) = w \o <<m>>
        BY <4>1, AppendIsConcat
      <4> QED BY <4>2
    <3>4. q \o (t \o ms) = w \o ms
      <4> HIDE DEF ms
      <4> QED BY <1>1, <3>1, FoundAssociates
    <3>5. g = ms
      BY <1>7
    <3> HIDE DEF w, ms
    <3>6. (q \o InTransit)' = Append(w, m)
      BY <1>3, <2>2, <3>3, <3>4, <3>5
    <3>7. (q \o InTransit)' = Append(q \o InTransit, m)
      BY <1>4, <3>6 DEF w
    <3>8. Channel!MSend(m)
      BY <2>2, <3>7 DEF Channel!MSend
    <3> QED BY <3>8 DEF Simulates, Channel!MNext
  <2> QED BY <2>1, <2>2
<1> QED BY <1>6, <1>7 DEF g

LEMMA ReceiveSimulates ==
    ASSUME TypeOK, NEW len \in BufLens, Receive(len)
    PROVE  Simulates
<1> DEFINE t == InTransit
<1>1. t \in Found /\ q \in Found
  BY InTransitType
<1>2. UNCHANGED <<depth, read_open, wire, msg_buf>>
  BY DEF Receive
<1>3. InTransit' = t
  BY <1>2, InTransitSame
<1> HIDE DEF t
<1>4. CASE UNCHANGED <<q, received>>
  <2>1. (q \o InTransit)' = q \o InTransit
    BY <1>3, <1>4 DEF t
  <2> QED BY <1>2, <1>4, <2>1 DEF Simulates, Channel!mvars
<1>5. CASE q # <<>> /\ received' = Append(received, Head(q)) /\ q' = Tail(q)
  <2>1. q \o t # <<>> /\ Head(q \o t) = Head(q) /\ Tail(q \o t) = Tail(q) \o t
    BY <1>1, <1>5, FirstOfAll
  <2>2. (q \o InTransit)' = Tail(q) \o t
    BY <1>3, <1>5
  <2>3. /\ q \o InTransit # <<>> /\ (q \o InTransit)' = Tail(q \o InTransit)
        /\ received' = Append(received, Head(q \o InTransit))
    BY <1>5, <2>1, <2>2 DEF t
  <2>4. Channel!MReceive
    BY <1>2, <2>3 DEF Channel!MReceive
  <2> QED BY <2>4 DEF Simulates, Channel!MNext
<1> QED BY <1>4, <1>5 DEF Receive

LEMMA EndSimulates ==
    ASSUME TypeOK, NEW failed \in BOOLEAN, ReadEnd(failed)
    PROVE  Simulates
<1> DEFINE w == q \o InTransit
<1>1. read_open /\ read_open' = FALSE /\ UNCHANGED <<depth, received, q>>
  BY DEF ReadEnd
<1>2. InTransit \in Found /\ q \in Found
  BY InTransitType
<1>3. Len(q) \in 0..Len(w) /\ SubSeq(w, 1, Len(q)) = q /\ q \o <<>> = q
  BY <1>2, FoundJoined
<1>4. InTransit' = <<>>
  BY <1>1 DEF InTransit
<1>5. w' = SubSeq(w, 1, Len(q))
  BY <1>1, <1>3, <1>4
<1>6. \E n \in 0..Len(w) : w' = SubSeq(w, 1, n)
  <2> HIDE DEF w
  <2> QED BY <1>3, <1>5
<1>7. Channel!Break
  BY <1>1, <1>6 DEF Channel!Break
<1> QED BY <1>7 DEF Simulates, Channel!MNext

(* To the programs at its two ends the pair of descriptors is a channel of   *)
(* whole messages: what is sent is received in order and unchanged, whatever *)
(* bytes the messages hold, wherever reads cut the stream and although a     *)
(* write may be cut and others write too; and messages are lost only when    *)
(* more than queue_depth wait or the descriptor is closed                    *)
(* (channel_fd.c:128-290, 359-386).                                          *)
THEOREM Implements ==
    ASSUME LengthFits, Harmless
    PROVE  Spec => ImplementsChannel
<1>1. Init => Channel!MInit
  <2> SUFFICES ASSUME Init PROVE Channel!MInit
    OBVIOUS
  <2>1. depth \in Nat \ {0} /\ received = <<>> /\ read_open = TRUE /\ q = <<>>
    BY Sizes DEF Init
  <2>2. InTransit = <<>>
    BY ProcessNothing DEF Init, InTransit
  <2>3. q \o InTransit = <<>>
    BY <2>1, <2>2
  <2> QED BY <2>1, <2>3 DEF Channel!MInit
<1>2. TypeOK /\ Clean /\ [Next]_vars => [Channel!MNext]_(Channel!mvars)
  <2> SUFFICES ASSUME TypeOK, Clean, [Next]_vars PROVE Simulates
    BY DEF Simulates
  <2>0. ASSUME UNCHANGED <<wire, msg_buf, read_open, q, depth, received>> PROVE Simulates
    <3>1. (q \o InTransit)' = q \o InTransit
      BY <2>0, InTransitSame
    <3> QED BY <2>0, <3>1 DEF Simulates, Channel!mvars
  <2>1. ASSUME NEW m \in Msgs, Send(m) PROVE Simulates
    <3>1. m \in Seq(Bytes) /\ Len(m) \in 1..MaxMsgSize
      BY <2>1, Sizes DEF Send
    <3>2. Frame(m) \in Seq(Bytes) /\ Process(<<>>, Frame(m)).msgs = <<m>>
      BY <3>1, FrameIs, FrameRead
    <3>3. /\ write_open /\ wire' = wire \o Frame(m)
          /\ UNCHANGED <<msg_buf, read_open, q, depth, received>>
      BY <2>1 DEF Send, reader
    <3> QED BY <3>2, <3>3, WriteSimulates
  <2>2. ASSUME NEW m \in Msgs, SendCut(m) PROVE Simulates
    <3>1. m \in Seq(Bytes) /\ Len(m) \in 1..MaxMsgSize
      BY <2>2, Sizes DEF SendCut
    <3>2. PICK n \in 0..(FrameSize(Len(m)) - 1) : wire' = wire \o SubSeq(Frame(m), 1, n)
      BY <2>2 DEF SendCut
    <3> DEFINE x == SubSeq(Frame(m), 1, n)
    <3>3. x \in Seq(Bytes) /\ Process(<<>>, x).msgs = <<>>
      <4>1. Frame(m) \in Seq(Bytes) /\ Len(Frame(m)) = FrameSize(Len(m)) /\ Len(m) \in Nat
        BY <3>1, FrameIs
      <4>2. n \in 0..Len(Frame(m))
        <5>1. FrameSize(Len(m)) \in Nat
          BY <4>1, LenProperties
        <5> QED BY <4>1, <5>1
      <4> QED BY <3>1, <4>1, <4>2, SkipPart, FrameCut
    <3>4. /\ write_open /\ wire' = wire \o x
          /\ UNCHANGED <<msg_buf, read_open, q, depth, received>>
      BY <2>2, <3>2 DEF SendCut, reader
    <3> HIDE DEF x
    <3> QED BY <3>3, <3>4, WriteSimulates
  <2>3. ASSUME NEW bytes \in Junk, WriteJunk(bytes) PROVE Simulates
    <3>1. bytes \in Seq(Bytes) /\ Process(<<>>, bytes).msgs = <<>>
      BY Sizes DEF Harmless
    <3>2. /\ write_open /\ wire' = wire \o bytes
          /\ UNCHANGED <<msg_buf, read_open, q, depth, received>>
      BY <2>3 DEF WriteJunk, reader
    <3> QED BY <3>1, <3>2, WriteSimulates
  <2>4. CASE Hangup
    BY <2>0, <2>4 DEF Hangup, reader
  <2>5. CASE ReadChunk
    BY <2>5, ReadSimulates
  <2>6. CASE ReadWouldBlock
    BY <2>0, <2>6 DEF ReadWouldBlock
  <2>7. ASSUME NEW failed \in BOOLEAN, ReadEnd(failed) PROVE Simulates
    BY <2>7, EndSimulates
  <2>8. ASSUME NEW len \in BufLens, Receive(len) PROVE Simulates
    BY <2>8, ReceiveSimulates
  <2>9. CASE UNCHANGED vars
    BY <2>0, <2>9 DEF vars
  <2> QED BY <2>1, <2>2, <2>3, <2>4, <2>5, <2>6, <2>7, <2>8, <2>9 DEF Next
<1>3. Spec => []Clean
  <2>1. Init => Clean
    BY CleanKept
  <2>2. TypeOK /\ Clean /\ [Next]_vars => Clean'
    BY CleanKept
  <2> QED BY <2>1, <2>2, TypeCorrect, PTL DEF Spec
<1> QED BY <1>1, <1>2, <1>3, TypeCorrect, PTL DEF Spec, ImplementsChannel, Channel!MSpec
=============================================================================
