--------------------------- MODULE CallBytesProofs --------------------------
(***************************************************************************)
(* Proofs about CallBytes, for types and values of any depth and messages  *)
(* of any bytes: nothing is written behind the end of a buffer; what is    *)
(* parsed is freed again, whatever part of it could not be parsed; what is *)
(* written is read back; and a call returns what it should.                *)
(***************************************************************************)
EXTENDS CallBytes, FiniteSetTheorems, SequenceTheorems, WellFoundedInduction, TLAPS

-----------------------------------------------------------------------------
(* Induction.  What holds of a number when it holds of all smaller ones     *)
(* holds of every number.                                                   *)
LEMMA StrongInduction ==
    ASSUME NEW G, \A n \in Nat : (\A m \in 0..(n - 1) : m \in G) => n \in G
    PROVE  Nat \subseteq G
<1> SUFFICES ASSUME Nat \ G # {} PROVE FALSE
  OBVIOUS
<1> DEFINE R == OpToRel(<, Nat)
<1>1. \A i, j \in Nat : j < i => <<j, i>> \in R
  BY DEF OpToRel
<1>2. IsWellFoundedOn(R, Nat)
  BY NatLessThanWellFounded
<1> HIDE DEF R
<1>3. PICK n \in Nat \ G : \A m \in Nat \ G : ~(<<m, n>> \in R)
  <2>1. Nat \ G \subseteq Nat
    OBVIOUS
  <2>2. \E n \in Nat \ G : \A m \in Nat \ G : ~(<<m, n>> \in R)
    BY <1>2, <2>1, WFMin
  <2> QED BY <2>2
<1>4. ASSUME NEW m \in 0..(n - 1) PROVE m \in G
  <2>1. m \in Nat /\ m < n
    OBVIOUS
  <2>2. <<m, n>> \in R
    BY <1>1, <2>1
  <2> QED BY <1>3, <2>1, <2>2
<1> QED BY <1>3, <1>4

(* The same, one number after the other, up to a bound.                     *)
LEMMA Induction ==
    ASSUME NEW N \in Nat, NEW G, 0 \in G, \A n \in 0..(N - 1) : n \in G => n + 1 \in G
    PROVE  \A n \in 0..N : n \in G
<1> DEFINE H == {n \in Nat : n <= N => n \in G}
<1>1. ASSUME NEW n \in Nat, \A m \in 0..(n - 1) : m \in H PROVE n \in H
  <2> SUFFICES ASSUME n <= N, n # 0 PROVE n \in G
    OBVIOUS
  <2>1. n - 1 \in 0..(n - 1) /\ n - 1 \in 0..(N - 1) /\ n - 1 <= N /\ (n - 1) + 1 = n
    OBVIOUS
  <2>2. n - 1 \in G
    BY <1>1, <2>1
  <2> QED BY <2>1, <2>2
<1>2. Nat \subseteq H
  <2> HIDE DEF H
  <2> QED BY <1>1, StrongInduction
<1> QED BY <1>2

-----------------------------------------------------------------------------
(* Sums.                                                                    *)
LEMMA SumExists ==
    ASSUME NEW s, NEW N \in Nat
    PROVE  \E f : f = [i \in 0..N |-> IF i = 0 THEN 0 ELSE f[i - 1] + s[i]]
<1> DEFINE Solves(f, n) == f = [i \in 0..n |-> IF i = 0 THEN 0 ELSE f[i - 1] + s[i]]
           G == {n \in Nat : \E f : Solves(f, n)}
<1>1. 0 \in G
  <2>1. Solves([i \in 0..0 |-> 0], 0)
    OBVIOUS
  <2> HIDE DEF Solves
  <2> QED BY <2>1
<1>2. ASSUME NEW n \in Nat, n \in G PROVE n + 1 \in G
  <2>1. PICK f : Solves(f, n)
    BY <1>2
  <2> DEFINE g == [i \in 0..(n + 1) |-> IF i = 0 THEN 0 ELSE f[i - 1] + s[i]]
  <2>2. \A i \in 0..n : i \in 0..(n + 1) /\ g[i] = f[i]
    BY <2>1
  <2>3. \A i \in 0..(n + 1) : i # 0 => i - 1 \in 0..n
    OBVIOUS
  <2>4. \A i \in 0..(n + 1) : g[i] = IF i = 0 THEN 0 ELSE f[i - 1] + s[i]
    OBVIOUS
  <2>5. g = [i \in 0..(n + 1) |-> g[i]]
    OBVIOUS
  <2> HIDE DEF g
  <2>6. \A i \in 0..(n + 1) : g[i] = IF i = 0 THEN 0 ELSE g[i - 1] + s[i]
    BY <2>2, <2>3, <2>4
  <2>7. Solves(g, n + 1)
    BY <2>5, <2>6
  <2> HIDE DEF Solves
  <2> QED BY <2>7
<1>3. N \in G
  <2> HIDE DEF G
  <2> QED BY <1>1, <1>2, Induction
<1> QED BY <1>3

(* What is summed has a running total.                                      *)
IsTotal(f, s, n) == f[0] = 0 /\ \A i \in 1..n : f[i] = f[i - 1] + s[i]

LEMMA SumIs ==
    ASSUME NEW s, NEW n \in Nat, Len(s) = n
    PROVE  \E f : IsTotal(f, s, n) /\ Sum(s) = f[n]
<1> DEFINE Whole(f) == f = [i \in 0..n |-> IF i = 0 THEN 0 ELSE f[i - 1] + s[i]]
           F == CHOOSE f : Whole(f)
<1>1. Sum(s) = F[n]
  BY DEF Sum
<1>2. Whole(F)
  <2>1. \E f : Whole(f)
    BY SumExists
  <2> HIDE DEF Whole
  <2> QED BY <2>1
<1> HIDE DEF F
<1>3. IsTotal(F, s, n)
  BY <1>2 DEF IsTotal
<1> QED BY <1>1, <1>3

(* The length of a function that counts from 1.                             *)
LEMMA LenOf ==
    ASSUME NEW n \in Nat, NEW f, DOMAIN f = 1..n, f = [i \in DOMAIN f |-> f[i]]
    PROVE  Len(f) = n /\ \A S : (\A i \in 1..n : f[i] \in S) => f \in Seq(S)
<1>1. f \in [1..n -> {f[i] : i \in 1..n}]
  OBVIOUS
<1>2. Len(f) = n
  BY <1>1, IsASeq, LenProperties
<1>3. ASSUME NEW S, \A i \in 1..n : f[i] \in S PROVE f \in Seq(S)
  BY <1>3, IsASeq
<1> QED BY <1>2, <1>3

LEMMA SumEmpty == Sum(<<>>) = 0
<1>1. Len(<<>>) = 0
  BY EmptySeq
<1>2. \E f : IsTotal(f, <<>>, 0) /\ Sum(<<>>) = f[0]
  BY <1>1, SumIs
<1> QED BY <1>2 DEF IsTotal

LEMMA TotalType ==
    ASSUME NEW n \in Nat, NEW s, NEW f, IsTotal(f, s, n), \A i \in 1..n : s[i] \in Int
    PROVE  \A i \in 0..n : f[i] \in Int
<1> DEFINE G == {i \in Nat : i <= n => f[i] \in Int}
<1>1. 0 \in G
  BY DEF IsTotal
<1>2. ASSUME NEW i \in 0..(n - 1), i \in G PROVE i + 1 \in G
  <2>1. f[i + 1] = f[i] + s[i + 1]
    <3>1. i + 1 \in 1..n /\ (i + 1) - 1 = i
      OBVIOUS
    <3> QED BY <3>1 DEF IsTotal
  <2>2. s[i + 1] \in Int /\ f[i] \in Int
    BY <1>2
  <2> QED BY <2>1, <2>2
<1>3. \A i \in 0..n : i \in G
  <2> HIDE DEF G
  <2> QED BY <1>1, <1>2, Induction
<1> QED BY <1>3

LEMMA SumType ==
    ASSUME NEW n \in Nat, NEW s, Len(s) = n, \A i \in 1..n : s[i] \in Int
    PROVE  Sum(s) \in Int
<1>1. PICK f : IsTotal(f, s, n) /\ Sum(s) = f[n]
  BY SumIs
<1>2. \A i \in 0..n : f[i] \in Int
  BY <1>1, TotalType
<1> QED BY <1>1, <1>2

(* One item more.                                                           *)
LEMMA SumNext ==
    ASSUME NEW n \in Nat, NEW s, NEW t, Len(s) = n, Len(t) = n + 1,
           \A i \in 1..n : s[i] \in Int /\ t[i] = s[i]
    PROVE  Sum(t) = Sum(s) + t[n + 1]
<1>1. PICK f : IsTotal(f, s, n) /\ Sum(s) = f[n]
  BY SumIs
<1>2. PICK g : IsTotal(g, t, n + 1) /\ Sum(t) = g[n + 1]
  BY SumIs
<1>3. \A i \in 0..n : f[i] = g[i]
  <2> DEFINE G == {i \in Nat : i <= n => f[i] = g[i]}
  <2>1. 0 \in G
    BY <1>1, <1>2 DEF IsTotal
  <2>2. ASSUME NEW i \in 0..(n - 1), i \in G PROVE i + 1 \in G
    <3>1. i + 1 \in 1..n /\ i + 1 \in 1..(n + 1) /\ (i + 1) - 1 = i /\ f[i] = g[i]
      BY <2>2
    <3>2. f[i + 1] = f[i] + s[i + 1] /\ g[i + 1] = g[i] + t[i + 1] /\ t[i + 1] = s[i + 1]
      BY <1>1, <1>2, <3>1 DEF IsTotal
    <3> QED BY <3>1, <3>2
  <2>3. \A i \in 0..n : i \in G
    <3> HIDE DEF G
    <3> QED BY <2>1, <2>2, Induction
  <2> QED BY <2>3
<1>4. g[n + 1] = g[n] + t[n + 1]
  <2>1. n + 1 \in 1..(n + 1) /\ (n + 1) - 1 = n
    OBVIOUS
  <2> QED BY <1>2, <2>1 DEF IsTotal
<1> QED BY <1>1, <1>2, <1>3, <1>4

(* The items of a sequence, each with its own measure.                      *)
LEMMA SumAppend ==
    ASSUME NEW S, NEW v \in Seq(S), NEW x \in S, NEW F,
           \A i \in 1..Len(v) : F[i][v[i]] \in Int
    PROVE  Sum([i \in DOMAIN Append(v, x) |-> F[i][Append(v, x)[i]]])
             = Sum([i \in DOMAIN v |-> F[i][v[i]]]) + F[Len(v) + 1][x]
<1> DEFINE n == Len(v)
           w == Append(v, x)
           s == [i \in DOMAIN v |-> F[i][v[i]]]
           t == [i \in DOMAIN w |-> F[i][w[i]]]
<1>1. n \in Nat /\ DOMAIN v = 1..n /\ DOMAIN w = 1..(n + 1) /\ w[n + 1] = x
      /\ \A i \in 1..n : w[i] = v[i]
  BY AppendProperties, LenProperties
<1>2. \A i \in 1..n : F[i][v[i]] \in Int
  OBVIOUS
<1> HIDE DEF n, w
<1>3. DOMAIN s = 1..n /\ DOMAIN t = 1..(n + 1) /\ t[n + 1] = F[n + 1][x]
  BY <1>1
<1>4. \A i \in 1..n : s[i] \in Int /\ t[i] = s[i]
  BY <1>1, <1>2
<1>5. s = [i \in DOMAIN s |-> s[i]] /\ t = [i \in DOMAIN t |-> t[i]]
  OBVIOUS
<1> HIDE DEF s, t
<1>6. Len(s) = n /\ Len(t) = n + 1
  BY <1>1, <1>3, <1>5, LenOf
<1>7. Sum(t) = Sum(s) + F[n + 1][x]
  BY <1>1, <1>3, <1>4, <1>6, SumNext
<1> QED BY <1>7 DEF n, w, s, t

-----------------------------------------------------------------------------
(* Types.  Below(d) are the types that are less than d deep.                *)
Basic == [tid : 0..STRING_TID]
Around(ts) ==
    Basic \cup [tid : {ARRAY_TID}, cell : ts]
          \cup [tid : {STRUCT_TID}, fields : {s \in Seq(ts) : Len(s) \in 1..MaxFields}]
Below(d) == IF d = 0 THEN {} ELSE TypesUpTo[d - 1]

LEMMA MaxSizeType == MaxSize \in Nat /\ MaxSize + 1 \in Nat
BY Bounds

LEMMA TypesUpToExists ==
    ASSUME NEW N \in Nat
    PROVE  \E f : f = [i \in 0..N |-> IF i = 0 THEN Basic ELSE Around(f[i - 1])]
<1> DEFINE Solves(f, n) == f = [i \in 0..n |-> IF i = 0 THEN Basic ELSE Around(f[i - 1])]
           G == {n \in Nat : \E f : Solves(f, n)}
<1>1. 0 \in G
  <2>1. Solves([i \in 0..0 |-> Basic], 0)
    OBVIOUS
  <2> HIDE DEF Solves
  <2> QED BY <2>1
<1>2. ASSUME NEW n \in Nat, n \in G PROVE n + 1 \in G
  <2>1. PICK f : Solves(f, n)
    BY <1>2
  <2> DEFINE g == [i \in 0..(n + 1) |-> IF i = 0 THEN Basic ELSE Around(f[i - 1])]
  <2>2. \A i \in 0..n : i \in 0..(n + 1) /\ g[i] = f[i]
    BY <2>1
  <2>3. \A i \in 0..(n + 1) : i # 0 => i - 1 \in 0..n
    OBVIOUS
  <2>4. \A i \in 0..(n + 1) : g[i] = IF i = 0 THEN Basic ELSE Around(f[i - 1])
    OBVIOUS
  <2>5. g = [i \in 0..(n + 1) |-> g[i]]
    OBVIOUS
  <2> HIDE DEF g
  <2>6. \A i \in 0..(n + 1) : g[i] = IF i = 0 THEN Basic ELSE Around(g[i - 1])
    BY <2>2, <2>3, <2>4
  <2>7. Solves(g, n + 1)
    BY <2>5, <2>6
  <2> HIDE DEF Solves
  <2> QED BY <2>7
<1>3. N \in G
  <2> HIDE DEF G
  <2> QED BY <1>1, <1>2, Induction
<1> QED BY <1>3

LEMMA TypesUpToUnfold ==
    \A d \in 0..MaxSize : TypesUpTo[d] = IF d = 0 THEN Basic ELSE Around(TypesUpTo[d - 1])
<1> DEFINE Whole(f) == f = [d \in 0..MaxSize |-> IF d = 0 THEN Basic ELSE Around(f[d - 1])]
<1>1. TypesUpTo = CHOOSE f : Whole(f)
  BY DEF TypesUpTo, Basic, Around
<1>2. Whole(TypesUpTo)
  <2>1. \E f : Whole(f)
    BY TypesUpToExists, MaxSizeType
  <2> HIDE DEF Whole
  <2> QED BY <1>1, <2>1
<1> QED BY <1>2

(* What a type with cells or fields in ts looks like.                       *)
Shape(t, ts) ==
    \/ t.tid \in 0..STRING_TID
    \/ t.tid = ARRAY_TID /\ t.cell \in ts
    \/ t.tid = STRUCT_TID /\ t.fields \in Seq(ts) /\ Len(t.fields) \in 1..MaxFields

LEMMA AroundShape == \A ts : \A t \in Around(ts) : Shape(t, ts)
<1> SUFFICES ASSUME NEW ts, NEW t \in Around(ts) PROVE Shape(t, ts)
  OBVIOUS
<1>1. CASE t \in Basic
  BY <1>1 DEF Basic, Shape
<1>2. CASE t \in [tid : {ARRAY_TID}, cell : ts]
  BY <1>2 DEF Shape
<1>3. CASE t \in [tid : {STRUCT_TID}, fields : {s \in Seq(ts) : Len(s) \in 1..MaxFields}]
  BY <1>3 DEF Shape
<1> QED BY <1>1, <1>2, <1>3 DEF Around

LEMMA SeqGrows == \A S, T : S \subseteq T => Seq(S) \subseteq Seq(T)
<1> SUFFICES ASSUME NEW S, NEW T, S \subseteq T, NEW s \in Seq(S) PROVE s \in Seq(T)
  OBVIOUS
<1>1. Len(s) \in Nat /\ s \in [1..Len(s) -> S]
  BY LenProperties
<1>2. s \in [1..Len(s) -> T]
  BY <1>1
<1> QED BY <1>1, <1>2, IsASeq

LEMMA AroundGrows == \A S, T : S \subseteq T => Around(S) \subseteq Around(T)
BY SeqGrows DEF Around

LEMMA AroundNothing == Around({}) = Basic
<1>1. ASSUME NEW s \in Seq({}), Len(s) \in 1..MaxFields PROVE FALSE
  <2>1. s[1] \in {}
    <3>1. 1 \in 1..Len(s)
      BY <1>1, Bounds
    <3> QED BY <3>1, ElementOfSeq
  <2> QED BY <2>1
<1> QED BY <1>1 DEF Around

LEMMA BelowNext == \A d \in 0..MaxSize : Below(d + 1) = Around(Below(d))
<1> SUFFICES ASSUME NEW d \in 0..MaxSize PROVE Below(d + 1) = Around(Below(d))
  OBVIOUS
<1>1. d + 1 # 0 /\ (d + 1) - 1 = d
  BY MaxSizeType
<1>2. Below(d + 1) = TypesUpTo[d]
  BY <1>1 DEF Below
<1>3. TypesUpTo[d] = IF d = 0 THEN Basic ELSE Around(TypesUpTo[d - 1])
  BY TypesUpToUnfold
<1> QED BY <1>2, <1>3, AroundNothing DEF Below

LEMMA BelowGrows == \A d \in 0..MaxSize : Below(d) \subseteq Below(d + 1)
<1> DEFINE G == {d \in Nat : d <= MaxSize => Below(d) \subseteq Below(d + 1)}
<1>1. 0 \in G
  BY DEF Below
<1>2. ASSUME NEW d \in 0..(MaxSize - 1), d \in G PROVE d + 1 \in G
  <2>1. d \in 0..MaxSize /\ d + 1 \in 0..MaxSize /\ d <= MaxSize
    BY MaxSizeType
  <2>2. Below(d) \subseteq Below(d + 1)
    BY <1>2, <2>1
  <2>3. Below(d + 1) = Around(Below(d)) /\ Below((d + 1) + 1) = Around(Below(d + 1))
    BY <2>1, BelowNext
  <2>4. Around(Below(d)) \subseteq Around(Below(d + 1))
    BY <2>2, AroundGrows
  <2>5. Below(d + 1) \subseteq Below((d + 1) + 1)
    BY <2>3, <2>4
  <2> HIDE DEF Below
  <2> QED BY <2>1, <2>5
<1>3. \A d \in 0..MaxSize : d \in G
  <2> HIDE DEF G
  <2> QED BY <1>1, <1>2, MaxSizeType, Induction
<1> QED BY <1>3, MaxSizeType

LEMMA BelowAll == Types = Below(MaxSize + 1) /\ \A d \in 0..(MaxSize + 1) : Below(d) \subseteq Types
<1>1. Types = Below(MaxSize + 1)
  <2>1. MaxSize + 1 # 0 /\ (MaxSize + 1) - 1 = MaxSize
    BY MaxSizeType
  <2> QED BY <2>1 DEF Types, Below
<1> DEFINE G == {n \in Nat : n <= MaxSize + 1 => Below(MaxSize + 1 - n) \subseteq Types}
<1>2. 0 \in G
  <2>1. MaxSize + 1 - 0 = MaxSize + 1
    BY MaxSizeType
  <2> QED BY <1>1, <2>1
<1>3. ASSUME NEW n \in 0..MaxSize, n \in G PROVE n + 1 \in G
  <2> DEFINE d == MaxSize - n
  <2>1. d \in 0..MaxSize /\ MaxSize + 1 - n = d + 1 /\ MaxSize + 1 - (n + 1) = d
        /\ n <= MaxSize + 1 /\ n + 1 \in Nat
    BY MaxSizeType
  <2>2. Below(d + 1) \subseteq Types
    BY <1>3, <2>1
  <2>3. Below(d) \subseteq Below(d + 1)
    BY <2>1, BelowGrows
  <2> QED BY <2>1, <2>2, <2>3
<1>4. \A n \in 0..(MaxSize + 1) : n \in G
  <2>1. MaxSize = (MaxSize + 1) - 1
    BY MaxSizeType
  <2> HIDE DEF G
  <2> QED BY <1>2, <1>3, <2>1, MaxSizeType, Induction
<1>5. ASSUME NEW d \in 0..(MaxSize + 1) PROVE Below(d) \subseteq Types
  <2>1. MaxSize + 1 - d \in 0..(MaxSize + 1) /\ MaxSize + 1 - (MaxSize + 1 - d) = d
        /\ MaxSize + 1 - d <= MaxSize + 1
    BY MaxSizeType
  <2> QED BY <1>4, <2>1
<1> QED BY <1>1, <1>5

(* The types in a type, which are less deep.                                *)
Members(t) ==
    IF IsPrimitive(t) THEN {}
    ELSE IF t.tid = ARRAY_TID THEN {t.cell}
    ELSE {t.fields[i] : i \in DOMAIN t.fields}

LEMMA ShapeMembers == \A ts, t : Shape(t, ts) => Members(t) \subseteq ts
<1> SUFFICES ASSUME NEW ts, NEW t, Shape(t, ts), NEW m \in Members(t) PROVE m \in ts
  OBVIOUS
<1>1. CASE t.tid \in 0..STRING_TID
  BY <1>1 DEF Members, IsPrimitive, STRING_TID
<1>2. CASE t.tid = ARRAY_TID /\ t.cell \in ts
  BY <1>2 DEF Members, IsPrimitive, STRING_TID, ARRAY_TID
<1>3. CASE t.tid = STRUCT_TID /\ t.fields \in Seq(ts)
  <2>1. \A i \in DOMAIN t.fields : t.fields[i] \in ts
    BY <1>3, ElementOfSeq, LenProperties
  <2> QED BY <1>3, <2>1 DEF Members, IsPrimitive, STRING_TID, ARRAY_TID, STRUCT_TID
<1> QED BY <1>1, <1>2, <1>3 DEF Shape

LEMMA MembersBelow == \A d \in 0..MaxSize : \A t \in Below(d + 1) : Members(t) \subseteq Below(d)
BY BelowNext, AroundShape, ShapeMembers

LEMMA TypeShape == \A t \in Types : Shape(t, Types)
<1> SUFFICES ASSUME NEW t \in Types PROVE Shape(t, Types)
  OBVIOUS
<1>1. t \in Around(Below(MaxSize))
  BY BelowAll, BelowNext, MaxSizeType
<1>2. Below(MaxSize) \subseteq Types
  BY BelowAll, MaxSizeType
<1>3. t \in Around(Types)
  BY <1>1, <1>2, AroundGrows
<1> QED BY <1>3, AroundShape

(* What holds of a type when it holds of the types in it holds of every     *)
(* type.                                                                    *)
LEMMA TypeInduction ==
    ASSUME NEW G, \A t \in Types : Members(t) \subseteq G => t \in G
    PROVE  Types \subseteq G
<1> DEFINE H == {d \in Nat : d <= MaxSize + 1 => Below(d) \subseteq G}
<1>1. 0 \in H
  BY DEF Below
<1>2. ASSUME NEW d \in 0..MaxSize, d \in H PROVE d + 1 \in H
  <2>1. d <= MaxSize + 1 /\ d + 1 \in 0..(MaxSize + 1) /\ d + 1 \in Nat
    BY MaxSizeType
  <2>2. Below(d) \subseteq G
    BY <1>2, <2>1
  <2>3. ASSUME NEW t \in Below(d + 1) PROVE t \in G
    <3>1. t \in Types
      BY <2>1, BelowAll
    <3>2. Members(t) \subseteq G
      BY <2>2, MembersBelow
    <3> QED BY <3>1, <3>2
  <2> QED BY <2>1, <2>3
<1>3. \A d \in 0..(MaxSize + 1) : d \in H
  <2>1. MaxSize = (MaxSize + 1) - 1
    BY MaxSizeType
  <2> HIDE DEF H
  <2> QED BY <1>1, <1>2, <2>1, MaxSizeType, Induction
<1>4. MaxSize + 1 \in 0..(MaxSize + 1) /\ MaxSize + 1 <= MaxSize + 1
  BY MaxSizeType
<1> QED BY <1>3, <1>4, BelowAll

-----------------------------------------------------------------------------
(* What recurses over types does so on the types in them, and has a         *)
(* solution: the one for types of some depth gives the next one.            *)
LEMMA FieldsAgree ==
    ASSUME NEW t \in Types, t.tid = STRUCT_TID, NEW f, NEW g, \A m \in Members(t) : f[m] = g[m]
    PROVE  [i \in DOMAIN t.fields |-> f[t.fields[i]]] = [i \in DOMAIN t.fields |-> g[t.fields[i]]]
<1>1. \A i \in DOMAIN t.fields : t.fields[i] \in Members(t)
  BY DEF Members, IsPrimitive, STRING_TID, ARRAY_TID, STRUCT_TID
<1> QED BY <1>1

LEMMA CellAgrees ==
    ASSUME NEW t \in Types, t.tid = ARRAY_TID, NEW f, NEW g, \A m \in Members(t) : f[m] = g[m]
    PROVE  f[t.cell] = g[t.cell]
BY DEF Members, IsPrimitive, STRING_TID, ARRAY_TID

LEMMA TypeCases ==
    \A t \in Types : IF IsPrimitive(t) THEN t.tid \in 0..STRING_TID
                     ELSE \/ t.tid = ARRAY_TID /\ t.cell \in Types
                          \/ /\ t.tid = STRUCT_TID /\ t.tid # ARRAY_TID
                             /\ t.fields \in Seq(Types) /\ Len(t.fields) \in 1..MaxFields
BY TypeShape DEF Shape, IsPrimitive, STRING_TID, ARRAY_TID, STRUCT_TID

TypeBlocksOf(f, t) ==
    IF IsPrimitive(t) THEN 0
    ELSE IF t.tid = ARRAY_TID THEN 1 + f[t.cell]
    ELSE 3 + Sum([i \in DOMAIN t.fields |-> f[t.fields[i]]])

LEMMA TypeBlocksAgree ==
    ASSUME NEW t \in Types, NEW f, NEW g, \A m \in Members(t) : f[m] = g[m]
    PROVE  TypeBlocksOf(f, t) = TypeBlocksOf(g, t)
<1>1. CASE IsPrimitive(t)
  BY <1>1 DEF TypeBlocksOf
<1>2. CASE ~IsPrimitive(t) /\ t.tid = ARRAY_TID
  BY <1>2, CellAgrees DEF TypeBlocksOf
<1>3. CASE ~IsPrimitive(t) /\ t.tid = STRUCT_TID /\ t.tid # ARRAY_TID
  BY <1>3, FieldsAgree DEF TypeBlocksOf
<1> QED BY <1>1, <1>2, <1>3, TypeCases

LEMMA TypeBlocksExists ==
    \A d \in 0..(MaxSize + 1) : \E f : f = [t \in Below(d) |-> TypeBlocksOf(f, t)]
<1> DEFINE Solves(f, d) == f = [t \in Below(d) |-> TypeBlocksOf(f, t)]
           G == {d \in Nat : d <= MaxSize + 1 => \E f : Solves(f, d)}
<1>1. 0 \in G
  <2>1. Solves([t \in {} |-> 0], 0)
    BY DEF Below
  <2> HIDE DEF Solves
  <2> QED BY <2>1
<1>2. ASSUME NEW d \in 0..MaxSize, d \in G PROVE d + 1 \in G
  <2>1. d <= MaxSize + 1 /\ d + 1 \in 0..(MaxSize + 1) /\ d + 1 \in Nat
    BY MaxSizeType
  <2>2. PICK f : Solves(f, d)
    BY <1>2, <2>1
  <2>3. \A t \in Below(d) : f[t] = TypeBlocksOf(f, t)
    BY <2>2
  <2> DEFINE g == [t \in Below(d + 1) |-> TypeBlocksOf(f, t)]
  <2>4. \A t \in Below(d + 1) : g[t] = TypeBlocksOf(f, t)
    OBVIOUS
  <2>5. g = [t \in Below(d + 1) |-> g[t]]
    OBVIOUS
  <2> HIDE DEF g
  <2>6. \A t \in Below(d) : g[t] = f[t]
    BY <2>3, <2>4, BelowGrows
  <2>7. ASSUME NEW t \in Below(d + 1) PROVE g[t] = TypeBlocksOf(g, t)
    <3>1. t \in Types
      BY <2>1, BelowAll
    <3>2. \A m \in Members(t) : f[m] = g[m]
      BY <2>6, MembersBelow
    <3>3. TypeBlocksOf(f, t) = TypeBlocksOf(g, t)
      BY <3>1, <3>2, TypeBlocksAgree
    <3> QED BY <2>4, <3>3
  <2>8. Solves(g, d + 1)
    BY <2>5, <2>7
  <2> HIDE DEF Solves
  <2> QED BY <2>1, <2>8
<1>3. \A d \in 0..(MaxSize + 1) : d \in G
  <2>1. MaxSize = (MaxSize + 1) - 1
    BY MaxSizeType
  <2> HIDE DEF G
  <2> QED BY <1>1, <1>2, <2>1, MaxSizeType, Induction
<1> QED BY <1>3

LEMMA TypeBlocksUnfold == \A t \in Types : TypeBlocks[t] = TypeBlocksOf(TypeBlocks, t)
<1> DEFINE Whole(f) == f = [t \in Types |-> TypeBlocksOf(f, t)]
<1>1. TypeBlocks = CHOOSE f : Whole(f)
  BY DEF TypeBlocks, TypeBlocksOf
<1>2. Whole(TypeBlocks)
  <2>1. \E f : Whole(f)
    <3>1. MaxSize + 1 \in 0..(MaxSize + 1)
      BY MaxSizeType
    <3> QED BY <3>1, TypeBlocksExists, BelowAll
  <2> HIDE DEF Whole
  <2> QED BY <1>1, <2>1
<1> QED BY <1>2

InnersIn(f, t) ==
    IF IsBlockable(t)
    THEN [block : {b \in Seq(Byte) :
            /\ Len(b) <= MaxSize
            /\ IF HasLength(t) THEN Len(b) % CellSize(t) = 0 ELSE Len(b) = CellSize(t)}]
    ELSE [members : {ms \in Seq(Inners) :
            /\ t.tid = STRUCT_TID => Len(ms) = Len(t.fields)
            /\ \A i \in DOMAIN ms : ms[i] \in f[MemberType(t, i)]}]

LEMMA InnersInAgree ==
    ASSUME NEW t \in Types, NEW f, NEW g, \A m \in Members(t) : f[m] = g[m]
    PROVE  InnersIn(f, t) = InnersIn(g, t)
<1>1. CASE IsBlockable(t)
  BY <1>1 DEF InnersIn
<1>2. CASE ~IsBlockable(t)
  <2> DEFINE P(ms, h) == /\ t.tid = STRUCT_TID => Len(ms) = Len(t.fields)
                         /\ \A i \in DOMAIN ms : ms[i] \in h[MemberType(t, i)]
  <2>1. ASSUME NEW ms \in Seq(Inners), t.tid = STRUCT_TID => Len(ms) = Len(t.fields),
               NEW i \in DOMAIN ms
        PROVE  f[MemberType(t, i)] = g[MemberType(t, i)]
    <3>1. ~IsPrimitive(t)
      BY <1>2 DEF IsBlockable
    <3>2. CASE t.tid = ARRAY_TID
      BY <3>2, CellAgrees DEF MemberType, ARRAY_TID, STRUCT_TID
    <3>3. CASE t.tid = STRUCT_TID /\ t.fields \in Seq(Types)
      <4>1. i \in DOMAIN t.fields
        BY <2>1, <3>3, LenProperties
      <4>2. t.fields[i] \in Members(t)
        BY <3>1, <3>3, <4>1 DEF Members, ARRAY_TID, STRUCT_TID
      <4> QED BY <3>3, <4>2 DEF MemberType
    <3> QED BY <3>1, <3>2, <3>3, TypeCases
  <2>2. ASSUME NEW ms \in Seq(Inners) PROVE P(ms, f) <=> P(ms, g)
    BY <2>1
  <2>3. InnersIn(f, t) = [members : {ms \in Seq(Inners) : P(ms, f)}]
        /\ InnersIn(g, t) = [members : {ms \in Seq(Inners) : P(ms, g)}]
    BY <1>2 DEF InnersIn
  <2> HIDE DEF P
  <2> QED BY <2>2, <2>3
<1> QED BY <1>1, <1>2

LEMMA InnersInExists ==
    \A d \in 0..(MaxSize + 1) : \E f : f = [t \in Below(d) |-> InnersIn(f, t)]
<1> DEFINE Solves(f, d) == f = [t \in Below(d) |-> InnersIn(f, t)]
           G == {d \in Nat : d <= MaxSize + 1 => \E f : Solves(f, d)}
<1>1. 0 \in G
  <2>1. Solves([t \in {} |-> 0], 0)
    BY DEF Below
  <2> HIDE DEF Solves
  <2> QED BY <2>1
<1>2. ASSUME NEW d \in 0..MaxSize, d \in G PROVE d + 1 \in G
  <2>1. d <= MaxSize + 1 /\ d + 1 \in 0..(MaxSize + 1) /\ d + 1 \in Nat
    BY MaxSizeType
  <2>2. PICK f : Solves(f, d)
    BY <1>2, <2>1
  <2>3. \A t \in Below(d) : f[t] = InnersIn(f, t)
    BY <2>2
  <2> DEFINE g == [t \in Below(d + 1) |-> InnersIn(f, t)]
  <2>4. \A t \in Below(d + 1) : g[t] = InnersIn(f, t)
    OBVIOUS
  <2>5. g = [t \in Below(d + 1) |-> g[t]]
    OBVIOUS
  <2> HIDE DEF g
  <2>6. \A t \in Below(d) : g[t] = f[t]
    BY <2>3, <2>4, BelowGrows
  <2>7. ASSUME NEW t \in Below(d + 1) PROVE g[t] = InnersIn(g, t)
    <3>1. t \in Types
      BY <2>1, BelowAll
    <3>2. \A m \in Members(t) : f[m] = g[m]
      BY <2>6, MembersBelow
    <3>3. InnersIn(f, t) = InnersIn(g, t)
      BY <3>1, <3>2, InnersInAgree
    <3> QED BY <2>4, <3>3
  <2>8. Solves(g, d + 1)
    BY <2>5, <2>7
  <2> HIDE DEF Solves
  <2> QED BY <2>1, <2>8
<1>3. \A d \in 0..(MaxSize + 1) : d \in G
  <2>1. MaxSize = (MaxSize + 1) - 1
    BY MaxSizeType
  <2> HIDE DEF G
  <2> QED BY <1>1, <1>2, <2>1, MaxSizeType, Induction
<1> QED BY <1>3

LEMMA InnersInUnfold == \A t \in Types : InnerOf[t] = InnersIn(InnerOf, t)
<1> DEFINE Whole(f) == f = [t \in Types |-> InnersIn(f, t)]
<1>1. InnerOf = CHOOSE f : Whole(f)
  BY DEF InnerOf, InnersIn
<1>2. Whole(InnerOf)
  <2>1. \E f : Whole(f)
    <3>1. MaxSize + 1 \in 0..(MaxSize + 1)
      BY MaxSizeType
    <3> QED BY <3>1, InnersInExists, BelowAll
  <2> HIDE DEF Whole
  <2> QED BY <1>1, <2>1
<1> QED BY <1>2

-----------------------------------------------------------------------------
(* Inner values.  Those of a type are no deeper than it.                    *)
Blocks == [block : Buffers]
Holding(ivs) == Blocks \cup [members : Seq(ivs)]

LEMMA InnersUpToExists ==
    ASSUME NEW N \in Nat
    PROVE  \E f : f = [i \in 0..N |-> IF i = 0 THEN Blocks ELSE Holding(f[i - 1])]
<1> DEFINE Solves(f, n) == f = [i \in 0..n |-> IF i = 0 THEN Blocks ELSE Holding(f[i - 1])]
           G == {n \in Nat : \E f : Solves(f, n)}
<1>1. 0 \in G
  <2>1. Solves([i \in 0..0 |-> Blocks], 0)
    OBVIOUS
  <2> HIDE DEF Solves
  <2> QED BY <2>1
<1>2. ASSUME NEW n \in Nat, n \in G PROVE n + 1 \in G
  <2>1. PICK f : Solves(f, n)
    BY <1>2
  <2> DEFINE g == [i \in 0..(n + 1) |-> IF i = 0 THEN Blocks ELSE Holding(f[i - 1])]
  <2>2. \A i \in 0..n : i \in 0..(n + 1) /\ g[i] = f[i]
    BY <2>1
  <2>3. \A i \in 0..(n + 1) : i # 0 => i - 1 \in 0..n
    OBVIOUS
  <2>4. \A i \in 0..(n + 1) : g[i] = IF i = 0 THEN Blocks ELSE Holding(f[i - 1])
    OBVIOUS
  <2>5. g = [i \in 0..(n + 1) |-> g[i]]
    OBVIOUS
  <2> HIDE DEF g
  <2>6. \A i \in 0..(n + 1) : g[i] = IF i = 0 THEN Blocks ELSE Holding(g[i - 1])
    BY <2>2, <2>3, <2>4
  <2>7. Solves(g, n + 1)
    BY <2>5, <2>6
  <2> HIDE DEF Solves
  <2> QED BY <2>7
<1>3. N \in G
  <2> HIDE DEF G
  <2> QED BY <1>1, <1>2, Induction
<1> QED BY <1>3

LEMMA InnersUpToUnfold ==
    \A d \in 0..MaxSize : InnersUpTo[d] = IF d = 0 THEN Blocks ELSE Holding(InnersUpTo[d - 1])
<1> DEFINE Whole(f) == f = [d \in 0..MaxSize |-> IF d = 0 THEN Blocks ELSE Holding(f[d - 1])]
<1>1. InnersUpTo = CHOOSE f : Whole(f)
  BY DEF InnersUpTo, Blocks, Holding
<1>2. Whole(InnersUpTo)
  <2>1. \E f : Whole(f)
    BY InnersUpToExists, MaxSizeType
  <2> HIDE DEF Whole
  <2> QED BY <1>1, <2>1
<1> QED BY <1>2

LEMMA InnersUpToGrows ==
    /\ \A d \in 0..MaxSize : Blocks \subseteq InnersUpTo[d]
    /\ \A d \in 1..MaxSize : InnersUpTo[d] = Holding(InnersUpTo[d - 1])
                             /\ InnersUpTo[d - 1] \subseteq InnersUpTo[d]
<1>1. \A d \in 0..MaxSize : Blocks \subseteq InnersUpTo[d]
  BY InnersUpToUnfold DEF Holding
<1>2. \A d \in 1..MaxSize : d # 0 /\ d \in 0..MaxSize /\ d - 1 \in 0..MaxSize
  BY MaxSizeType
<1>3. \A d \in 1..MaxSize : InnersUpTo[d] = Holding(InnersUpTo[d - 1])
  BY <1>2, InnersUpToUnfold
<1> DEFINE G == {d \in Nat : d \in 1..MaxSize => InnersUpTo[d - 1] \subseteq InnersUpTo[d]}
<1>4. 0 \in G
  OBVIOUS
<1>5. ASSUME NEW d \in 0..(MaxSize - 1), d \in G PROVE d + 1 \in G
  <2>1. d + 1 \in 1..MaxSize /\ (d + 1) - 1 = d /\ d + 1 \in Nat
        /\ d \in 0..MaxSize /\ (d # 0 => d \in 1..MaxSize)
    BY MaxSizeType
  <2>2. InnersUpTo[d + 1] = Holding(InnersUpTo[d])
    BY <1>3, <2>1
  <2>3. CASE d = 0
    <3>1. InnersUpTo[d] = Blocks
      BY <2>1, <2>3, InnersUpToUnfold
    <3> QED BY <2>1, <2>2, <3>1 DEF Holding
  <2>4. CASE d # 0
    <3>1. InnersUpTo[d] = Holding(InnersUpTo[d - 1]) /\ InnersUpTo[d - 1] \subseteq InnersUpTo[d]
      BY <1>3, <1>5, <2>1, <2>4
    <3>2. Holding(InnersUpTo[d - 1]) \subseteq Holding(InnersUpTo[d])
      BY <3>1, SeqGrows DEF Holding
    <3> QED BY <2>1, <2>2, <3>1, <3>2
  <2> QED BY <2>3, <2>4
<1>6. \A d \in 0..MaxSize : d \in G
  <2> HIDE DEF G
  <2> QED BY <1>4, <1>5, MaxSizeType, Induction
<1> QED BY <1>1, <1>2, <1>3, <1>6

LEMMA InnersUpToAll == \A d \in 0..MaxSize : InnersUpTo[d] \subseteq Inners
<1> DEFINE G == {n \in Nat : n <= MaxSize => InnersUpTo[MaxSize - n] \subseteq Inners}
<1>1. 0 \in G
  <2>1. MaxSize - 0 = MaxSize
    BY MaxSizeType
  <2> QED BY <2>1 DEF Inners
<1>2. ASSUME NEW n \in 0..(MaxSize - 1), n \in G PROVE n + 1 \in G
  <2> DEFINE d == MaxSize - n
  <2>1. d \in 1..MaxSize /\ MaxSize - (n + 1) = d - 1 /\ n <= MaxSize /\ n + 1 \in Nat
    BY MaxSizeType
  <2>2. InnersUpTo[d] \subseteq Inners
    BY <1>2, <2>1
  <2>3. InnersUpTo[d - 1] \subseteq InnersUpTo[d]
    BY <2>1, InnersUpToGrows
  <2> QED BY <2>1, <2>2, <2>3
<1>3. \A n \in 0..MaxSize : n \in G
  <2> HIDE DEF G
  <2> QED BY <1>1, <1>2, MaxSizeType, Induction
<1>4. ASSUME NEW d \in 0..MaxSize PROVE InnersUpTo[d] \subseteq Inners
  <2>1. MaxSize - d \in 0..MaxSize /\ MaxSize - (MaxSize - d) = d /\ MaxSize - d <= MaxSize
    BY MaxSizeType
  <2> QED BY <1>3, <2>1
<1> QED BY <1>4

(* What an inner value of a type looks like.                                *)
IsBlockOf(b, t) ==
    /\ b \in Seq(Byte) /\ Len(b) \in 0..MaxSize
    /\ IF HasLength(t) THEN Len(b) % CellSize(t) = 0 ELSE Len(b) = CellSize(t)

AreMembersOf(ms, t) ==
    /\ ms \in Seq(Inners) /\ Len(ms) \in Nat /\ DOMAIN ms = 1..Len(ms)
    /\ t.tid = STRUCT_TID => Len(ms) = Len(t.fields)
    /\ \A i \in 1..Len(ms) : MemberType(t, i) \in Members(t) /\ ms[i] \in InnerOf[MemberType(t, i)]

(* A type that is not stored densely, and its members.                      *)
LEMMA ComposedCases ==
    \A t \in Types : ~IsBlockable(t) =>
        /\ ~IsPrimitive(t) /\ Members(t) \subseteq Types
        /\ IF t.tid = STRUCT_TID
           THEN /\ t.fields \in Seq(Types) /\ Len(t.fields) \in 1..MaxFields
                /\ t.tid # ARRAY_TID /\ Len(t.fields) \in Nat
                /\ DOMAIN t.fields = 1..Len(t.fields)
                /\ \A i \in 1..Len(t.fields) : MemberType(t, i) = t.fields[i]
                                               /\ t.fields[i] \in Members(t)
           ELSE /\ t.tid = ARRAY_TID /\ t.cell \in Types /\ t.cell \in Members(t)
                /\ \A i : MemberType(t, i) = t.cell
<1> SUFFICES ASSUME NEW t \in Types, ~IsBlockable(t)
             PROVE  /\ ~IsPrimitive(t) /\ Members(t) \subseteq Types
                    /\ IF t.tid = STRUCT_TID
                       THEN /\ t.fields \in Seq(Types) /\ Len(t.fields) \in 1..MaxFields
                            /\ t.tid # ARRAY_TID /\ Len(t.fields) \in Nat
                            /\ DOMAIN t.fields = 1..Len(t.fields)
                            /\ \A i \in 1..Len(t.fields) : MemberType(t, i) = t.fields[i]
                                                           /\ t.fields[i] \in Members(t)
                       ELSE /\ t.tid = ARRAY_TID /\ t.cell \in Types /\ t.cell \in Members(t)
                            /\ \A i : MemberType(t, i) = t.cell
  OBVIOUS
<1>1. ~IsPrimitive(t)
  BY DEF IsBlockable
<1>2. Members(t) \subseteq Types
  BY TypeShape, ShapeMembers
<1>3. CASE t.tid = STRUCT_TID
  <2>1. t.fields \in Seq(Types) /\ Len(t.fields) \in 1..MaxFields /\ t.tid # ARRAY_TID
    BY <1>1, <1>3, TypeCases DEF STRUCT_TID, ARRAY_TID
  <2>2. Len(t.fields) \in Nat /\ DOMAIN t.fields = 1..Len(t.fields)
    BY <2>1, LenProperties
  <2> QED BY <1>1, <1>2, <1>3, <2>1, <2>2 DEF MemberType, Members
<1>4. CASE t.tid # STRUCT_TID
  <2>1. t.tid = ARRAY_TID /\ t.cell \in Types
    BY <1>1, <1>4, TypeCases
  <2> QED BY <1>1, <1>2, <1>4, <2>1 DEF MemberType, Members
<1> QED BY <1>3, <1>4

LEMMA InnerShape ==
    \A t \in Types : \A iv \in InnerOf[t] :
        IF IsBlockable(t) THEN IsBlockOf(iv.block, t) ELSE AreMembersOf(iv.members, t)
<1> SUFFICES ASSUME NEW t \in Types, NEW iv \in InnerOf[t]
             PROVE  IF IsBlockable(t) THEN IsBlockOf(iv.block, t) ELSE AreMembersOf(iv.members, t)
  OBVIOUS
<1>1. iv \in InnersIn(InnerOf, t)
  BY InnersInUnfold
<1>2. CASE IsBlockable(t)
  <2>1. /\ iv.block \in Seq(Byte) /\ Len(iv.block) <= MaxSize
        /\ IF HasLength(t) THEN Len(iv.block) % CellSize(t) = 0 ELSE Len(iv.block) = CellSize(t)
    BY <1>1, <1>2 DEF InnersIn
  <2>2. Len(iv.block) \in Nat
    BY <2>1, LenProperties
  <2>3. Len(iv.block) \in 0..MaxSize
    BY <2>1, <2>2, MaxSizeType
  <2> QED BY <1>2, <2>1, <2>3 DEF IsBlockOf
<1>3. CASE ~IsBlockable(t)
  <2> DEFINE ms == iv.members
  <2>1. /\ ms \in Seq(Inners)
        /\ t.tid = STRUCT_TID => Len(ms) = Len(t.fields)
        /\ \A i \in DOMAIN ms : ms[i] \in InnerOf[MemberType(t, i)]
    BY <1>1, <1>3 DEF InnersIn
  <2> HIDE DEF ms
  <2>2. Len(ms) \in Nat /\ DOMAIN ms = 1..Len(ms)
    BY <2>1, LenProperties
  <2>3. \A i \in 1..Len(ms) : MemberType(t, i) \in Members(t)
    BY <1>3, <2>1, ComposedCases
  <2>4. AreMembersOf(ms, t)
    BY <2>1, <2>2, <2>3 DEF AreMembersOf
  <2> QED BY <1>3, <2>4 DEF ms
<1> QED BY <1>2, <1>3

LEMMA InnersOfBelow == \A d \in 0..MaxSize : \A t \in Below(d + 1) : InnerOf[t] \subseteq InnersUpTo[d]
<1> DEFINE G == {d \in Nat : d <= MaxSize => \A t \in Below(d + 1) : InnerOf[t] \subseteq InnersUpTo[d]}
<1>1. ASSUME NEW d \in 0..MaxSize, NEW t \in Below(d + 1), NEW iv \in InnerOf[t],
             d # 0 => d - 1 \in G
      PROVE  iv \in InnersUpTo[d]
  <2>0. t \in Types
    <3>1. d + 1 \in 0..(MaxSize + 1)
      BY MaxSizeType
    <3> QED BY <3>1, BelowAll
  <2>1. iv \in InnersIn(InnerOf, t)
    BY <2>0, InnersInUnfold
  <2>2. CASE IsBlockable(t)
    <3>1. iv \in Blocks
      BY <2>1, <2>2 DEF InnersIn, Blocks, Buffers, BytesUpTo
    <3> QED BY <3>1, InnersUpToGrows
  <2>3. CASE ~IsBlockable(t)
    <3> DEFINE ms == iv.members
    <3>1. AreMembersOf(ms, t) /\ iv = [members |-> ms]
      BY <2>0, <2>1, <2>3, InnerShape DEF InnersIn
    <3> HIDE DEF ms
    <3>2. Members(t) \subseteq Below(d)
      BY MembersBelow
    <3>3. d # 0
      <4>1. \E m : m \in Members(t)
        <5>1. CASE t.tid = STRUCT_TID
          <6>1. 1 \in 1..Len(t.fields)
            BY <2>0, <2>3, <5>1, ComposedCases, Bounds
          <6> QED BY <2>0, <2>3, <5>1, <6>1, ComposedCases
        <5>2. CASE t.tid # STRUCT_TID
          BY <2>0, <2>3, <5>2, ComposedCases
        <5> QED BY <5>1, <5>2
      <4> QED BY <3>2, <4>1 DEF Below
    <3>4. d \in 1..MaxSize /\ (d - 1) + 1 = d /\ d - 1 <= MaxSize /\ d - 1 \in Nat
      BY <3>3, MaxSizeType
    <3>5. \A m \in Below(d) : InnerOf[m] \subseteq InnersUpTo[d - 1]
      BY <1>1, <3>3, <3>4
    <3>6. \A i \in 1..Len(ms) : ms[i] \in InnersUpTo[d - 1]
      BY <3>1, <3>2, <3>5 DEF AreMembersOf
    <3>7. ms \in Seq(InnersUpTo[d - 1])
      <4>1. Len(ms) \in Nat /\ ms \in [1..Len(ms) -> Inners]
        BY <3>1, LenProperties DEF AreMembersOf
      <4>2. ms \in [1..Len(ms) -> InnersUpTo[d - 1]]
        BY <3>6, <4>1
      <4> QED BY <4>1, <4>2, IsASeq
    <3>8. iv \in Holding(InnersUpTo[d - 1])
      BY <3>1, <3>7 DEF Holding
    <3> QED BY <3>4, <3>8, InnersUpToGrows
  <2> QED BY <2>2, <2>3
<1>2. 0 \in G
  BY <1>1, MaxSizeType
<1>3. ASSUME NEW d \in 0..(MaxSize - 1), d \in G PROVE d + 1 \in G
  <2>1. d + 1 \in 0..MaxSize /\ (d + 1) - 1 = d /\ d + 1 \in Nat
    BY MaxSizeType
  <2> QED BY <1>1, <1>3, <2>1
<1>4. \A d \in 0..MaxSize : d \in G
  <2> HIDE DEF G
  <2> QED BY <1>2, <1>3, MaxSizeType, Induction
<1> QED BY <1>4

LEMMA InnersOfTypes == \A t \in Types : InnerOf[t] \subseteq Inners
<1>1. MaxSize \in 0..MaxSize
  BY MaxSizeType
<1> QED BY <1>1, InnersOfBelow, InnersUpToAll, BelowAll

LEMMA MakeDense ==
    ASSUME NEW t \in Types, IsBlockable(t), NEW b, IsBlockOf(b, t)
    PROVE  Dense(b) \in InnerOf[t]
<1>1. Len(b) <= MaxSize
  BY MaxSizeType DEF IsBlockOf
<1>2. Dense(b) \in InnersIn(InnerOf, t)
  BY <1>1 DEF IsBlockOf, InnersIn, Dense
<1> QED BY <1>2, InnersInUnfold

LEMMA MakeComposed ==
    ASSUME NEW t \in Types, ~IsBlockable(t), NEW n \in Nat, NEW ms, Len(ms) = n,
           ms = [i \in 1..n |-> ms[i]],
           t.tid = STRUCT_TID => n = Len(t.fields),
           \A i \in 1..n : ms[i] \in InnerOf[MemberType(t, i)]
    PROVE  Composed(ms) \in InnerOf[t]
<1>1. ASSUME NEW i \in 1..n PROVE ms[i] \in Inners
  <2>1. MemberType(t, i) \in Types
    BY ComposedCases
  <2> QED BY <2>1, InnersOfTypes
<1>2. ms \in [1..n -> Inners]
  <2>1. \A i \in 1..n : ms[i] \in Inners
    BY <1>1
  <2> QED BY <2>1
<1>3. ms \in Seq(Inners) /\ DOMAIN ms = 1..n
  BY <1>2, IsASeq
<1>4. Composed(ms) \in InnersIn(InnerOf, t)
  BY <1>3 DEF InnersIn, Composed
<1> QED BY <1>4, InnersInUnfold

-----------------------------------------------------------------------------
(* The blocks of types and of values.                                       *)
LEMMA TypeBlocksType == \A t \in Types : TypeBlocks[t] \in Int
<1> DEFINE G == {t \in Types : TypeBlocks[t] \in Int}
<1>1. ASSUME NEW t \in Types, Members(t) \subseteq G PROVE t \in G
  <2>1. TypeBlocks[t] = TypeBlocksOf(TypeBlocks, t)
    BY TypeBlocksUnfold
  <2>2. CASE IsPrimitive(t)
    BY <2>1, <2>2 DEF TypeBlocksOf
  <2>3. CASE ~IsPrimitive(t) /\ t.tid = ARRAY_TID
    <3>1. TypeBlocks[t.cell] \in Int
      BY <1>1, <2>3 DEF Members
    <3> QED BY <2>1, <2>3, <3>1 DEF TypeBlocksOf
  <2>4. CASE ~IsPrimitive(t) /\ t.tid # ARRAY_TID /\ t.fields \in Seq(Types)
    <3> DEFINE n == Len(t.fields)
               s == [i \in DOMAIN t.fields |-> TypeBlocks[t.fields[i]]]
    <3>1. n \in Nat /\ DOMAIN t.fields = 1..n
      BY <2>4, LenProperties
    <3>2. \A i \in DOMAIN t.fields : TypeBlocks[t.fields[i]] \in Int
      BY <1>1, <2>4 DEF Members
    <3> HIDE DEF n
    <3>3. DOMAIN s = 1..n /\ s = [i \in DOMAIN s |-> s[i]] /\ \A i \in 1..n : s[i] \in Int
      BY <3>1, <3>2
    <3>4. TypeBlocks[t] = 3 + Sum(s)
      BY <2>1, <2>4 DEF TypeBlocksOf
    <3> HIDE DEF s
    <3>5. Len(s) = n
      BY <3>1, <3>3, LenOf
    <3>6. Sum(s) \in Int
      BY <3>1, <3>3, <3>5, SumType
    <3> QED BY <3>4, <3>6
  <2> QED BY <2>2, <2>3, <2>4, TypeCases
<1>2. Types \subseteq G
  <2> HIDE DEF G
  <2> QED BY <1>1, TypeInduction
<1> QED BY <1>2

InnerBlocksOf(f, t) == [iv \in InnerOf[t] |->
    IF IsBlockable(t) THEN 1 + IF HasLength(t) THEN Allocated(Len(iv.block)) ELSE 0
    ELSE 1 + Allocated(Len(iv.members))
           + Sum([i \in DOMAIN iv.members |->
                    IF IsStringArray(t) THEN Allocated(Len(iv.members[i].block))
                    ELSE f[MemberType(t, i)][iv.members[i]]])]

LEMMA InnerBlocksAgree ==
    ASSUME NEW t \in Types, NEW f, NEW g, \A m \in Members(t) : f[m] = g[m]
    PROVE  InnerBlocksOf(f, t) = InnerBlocksOf(g, t)
<1> DEFINE Item(h, iv, i) == IF IsStringArray(t) THEN Allocated(Len(iv.members[i].block))
                             ELSE h[MemberType(t, i)][iv.members[i]]
           Items(h, iv) == [i \in DOMAIN iv.members |-> Item(h, iv, i)]
           Of(h, iv) == IF IsBlockable(t) THEN 1 + IF HasLength(t) THEN Allocated(Len(iv.block)) ELSE 0
                        ELSE 1 + Allocated(Len(iv.members)) + Sum(Items(h, iv))
<1>1. ASSUME NEW iv \in InnerOf[t], ~IsBlockable(t) PROVE Items(f, iv) = Items(g, iv)
  <2>1. AreMembersOf(iv.members, t)
    BY <1>1, InnerShape
  <2>2. \A i \in DOMAIN iv.members : f[MemberType(t, i)] = g[MemberType(t, i)]
    BY <2>1 DEF AreMembersOf
  <2>3. \A i \in DOMAIN iv.members : Item(f, iv, i) = Item(g, iv, i)
    BY <2>2
  <2> HIDE DEF Item
  <2> QED BY <2>3
<1>2. \A iv \in InnerOf[t] : Of(f, iv) = Of(g, iv)
  <2> HIDE DEF Items
  <2> QED BY <1>1
<1>3. InnerBlocksOf(f, t) = [iv \in InnerOf[t] |-> Of(f, iv)]
      /\ InnerBlocksOf(g, t) = [iv \in InnerOf[t] |-> Of(g, iv)]
  BY DEF InnerBlocksOf
<1> HIDE DEF Of
<1> QED BY <1>2, <1>3

LEMMA InnerBlocksExists ==
    \A d \in 0..(MaxSize + 1) : \E f : f = [t \in Below(d) |-> InnerBlocksOf(f, t)]
<1> DEFINE Solves(f, d) == f = [t \in Below(d) |-> InnerBlocksOf(f, t)]
           G == {d \in Nat : d <= MaxSize + 1 => \E f : Solves(f, d)}
<1>1. 0 \in G
  <2>1. Solves([t \in {} |-> 0], 0)
    BY DEF Below
  <2> HIDE DEF Solves
  <2> QED BY <2>1
<1>2. ASSUME NEW d \in 0..MaxSize, d \in G PROVE d + 1 \in G
  <2>1. d <= MaxSize + 1 /\ d + 1 \in 0..(MaxSize + 1) /\ d + 1 \in Nat
    BY MaxSizeType
  <2>2. PICK f : Solves(f, d)
    BY <1>2, <2>1
  <2>3. \A t \in Below(d) : f[t] = InnerBlocksOf(f, t)
    BY <2>2
  <2> DEFINE g == [t \in Below(d + 1) |-> InnerBlocksOf(f, t)]
  <2>4. \A t \in Below(d + 1) : g[t] = InnerBlocksOf(f, t)
    OBVIOUS
  <2>5. g = [t \in Below(d + 1) |-> g[t]]
    OBVIOUS
  <2> HIDE DEF g
  <2>6. \A t \in Below(d) : g[t] = f[t]
    BY <2>3, <2>4, BelowGrows
  <2>7. ASSUME NEW t \in Below(d + 1) PROVE g[t] = InnerBlocksOf(g, t)
    <3>1. t \in Types
      BY <2>1, BelowAll
    <3>2. \A m \in Members(t) : f[m] = g[m]
      BY <2>6, MembersBelow
    <3>3. InnerBlocksOf(f, t) = InnerBlocksOf(g, t)
      BY <3>1, <3>2, InnerBlocksAgree
    <3> QED BY <2>4, <3>3
  <2>8. Solves(g, d + 1)
    BY <2>5, <2>7
  <2> HIDE DEF Solves
  <2> QED BY <2>1, <2>8
<1>3. \A d \in 0..(MaxSize + 1) : d \in G
  <2>1. MaxSize = (MaxSize + 1) - 1
    BY MaxSizeType
  <2> HIDE DEF G
  <2> QED BY <1>1, <1>2, <2>1, MaxSizeType, Induction
<1> QED BY <1>3

LEMMA InnerBlocksUnfold == \A t \in Types : InnerBlocks[t] = InnerBlocksOf(InnerBlocks, t)
<1> DEFINE Whole(f) == f = [t \in Types |-> InnerBlocksOf(f, t)]
<1>1. InnerBlocks = CHOOSE f : Whole(f)
  BY DEF InnerBlocks, InnerBlocksOf
<1>2. Whole(InnerBlocks)
  <2>1. \E f : Whole(f)
    <3>1. MaxSize + 1 \in 0..(MaxSize + 1)
      BY MaxSizeType
    <3> QED BY <3>1, InnerBlocksExists, BelowAll
  <2> HIDE DEF Whole
  <2> QED BY <1>1, <2>1
<1> QED BY <1>2

(* The blocks of a member: a string in an array has only its own.           *)
ItemBlocks(t, i) == IF IsStringArray(t) THEN StringBlocks ELSE InnerBlocks[MemberType(t, i)]

LEMMA AllocatedType == \A n \in Nat : Allocated(n) \in Int
BY DEF Allocated

LEMMA DenseBlocks ==
    \A t \in Types : IsBlockable(t) => \A iv \in InnerOf[t] :
        InnerBlocks[t][iv] = 1 + IF HasLength(t) THEN Allocated(Len(iv.block)) ELSE 0
BY InnerBlocksUnfold DEF InnerBlocksOf

LEMMA StringArrayCell ==
    \A t \in Types : IsStringArray(t) => ~IsBlockable(t) /\ \A i : MemberType(t, i) = STRING_T
<1> SUFFICES ASSUME NEW t \in Types, IsStringArray(t)
             PROVE  ~IsBlockable(t) /\ \A i : MemberType(t, i) = STRING_T
  OBVIOUS
<1>1. ~IsPrimitive(t) /\ t.tid = ARRAY_TID /\ t.cell.tid = STRING_TID
  BY DEF IsStringArray, IsPrimitive, ARRAY_TID, STRING_TID
<1>2. ~IsBlockable(t)
  BY <1>1 DEF IsBlockable
<1>3. t.cell \in Around(Types) /\ \A i : MemberType(t, i) = t.cell
  BY <1>1, <1>2, ComposedCases, BelowAll, BelowNext, AroundGrows, MaxSizeType
       DEF ARRAY_TID, STRUCT_TID
<1>4. t.cell \in Basic
  BY <1>1, <1>3 DEF Around, ARRAY_TID, STRUCT_TID, STRING_TID
<1>5. t.cell = STRING_T
  BY <1>1, <1>4 DEF Basic, STRING_T, Primitive
<1> QED BY <1>2, <1>3, <1>5

LEMMA ComposedBlocks ==
    \A t \in Types : ~IsBlockable(t) => \A iv \in InnerOf[t] :
        InnerBlocks[t][iv] = 1 + Allocated(Len(iv.members))
            + Sum([i \in DOMAIN iv.members |-> ItemBlocks(t, i)[iv.members[i]]])
<1> SUFFICES ASSUME NEW t \in Types, ~IsBlockable(t), NEW iv \in InnerOf[t]
             PROVE InnerBlocks[t][iv] = 1 + Allocated(Len(iv.members))
                     + Sum([i \in DOMAIN iv.members |-> ItemBlocks(t, i)[iv.members[i]]])
  OBVIOUS
<1> DEFINE s == [i \in DOMAIN iv.members |->
                    IF IsStringArray(t) THEN Allocated(Len(iv.members[i].block))
                    ELSE InnerBlocks[MemberType(t, i)][iv.members[i]]]
           r == [i \in DOMAIN iv.members |-> ItemBlocks(t, i)[iv.members[i]]]
<1>1. InnerBlocks[t][iv] = 1 + Allocated(Len(iv.members)) + Sum(s)
  BY InnerBlocksUnfold DEF InnerBlocksOf
<1>2. AreMembersOf(iv.members, t)
  BY InnerShape
<1>3. ASSUME NEW i \in DOMAIN iv.members PROVE s[i] = r[i]
  <2>1. CASE IsStringArray(t)
    <3>1. iv.members[i] \in InnerOf[STRING_T]
      BY <1>2, <2>1, StringArrayCell DEF AreMembersOf
    <3> QED BY <2>1, <3>1 DEF ItemBlocks, StringBlocks
  <2>2. CASE ~IsStringArray(t)
    BY <2>2 DEF ItemBlocks
  <2> QED BY <2>1, <2>2
<1>4. s = r
  BY <1>3
<1> QED BY <1>1, <1>4

LEMMA StringType == STRING_T \in Types /\ IsBlockable(STRING_T) /\ HasLength(STRING_T)
<1>1. STRING_T \in Basic
  BY DEF STRING_T, Primitive, Basic, STRING_TID
<1>2. STRING_T \in Around(Below(MaxSize))
  BY <1>1 DEF Around
<1>3. STRING_T \in Types
  BY <1>2, BelowAll, BelowNext, MaxSizeType
<1> QED BY <1>3 DEF IsBlockable, HasLength, IsPrimitive, STRING_T, Primitive, STRING_TID

LEMMA StringBlocksType == \A iv \in InnerOf[STRING_T] : StringBlocks[iv] \in Int
BY AllocatedType, StringType, InnerShape DEF StringBlocks, IsBlockOf

LEMMA InnerBlocksType == \A t \in Types : \A iv \in InnerOf[t] : InnerBlocks[t][iv] \in Int
<1> DEFINE G == {t \in Types : \A iv \in InnerOf[t] : InnerBlocks[t][iv] \in Int}
<1>1. ASSUME NEW t \in Types, Members(t) \subseteq G, NEW iv \in InnerOf[t]
      PROVE  InnerBlocks[t][iv] \in Int
  <2>1. CASE IsBlockable(t)
    <3>1. IsBlockOf(iv.block, t)
      BY <2>1, InnerShape
    <3>2. Allocated(Len(iv.block)) \in Int
      BY <3>1, AllocatedType DEF IsBlockOf
    <3> QED BY <2>1, <3>2, DenseBlocks
  <2>2. CASE ~IsBlockable(t)
    <3> DEFINE ms == iv.members
               n == Len(ms)
               s == [i \in DOMAIN iv.members |-> ItemBlocks(t, i)[iv.members[i]]]
    <3>1. AreMembersOf(ms, t)
      BY <2>2, InnerShape
    <3>2. n \in Nat /\ DOMAIN ms = 1..n
      BY <3>1 DEF AreMembersOf
    <3>3. ASSUME NEW i \in 1..n PROVE ItemBlocks(t, i)[ms[i]] \in Int
      <4>1. MemberType(t, i) \in Members(t) /\ ms[i] \in InnerOf[MemberType(t, i)]
        BY <3>1 DEF AreMembersOf
      <4>2. CASE ~IsStringArray(t)
        <5>1. MemberType(t, i) \in G
          BY <1>1, <4>1
        <5> QED BY <4>1, <4>2, <5>1 DEF ItemBlocks
      <4>3. CASE IsStringArray(t)
        <5>1. MemberType(t, i) = STRING_T
          BY <4>3, StringArrayCell
        <5> QED BY <4>1, <4>3, <5>1, StringBlocksType DEF ItemBlocks
      <4> QED BY <4>2, <4>3
    <3>4. DOMAIN s = 1..n /\ s = [i \in DOMAIN s |-> s[i]] /\ \A i \in 1..n : s[i] \in Int
      BY <3>2, <3>3
    <3>5. InnerBlocks[t][iv] = 1 + Allocated(n) + Sum(s)
      BY <2>2, ComposedBlocks
    <3> HIDE DEF s, ms, n
    <3>6. Len(s) = n
      BY <3>2, <3>4, LenOf
    <3>7. Sum(s) \in Int
      BY <3>2, <3>4, <3>6, SumType
    <3>8. Allocated(n) \in Int
      BY <3>2, AllocatedType
    <3> QED BY <3>5, <3>7, <3>8
  <2> QED BY <2>1, <2>2
<1>2. Types \subseteq G
  <2>1. \A t \in Types : Members(t) \subseteq G => t \in G
    <3> SUFFICES ASSUME NEW t \in Types, Members(t) \subseteq G PROVE \A iv \in InnerOf[t] : InnerBlocks[t][iv] \in Int
      OBVIOUS
    <3> HIDE DEF G
    <3> QED BY <1>1
  <2> HIDE DEF G
  <2> QED BY <2>1, TypeInduction
<1> QED BY <1>2

-----------------------------------------------------------------------------
(* Writing.  What is written has room, also if it fails.                    *)
Fits(w, room) ==
    /\ w.status \in {SUCCESS, BUFFER_TOO_SMALL} /\ w.out \in Seq(Byte)
    /\ Len(w.out) \in Nat /\ Len(w.out) <= room

WriteStep(acc, w, room) ==
    IF acc.status # SUCCESS THEN acc ELSE WriteNext(acc, w[room - Len(acc.out)])

WriteEachFrom(f, start, ws, room, n) == f = [i \in 0..n |-> IF i = 0 THEN Written(start) ELSE WriteStep(f[i - 1], ws[i], room)]

LEMMA WriteEachExists ==
    ASSUME NEW start, NEW ws, NEW room, NEW N \in Nat
    PROVE  \E f : WriteEachFrom(f, start, ws, room, N)
<1> DEFINE G == {n \in Nat : \E f : WriteEachFrom(f, start, ws, room, n)}
<1>1. 0 \in G
  <2>1. WriteEachFrom([i \in 0..0 |-> Written(start)], start, ws, room, 0)
    BY DEF WriteEachFrom
  <2> QED BY <2>1
<1>2. ASSUME NEW n \in Nat, n \in G PROVE n + 1 \in G
  <2>1. PICK f : WriteEachFrom(f, start, ws, room, n)
    BY <1>2
  <2> DEFINE g == [i \in 0..(n + 1) |-> IF i = 0 THEN Written(start) ELSE WriteStep(f[i - 1], ws[i], room)]
  <2>2. \A i \in 0..n : i \in 0..(n + 1) /\ g[i] = f[i]
    BY <2>1 DEF WriteEachFrom
  <2>3. \A i \in 0..(n + 1) : i # 0 => i - 1 \in 0..n
    OBVIOUS
  <2>4. \A i \in 0..(n + 1) : g[i] = IF i = 0 THEN Written(start) ELSE WriteStep(f[i - 1], ws[i], room)
    OBVIOUS
  <2>5. g = [i \in 0..(n + 1) |-> g[i]]
    OBVIOUS
  <2> HIDE DEF g
  <2>6. \A i \in 0..(n + 1) : g[i] = IF i = 0 THEN Written(start) ELSE WriteStep(g[i - 1], ws[i], room)
    BY <2>2, <2>3, <2>4
  <2>7. WriteEachFrom(g, start, ws, room, n + 1)
    BY <2>5, <2>6 DEF WriteEachFrom
  <2> QED BY <2>7
<1>3. N \in G
  <2> HIDE DEF G
  <2> QED BY <1>1, <1>2, Induction
<1> QED BY <1>3

IsWriteEach(f, start, ws, room, n) == f[0] = Written(start) /\ \A i \in 1..n : f[i] = WriteStep(f[i - 1], ws[i], room)

LEMMA WriteEachIs ==
    ASSUME NEW start, NEW ws, NEW room, NEW n \in Nat, Len(ws) = n
    PROVE  \E f : IsWriteEach(f, start, ws, room, n) /\ WriteEach(start, ws, room) = f[n]
<1> DEFINE F == CHOOSE f : WriteEachFrom(f, start, ws, room, n)
<1>1. WriteEach(start, ws, room) = F[n]
  BY DEF WriteEach, WriteStep, WriteEachFrom
<1>2. WriteEachFrom(F, start, ws, room, n)
  BY WriteEachExists
<1> HIDE DEF F
<1>3. IsWriteEach(F, start, ws, room, n)
  BY <1>2 DEF WriteEachFrom, IsWriteEach
<1> QED BY <1>1, <1>3

LEMMA WriteEachFits ==
    ASSUME NEW room \in Nat, NEW start \in Seq(Byte), Len(start) <= room,
           NEW n \in Nat, NEW ws, Len(ws) = n,
           \A i \in 1..n : \A r \in Nat : Fits(ws[i][r], r)
    PROVE  Fits(WriteEach(start, ws, room), room)
<1>1. PICK f : IsWriteEach(f, start, ws, room, n) /\ WriteEach(start, ws, room) = f[n]
  BY WriteEachIs
<1> DEFINE G == {i \in Nat : i <= n => Fits(f[i], room)}
<1>2. 0 \in G
  <2>1. Len(start) \in Nat
    BY LenProperties
  <2> QED BY <1>1, <2>1 DEF Fits, Written, IsWriteEach
<1>3. ASSUME NEW i \in 0..(n - 1), i \in G PROVE i + 1 \in G
  <2>1. i + 1 \in 1..n /\ (i + 1) - 1 = i /\ i <= n /\ i + 1 \in Nat
    OBVIOUS
  <2> DEFINE acc == f[i]
  <2>2. Fits(acc, room)
    BY <1>3, <2>1
  <2>3. f[i + 1] = WriteStep(acc, ws[i + 1], room)
    BY <1>1, <2>1 DEF IsWriteEach
  <2> HIDE DEF acc
  <2>4. CASE acc.status # SUCCESS
    BY <2>1, <2>2, <2>3, <2>4 DEF WriteStep
  <2>5. CASE acc.status = SUCCESS
    <3> DEFINE r == room - Len(acc.out)
               w == ws[i + 1][r]
    <3>1. r \in Nat /\ r = room - Len(acc.out)
      BY <2>2 DEF Fits
    <3>2. Fits(w, r)
      <4> HIDE DEF r
      <4> QED BY <2>1, <3>1
    <3>3. f[i + 1] = [status |-> w.status, out |-> acc.out \o w.out]
      BY <2>3, <2>5 DEF WriteStep, WriteNext
    <3> HIDE DEF w, r
    <3> DEFINE both == acc.out \o w.out
               a == Len(acc.out)
               b == Len(w.out)
    <3>4. both \in Seq(Byte) /\ Len(both) = a + b
      BY <2>2, <3>2, ConcatProperties DEF Fits
    <3>5. a \in Nat /\ b \in Nat /\ b <= r /\ r = room - a /\ w.status \in {SUCCESS, BUFFER_TOO_SMALL}
      BY <2>2, <3>1, <3>2 DEF Fits
    <3>6. f[i + 1] = [status |-> w.status, out |-> both]
      BY <3>3
    <3> HIDE DEF a, b, both
    <3>7. Len(both) \in Nat /\ Len(both) <= room
      BY <3>1, <3>4, <3>5
    <3>8. Fits(f[i + 1], room)
      <4>1. f[i + 1].status = w.status /\ f[i + 1].out = both
        BY <3>6
      <4> QED BY <3>4, <3>5, <3>7, <4>1 DEF Fits
    <3> QED BY <2>1, <3>8
  <2> QED BY <2>4, <2>5
<1>4. \A i \in 0..n : i \in G
  <2> HIDE DEF G
  <2> QED BY <1>2, <1>3, Induction
<1> QED BY <1>1, <1>4

TypeToBufferOf(f, t) == [room \in Int |->
    IF room < 1 \/ (t.tid = STRUCT_TID /\ room < 2) THEN TooSmall(<<>>)
    ELSE IF IsPrimitive(t) THEN Written(<<t.tid>>)
    ELSE IF t.tid = ARRAY_TID THEN WriteEach(<<ARRAY_TID>>, <<f[t.cell]>>, room)
    ELSE WriteEach(<<STRUCT_TID, Len(t.fields)>>,
                   [i \in DOMAIN t.fields |-> f[t.fields[i]]], room)]

LEMMA TypeToBufferAgree ==
    ASSUME NEW t \in Types, NEW f, NEW g, \A m \in Members(t) : f[m] = g[m]
    PROVE  TypeToBufferOf(f, t) = TypeToBufferOf(g, t)
<1>1. CASE IsPrimitive(t)
  BY <1>1 DEF TypeToBufferOf
<1>2. CASE ~IsPrimitive(t) /\ t.tid = ARRAY_TID
  <2>1. f[t.cell] = g[t.cell]
    BY <1>2, CellAgrees
  <2> QED BY <1>2, <2>1 DEF TypeToBufferOf
<1>3. CASE ~IsPrimitive(t) /\ t.tid = STRUCT_TID /\ t.tid # ARRAY_TID
  <2>1. [i \in DOMAIN t.fields |-> f[t.fields[i]]] = [i \in DOMAIN t.fields |-> g[t.fields[i]]]
    BY <1>3, FieldsAgree
  <2> QED BY <1>3, <2>1 DEF TypeToBufferOf
<1> QED BY <1>1, <1>2, <1>3, TypeCases

LEMMA TypeToBufferExists ==
    \A d \in 0..(MaxSize + 1) : \E f : f = [t \in Below(d) |-> TypeToBufferOf(f, t)]
<1> DEFINE Solves(f, d) == f = [t \in Below(d) |-> TypeToBufferOf(f, t)]
           G == {d \in Nat : d <= MaxSize + 1 => \E f : Solves(f, d)}
<1>1. 0 \in G
  <2>1. Solves([t \in {} |-> 0], 0)
    BY DEF Below
  <2> HIDE DEF Solves
  <2> QED BY <2>1
<1>2. ASSUME NEW d \in 0..MaxSize, d \in G PROVE d + 1 \in G
  <2>1. d <= MaxSize + 1 /\ d + 1 \in 0..(MaxSize + 1) /\ d + 1 \in Nat
    BY MaxSizeType
  <2>2. PICK f : Solves(f, d)
    BY <1>2, <2>1
  <2>3. \A t \in Below(d) : f[t] = TypeToBufferOf(f, t)
    BY <2>2
  <2> DEFINE g == [t \in Below(d + 1) |-> TypeToBufferOf(f, t)]
  <2>4. \A t \in Below(d + 1) : g[t] = TypeToBufferOf(f, t)
    OBVIOUS
  <2>5. g = [t \in Below(d + 1) |-> g[t]]
    OBVIOUS
  <2> HIDE DEF g
  <2>6. \A t \in Below(d) : g[t] = f[t]
    BY <2>3, <2>4, BelowGrows
  <2>7. ASSUME NEW t \in Below(d + 1) PROVE g[t] = TypeToBufferOf(g, t)
    <3>1. t \in Types
      BY <2>1, BelowAll
    <3>2. \A m \in Members(t) : f[m] = g[m]
      BY <2>6, MembersBelow
    <3>3. TypeToBufferOf(f, t) = TypeToBufferOf(g, t)
      BY <3>1, <3>2, TypeToBufferAgree
    <3> QED BY <2>4, <3>3
  <2>8. Solves(g, d + 1)
    BY <2>5, <2>7
  <2> HIDE DEF Solves
  <2> QED BY <2>1, <2>8
<1>3. \A d \in 0..(MaxSize + 1) : d \in G
  <2>1. MaxSize = (MaxSize + 1) - 1
    BY MaxSizeType
  <2> HIDE DEF G
  <2> QED BY <1>1, <1>2, <2>1, MaxSizeType, Induction
<1> QED BY <1>3

LEMMA TypeToBufferUnfold == \A t \in Types : TypeToBuffer[t] = TypeToBufferOf(TypeToBuffer, t)
<1> DEFINE Whole(f) == f = [t \in Types |-> TypeToBufferOf(f, t)]
<1>1. TypeToBuffer = CHOOSE f : Whole(f)
  BY DEF TypeToBuffer, TypeToBufferOf
<1>2. Whole(TypeToBuffer)
  <2>1. \E f : Whole(f)
    <3>1. MaxSize + 1 \in 0..(MaxSize + 1)
      BY MaxSizeType
    <3> QED BY <3>1, TypeToBufferExists, BelowAll
  <2> HIDE DEF Whole
  <2> QED BY <1>1, <2>1
<1> QED BY <1>2

LEMMA FitsNothing == \A room \in Nat : Fits(TooSmall(<<>>), room) /\ Fits(Written(<<>>), room)
<1>1. <<>> \in Seq(Byte) /\ Len(<<>>) = 0
  BY EmptySeq
<1> QED BY <1>1 DEF Fits, TooSmall, Written

LEMMA OneByte == \A b \in Byte : <<b>> \in Seq(Byte) /\ Len(<<b>>) = 1
OBVIOUS

LEMMA TypeToBufferFits == \A t \in Types : \A room \in Nat : Fits(TypeToBuffer[t][room], room)
<1> DEFINE G == {t \in Types : \A room \in Nat : Fits(TypeToBuffer[t][room], room)}
<1>1. ASSUME NEW t \in Types, Members(t) \subseteq G, NEW room \in Nat
      PROVE  Fits(TypeToBuffer[t][room], room)
  <2> DEFINE w == TypeToBuffer[t][room]
  <2>1. w = TypeToBufferOf(TypeToBuffer, t)[room] /\ room \in Int
    BY TypeToBufferUnfold
  <2>2. CASE room < 1 \/ (t.tid = STRUCT_TID /\ room < 2)
    <3>1. w = TooSmall(<<>>)
      BY <2>1, <2>2 DEF TypeToBufferOf
    <3> HIDE DEF w
    <3> QED BY <3>1, FitsNothing DEF w
  <2>3. CASE ~(room < 1 \/ (t.tid = STRUCT_TID /\ room < 2)) /\ IsPrimitive(t)
    <3>1. w = Written(<<t.tid>>)
      BY <2>1, <2>3 DEF TypeToBufferOf
    <3>2. t.tid \in Byte
      BY <2>3, TypeCases DEF Byte, STRING_TID
    <3> HIDE DEF w
    <3>3. <<t.tid>> \in Seq(Byte) /\ Len(<<t.tid>>) = 1
      BY <3>2, OneByte
    <3>4. Fits(w, room)
      BY <2>3, <3>1, <3>3 DEF Fits, Written
    <3> QED BY <3>4 DEF w
  <2>4. CASE ~(room < 1 \/ (t.tid = STRUCT_TID /\ room < 2)) /\ ~IsPrimitive(t) /\ t.tid = ARRAY_TID
    <3> DEFINE ws == <<TypeToBuffer[t.cell]>>
    <3>1. w = WriteEach(<<ARRAY_TID>>, ws, room)
      BY <2>1, <2>4 DEF TypeToBufferOf
    <3>2. t.cell \in G
      BY <1>1, <2>4 DEF Members
    <3>3. Len(ws) = 1 /\ \A i \in 1..1 : \A r \in Nat : Fits(ws[i][r], r)
      BY <3>2
    <3> HIDE DEF w, ws
    <3>4. <<ARRAY_TID>> \in Seq(Byte) /\ Len(<<ARRAY_TID>>) = 1
      BY OneByte DEF ARRAY_TID, Byte
    <3>5. Len(<<ARRAY_TID>>) <= room
      BY <2>4, <3>4
    <3>6. Fits(w, room)
      BY <3>1, <3>3, <3>4, <3>5, WriteEachFits
    <3> QED BY <3>6 DEF w
  <2>5. CASE /\ ~(room < 1 \/ (t.tid = STRUCT_TID /\ room < 2)) /\ ~IsPrimitive(t)
             /\ t.tid = STRUCT_TID /\ t.tid # ARRAY_TID
             /\ t.fields \in Seq(Types) /\ Len(t.fields) \in 1..MaxFields
    <3> DEFINE ws == [i \in DOMAIN t.fields |-> TypeToBuffer[t.fields[i]]]
               n == Len(t.fields)
               start == <<STRUCT_TID, Len(t.fields)>>
    <3>1. w = WriteEach(start, ws, room)
      BY <2>1, <2>5 DEF TypeToBufferOf
    <3>2. n \in Nat /\ DOMAIN t.fields = 1..n /\ n \in Byte
      <4>1. n \in Nat /\ DOMAIN t.fields = 1..n
        BY <2>5, LenProperties
      <4>2. n \in 1..MaxFields
        BY <2>5
      <4> HIDE DEF n
      <4>3. n \in Byte
        BY <4>2, Bounds DEF Byte
      <4> QED BY <4>1, <4>3
    <3>3. \A i \in DOMAIN t.fields : t.fields[i] \in G
      BY <1>1, <2>5 DEF Members
    <3>4. DOMAIN ws = 1..n /\ ws = [i \in DOMAIN ws |-> ws[i]]
          /\ \A i \in 1..n : \A r \in Nat : Fits(ws[i][r], r)
      BY <3>2, <3>3
    <3>5. start \in Seq(Byte) /\ Len(start) = 2
      <4>1. STRUCT_TID \in Byte
        BY DEF STRUCT_TID, Byte
      <4> HIDE DEF n
      <4> QED BY <3>2, <4>1 DEF n
    <3> HIDE DEF w, ws, n, start
    <3>6. Len(ws) = n
      BY <3>2, <3>4, LenOf
    <3>7. Len(start) <= room
      BY <2>5, <3>5
    <3>8. Fits(w, room)
      BY <3>1, <3>2, <3>4, <3>5, <3>6, <3>7, WriteEachFits
    <3> QED BY <3>8 DEF w
  <2> QED BY <2>2, <2>3, <2>4, <2>5, TypeCases
<1>2. Types \subseteq G
  <2>1. ASSUME NEW t \in Types, Members(t) \subseteq G PROVE t \in G
    <3>1. \A room \in Nat : Fits(TypeToBuffer[t][room], room)
      <4> HIDE DEF G
      <4> QED BY <1>1, <2>1
    <3> QED BY <3>1
  <2> HIDE DEF G
  <2> QED BY <2>1, TypeInduction
<1> QED BY <1>2

LEMMA ToBytesIs == \A n \in Nat : ToBytes(n) \in Seq(Byte) /\ Len(ToBytes(n)) = LengthBytes
<1> SUFFICES ASSUME NEW n \in Nat PROVE ToBytes(n) \in Seq(Byte) /\ Len(ToBytes(n)) = LengthBytes
  OBVIOUS
<1>1. ASSUME NEW m \in Nat PROVE m % 256 \in Byte
  BY DEF Byte
<1>2. n \div 256 \in Nat /\ n \div 65536 \in Nat /\ n \div 16777216 \in Nat
  OBVIOUS
<1> DEFINE a == n % 256
           b == (n \div 256) % 256
           c == (n \div 65536) % 256
           d == (n \div 16777216) % 256
<1>3. a \in Byte /\ b \in Byte /\ c \in Byte /\ d \in Byte
  BY <1>1, <1>2
<1>4. ToBytes(n) = <<a, b, c, d>>
  BY DEF ToBytes
<1> HIDE DEF a, b, c, d
<1>5. <<a, b, c, d>> \in Seq(Byte) /\ Len(<<a, b, c, d>>) = 4
  BY <1>3
<1> QED BY <1>4, <1>5 DEF LengthBytes

LEMMA CellSizes == \A t \in Types : IsBlockable(t) => CellSize(t) \in {1, 2, 4, 8}
<1> SUFFICES ASSUME NEW t \in Types, IsBlockable(t) PROVE CellSize(t) \in {1, 2, 4, 8}
  OBVIOUS
<1> DEFINE k == IF IsPrimitive(t) THEN t.tid + 1 ELSE t.cell.tid + 1
<1>1. k \in 1..10
  <2>1. CASE IsPrimitive(t)
    BY <2>1, TypeCases DEF STRING_TID
  <2>2. CASE ~IsPrimitive(t)
    <3>1. t.tid = ARRAY_TID /\ IsPrimitive(t.cell)
      BY <2>2 DEF IsBlockable
    <3>2. t.cell \in Types
      BY <2>2, <3>1, TypeCases DEF ARRAY_TID, STRUCT_TID
    <3>3. t.cell.tid \in 0..STRING_TID
      BY <3>1, <3>2, TypeCases
    <3> QED BY <2>2, <3>3 DEF STRING_TID
  <2> QED BY <2>1, <2>2
<1>2. CellSize(t) = <<1, 2, 4, 8, 2, 4, 8, 4, 8, 1>>[k]
  BY DEF CellSize
<1> HIDE DEF k
<1>3. k = 1 \/ k = 2 \/ k = 3 \/ k = 4 \/ k = 5 \/ k = 6 \/ k = 7 \/ k = 8 \/ k = 9 \/ k = 10
  BY <1>1
<1> QED BY <1>2, <1>3

LEMMA StringIs ==
    \A b \in Seq(Byte) : String(b) \in Seq(Byte) /\ Len(String(b)) \in Nat /\ Len(String(b)) <= Len(b)
<1> SUFFICES ASSUME NEW b \in Seq(Byte)
             PROVE String(b) \in Seq(Byte) /\ Len(String(b)) \in Nat /\ Len(String(b)) <= Len(b)
  OBVIOUS
<1> DEFINE ends == {n \in DOMAIN b : b[n] = 0}
           k == CHOOSE n \in ends : \A m \in ends : n <= m
<1>1. Len(b) \in Nat /\ DOMAIN b = 1..Len(b)
  BY LenProperties
<1>2. CASE ends = {}
  BY <1>1, <1>2 DEF String
<1>3. CASE ends # {}
  <2>1. ends \subseteq Nat
    BY <1>1
  <2>2. \E n \in ends : \A m \in ends : n <= m
    <3> DEFINE R == OpToRel(<, Nat)
    <3>1. \A i, j \in Nat : j < i => <<j, i>> \in R
      BY DEF OpToRel
    <3>2. IsWellFoundedOn(R, Nat)
      BY NatLessThanWellFounded
    <3> HIDE DEF R, ends
    <3>3. \E n \in ends : \A m \in ends : ~(<<m, n>> \in R)
      BY <1>3, <2>1, <3>2, WFMin
    <3>4. PICK n \in ends : \A m \in ends : ~(<<m, n>> \in R)
      BY <3>3
    <3>5. ASSUME NEW m \in ends PROVE n <= m
      <4>1. n \in Nat /\ m \in Nat /\ ~(<<m, n>> \in R)
        BY <2>1, <3>4
      <4>2. ~(m < n)
        BY <3>1, <4>1
      <4> QED BY <4>1, <4>2
    <3> QED BY <3>5
  <2>3. k \in ends
    <3> HIDE DEF ends
    <3> QED BY <2>2
  <2>4. k \in 1..Len(b)
    <3> HIDE DEF k
    <3> QED BY <1>1, <2>3
  <2>5. String(b) = SubSeq(b, 1, k)
    BY <1>3 DEF String
  <2> HIDE DEF k
  <2>6. \A i \in 1..k : i \in 1..Len(b)
    BY <1>1, <2>4
  <2>7. SubSeq(b, 1, k) \in Seq(Byte) /\ Len(SubSeq(b, 1, k)) = k
    BY <1>1, <2>4, <2>6, SubSeqProperties
  <2> QED BY <1>1, <2>4, <2>5, <2>7
<1> QED BY <1>2, <1>3

LEMMA BlockIs ==
    \A t \in Types : IsBlockable(t) => \A iv \in InnerOf[t] :
        Block(t, iv) \in Seq(Byte) /\ Len(Block(t, iv)) \in Nat
BY InnerShape, StringIs, LenProperties DEF Block, IsBlockOf

LEMMA BlockToBufferFits ==
    ASSUME NEW t \in Types, IsBlockable(t), NEW b \in Seq(Byte), NEW room \in Nat
    PROVE  Fits(BlockToBuffer(t, b, room), room)
<1> DEFINE prefix == IF HasLength(t) THEN ToBytes(Len(b) \div CellSize(t)) ELSE <<>>
           w == BlockToBuffer(t, b, room)
<1>1. Len(b) \in Nat
  BY LenProperties
<1>2. prefix \in Seq(Byte) /\ Len(prefix) \in Nat
  <2>1. CASE HasLength(t)
    <3> DEFINE n == Len(b)
               s == CellSize(t)
    <3>1. n \in Nat /\ s \in {1, 2, 4, 8}
      BY <1>1, CellSizes
    <3> HIDE DEF n, s
    <3>2. n \div s \in Nat
      BY <3>1
    <3>3. ToBytes(n \div s) \in Seq(Byte) /\ Len(ToBytes(n \div s)) = LengthBytes
      BY <3>2, ToBytesIs
    <3>4. prefix = ToBytes(n \div s)
      BY <2>1 DEF n, s
    <3> HIDE DEF prefix
    <3> QED BY <3>3, <3>4 DEF LengthBytes
  <2>2. CASE ~HasLength(t)
    <3>1. prefix = <<>>
      BY <2>2
    <3> HIDE DEF prefix
    <3> QED BY <3>1, EmptySeq
  <2> QED BY <2>1, <2>2
<1>3. w = IF room < Len(prefix) THEN TooSmall(<<>>)
          ELSE IF Len(prefix) + Len(b) <= room THEN Written(prefix \o b)
          ELSE TooSmall(prefix)
  BY DEF BlockToBuffer, BlockRoom
<1>4. prefix \o b \in Seq(Byte) /\ Len(prefix \o b) = Len(prefix) + Len(b)
  <2> HIDE DEF prefix
  <2> QED BY <1>2, ConcatProperties
<1> DEFINE both == prefix \o b
<1> HIDE DEF prefix, w, both
<1>5. CASE room < Len(prefix)
  <2>1. w = TooSmall(<<>>)
    BY <1>3, <1>5
  <2>2. Fits(w, room)
    BY <2>1, FitsNothing
  <2> QED BY <2>2 DEF w
<1>6. CASE ~(room < Len(prefix)) /\ Len(prefix) + Len(b) <= room
  <2>1. w = Written(both)
    BY <1>3, <1>6 DEF both
  <2>2. both \in Seq(Byte) /\ Len(both) = Len(prefix) + Len(b)
    BY <1>4 DEF both
  <2>3. Len(both) \in Nat /\ Len(both) <= room
    BY <1>1, <1>2, <1>6, <2>2
  <2>4. Fits(w, room)
    BY <2>1, <2>2, <2>3 DEF Fits, Written
  <2> QED BY <2>4 DEF w
<1>7. CASE ~(room < Len(prefix)) /\ ~(Len(prefix) + Len(b) <= room)
  <2>1. w = TooSmall(prefix)
    BY <1>3, <1>7
  <2>2. Len(prefix) <= room
    BY <1>2, <1>7
  <2>3. Fits(w, room)
    BY <1>2, <2>1, <2>2 DEF Fits, TooSmall
  <2> QED BY <2>3 DEF w
<1> QED BY <1>5, <1>6, <1>7

InnerToBufferOf(f, t) == [iv \in InnerOf[t] |-> [room \in Int |->
    LET n == Len(iv.members)
        members == [i \in 1..n |-> f[MemberType(t, i)][iv.members[i]]]
    IN IF IsBlockable(t) THEN BlockToBuffer(t, Block(t, iv), room)
       ELSE IF t.tid = STRUCT_TID THEN WriteEach(<<>>, members, room)
       ELSE IF room < LengthBytes THEN TooSmall(<<>>)
       ELSE WriteEach(ToBytes(n), members, room)]]

LEMMA InnerToBufferAgree ==
    ASSUME NEW t \in Types, NEW f, NEW g, \A m \in Members(t) : f[m] = g[m]
    PROVE  InnerToBufferOf(f, t) = InnerToBufferOf(g, t)
<1> DEFINE Ws(h, iv) == [i \in 1..Len(iv.members) |-> h[MemberType(t, i)][iv.members[i]]]
           Of(h, iv, room) ==
               IF IsBlockable(t) THEN BlockToBuffer(t, Block(t, iv), room)
               ELSE IF t.tid = STRUCT_TID THEN WriteEach(<<>>, Ws(h, iv), room)
               ELSE IF room < LengthBytes THEN TooSmall(<<>>)
               ELSE WriteEach(ToBytes(Len(iv.members)), Ws(h, iv), room)
<1>1. ASSUME NEW iv \in InnerOf[t], ~IsBlockable(t) PROVE Ws(f, iv) = Ws(g, iv)
  <2>1. AreMembersOf(iv.members, t)
    BY <1>1, InnerShape
  <2>2. \A i \in 1..Len(iv.members) : f[MemberType(t, i)] = g[MemberType(t, i)]
    BY <2>1 DEF AreMembersOf
  <2> QED BY <2>2
<1>2. \A iv \in InnerOf[t] : \A room \in Int : Of(f, iv, room) = Of(g, iv, room)
  <2> HIDE DEF Ws
  <2> QED BY <1>1
<1>3. InnerToBufferOf(f, t) = [iv \in InnerOf[t] |-> [room \in Int |-> Of(f, iv, room)]]
      /\ InnerToBufferOf(g, t) = [iv \in InnerOf[t] |-> [room \in Int |-> Of(g, iv, room)]]
  BY DEF InnerToBufferOf
<1> HIDE DEF Of
<1>4. \A iv \in InnerOf[t] : [room \in Int |-> Of(f, iv, room)] = [room \in Int |-> Of(g, iv, room)]
  BY <1>2
<1> QED BY <1>3, <1>4

LEMMA InnerToBufferExists ==
    \A d \in 0..(MaxSize + 1) : \E f : f = [t \in Below(d) |-> InnerToBufferOf(f, t)]
<1> DEFINE Solves(f, d) == f = [t \in Below(d) |-> InnerToBufferOf(f, t)]
           G == {d \in Nat : d <= MaxSize + 1 => \E f : Solves(f, d)}
<1>1. 0 \in G
  <2>1. Solves([t \in {} |-> 0], 0)
    BY DEF Below
  <2> HIDE DEF Solves
  <2> QED BY <2>1
<1>2. ASSUME NEW d \in 0..MaxSize, d \in G PROVE d + 1 \in G
  <2>1. d <= MaxSize + 1 /\ d + 1 \in 0..(MaxSize + 1) /\ d + 1 \in Nat
    BY MaxSizeType
  <2>2. PICK f : Solves(f, d)
    BY <1>2, <2>1
  <2>3. \A t \in Below(d) : f[t] = InnerToBufferOf(f, t)
    BY <2>2
  <2> DEFINE g == [t \in Below(d + 1) |-> InnerToBufferOf(f, t)]
  <2>4. \A t \in Below(d + 1) : g[t] = InnerToBufferOf(f, t)
    OBVIOUS
  <2>5. g = [t \in Below(d + 1) |-> g[t]]
    OBVIOUS
  <2> HIDE DEF g
  <2>6. \A t \in Below(d) : g[t] = f[t]
    BY <2>3, <2>4, BelowGrows
  <2>7. ASSUME NEW t \in Below(d + 1) PROVE g[t] = InnerToBufferOf(g, t)
    <3>1. t \in Types
      BY <2>1, BelowAll
    <3>2. \A m \in Members(t) : f[m] = g[m]
      BY <2>6, MembersBelow
    <3>3. InnerToBufferOf(f, t) = InnerToBufferOf(g, t)
      BY <3>1, <3>2, InnerToBufferAgree
    <3> QED BY <2>4, <3>3
  <2>8. Solves(g, d + 1)
    BY <2>5, <2>7
  <2> HIDE DEF Solves
  <2> QED BY <2>1, <2>8
<1>3. \A d \in 0..(MaxSize + 1) : d \in G
  <2>1. MaxSize = (MaxSize + 1) - 1
    BY MaxSizeType
  <2> HIDE DEF G
  <2> QED BY <1>1, <1>2, <2>1, MaxSizeType, Induction
<1> QED BY <1>3

LEMMA InnerToBufferUnfold == \A t \in Types : InnerToBuffer[t] = InnerToBufferOf(InnerToBuffer, t)
<1> DEFINE Whole(f) == f = [t \in Types |-> InnerToBufferOf(f, t)]
<1>1. InnerToBuffer = CHOOSE f : Whole(f)
  BY DEF InnerToBuffer, InnerToBufferOf
<1>2. Whole(InnerToBuffer)
  <2>1. \E f : Whole(f)
    <3>1. MaxSize + 1 \in 0..(MaxSize + 1)
      BY MaxSizeType
    <3> QED BY <3>1, InnerToBufferExists, BelowAll
  <2> HIDE DEF Whole
  <2> QED BY <1>1, <2>1
<1> QED BY <1>2

LEMMA InnerToBufferFits ==
    \A t \in Types : \A iv \in InnerOf[t] : \A room \in Nat : Fits(InnerToBuffer[t][iv][room], room)
<1> DEFINE G == {t \in Types : \A iv \in InnerOf[t] : \A room \in Nat :
                                   Fits(InnerToBuffer[t][iv][room], room)}
<1>1. ASSUME NEW t \in Types, Members(t) \subseteq G, NEW iv \in InnerOf[t], NEW room \in Nat
      PROVE  Fits(InnerToBuffer[t][iv][room], room)
  <2> DEFINE w == InnerToBuffer[t][iv][room]
             ms == iv.members
             n == Len(iv.members)
             ws == [i \in 1..n |-> InnerToBuffer[MemberType(t, i)][iv.members[i]]]
  <2>1. w = InnerToBufferOf(InnerToBuffer, t)[iv][room] /\ room \in Int
    BY InnerToBufferUnfold
  <2>2. w = IF IsBlockable(t) THEN BlockToBuffer(t, Block(t, iv), room)
            ELSE IF t.tid = STRUCT_TID THEN WriteEach(<<>>, ws, room)
            ELSE IF room < LengthBytes THEN TooSmall(<<>>)
            ELSE WriteEach(ToBytes(n), ws, room)
    BY <2>1 DEF InnerToBufferOf
  <2>3. CASE IsBlockable(t)
    <3>1. w = BlockToBuffer(t, Block(t, iv), room)
      BY <2>2, <2>3
    <3> HIDE DEF w
    <3>2. Fits(w, room)
      BY <2>3, <3>1, BlockIs, BlockToBufferFits
    <3> QED BY <3>2 DEF w
  <2>4. CASE ~IsBlockable(t)
    <3>1. AreMembersOf(ms, t)
      BY <2>4, InnerShape
    <3>2. n \in Nat /\ \A i \in 1..n : /\ MemberType(t, i) \in G
                                      /\ ms[i] \in InnerOf[MemberType(t, i)]
      BY <1>1, <3>1 DEF AreMembersOf
    <3>3. DOMAIN ws = 1..n /\ ws = [i \in DOMAIN ws |-> ws[i]]
          /\ \A i \in 1..n : \A r \in Nat : Fits(ws[i][r], r)
      BY <3>2
    <3> HIDE DEF w, ws, n, ms, G
    <3>4. Len(ws) = n
      BY <3>2, <3>3, LenOf
    <3>5. CASE t.tid = STRUCT_TID
      <4>1. w = WriteEach(<<>>, ws, room)
        BY <2>2, <2>4, <3>5
      <4>2. <<>> \in Seq(Byte) /\ Len(<<>>) <= room
        BY EmptySeq
      <4>3. Fits(w, room)
        BY <3>2, <3>3, <3>4, <4>1, <4>2, WriteEachFits
      <4> QED BY <4>3 DEF w
    <3>6. CASE t.tid # STRUCT_TID /\ room < LengthBytes
      <4>1. w = TooSmall(<<>>)
        BY <2>2, <2>4, <3>6
      <4>2. Fits(w, room)
        BY <4>1, FitsNothing
      <4> QED BY <4>2 DEF w
    <3>7. CASE t.tid # STRUCT_TID /\ ~(room < LengthBytes)
      <4> DEFINE start == ToBytes(n)
      <4>1. w = WriteEach(start, ws, room)
        BY <2>2, <2>4, <3>7
      <4>2. start \in Seq(Byte) /\ Len(start) = LengthBytes
        BY <3>2, ToBytesIs
      <4> HIDE DEF start
      <4>3. Len(start) <= room
        BY <3>7, <4>2 DEF LengthBytes
      <4>4. Fits(w, room)
        BY <3>2, <3>3, <3>4, <4>1, <4>2, <4>3, WriteEachFits
      <4> QED BY <4>4 DEF w
    <3> QED BY <3>5, <3>6, <3>7 DEF w
  <2> QED BY <2>3, <2>4
<1>2. Types \subseteq G
  <2>1. ASSUME NEW t \in Types, Members(t) \subseteq G PROVE t \in G
    <3>1. \A iv \in InnerOf[t] : \A room \in Nat : Fits(InnerToBuffer[t][iv][room], room)
      <4> HIDE DEF G
      <4> QED BY <1>1, <2>1
    <3> QED BY <3>1
  <2> HIDE DEF G
  <2> QED BY <2>1, TypeInduction
<1> QED BY <1>2

LEMMA ValueToBufferFits ==
    ASSUME NEW v, IsValue(v), NEW room \in Nat
    PROVE  Fits(ValueToBuffer(v, room), room)
<1> DEFINE ws == <<TypeToBuffer[v.type], InnerToBuffer[v.type][v.iv]>>
<1>1. ValueToBuffer(v, room) = WriteEach(<<>>, ws, room)
  BY DEF ValueToBuffer
<1>2. Len(ws) = 2 /\ ws[1] = TypeToBuffer[v.type] /\ ws[2] = InnerToBuffer[v.type][v.iv]
  OBVIOUS
<1> HIDE DEF ws
<1>3. v.type \in Types /\ v.iv \in InnerOf[v.type]
  BY DEF IsValue
<1>4. (\A r \in Nat : Fits(ws[1][r], r)) /\ (\A r \in Nat : Fits(ws[2][r], r))
  BY <1>2, <1>3, TypeToBufferFits, InnerToBufferFits
<1>5. \A i \in 1..2 : i = 1 \/ i = 2
  OBVIOUS
<1>6. \A i \in 1..2 : \A r \in Nat : Fits(ws[i][r], r)
  BY <1>4, <1>5
<1>7. <<>> \in Seq(Byte) /\ Len(<<>>) <= room
  BY EmptySeq
<1> QED BY <1>1, <1>2, <1>6, <1>7, WriteEachFits

(* Nothing or a value.                                                      *)
IsOption(vs) == vs = <<>> \/ (vs # <<>> /\ IsValue(vs[1]))

LEMMA WithLengthFits ==
    ASSUME NEW vs, IsOption(vs), NEW room \in Nat
    PROVE  Fits(WithLength(vs)[room], room)
<1> DEFINE u == WithLength(vs)[room]
           r == room - LengthBytes
           w == IF vs = <<>> THEN Written(<<>>) ELSE ValueToBuffer(vs[1], r)
<1>1. u = IF room < LengthBytes THEN TooSmall(<<>>)
          ELSE [status |-> w.status, out |-> Written(ToBytes(Len(w.out))).out \o w.out]
  <2>1. room \in Int
    OBVIOUS
  <2> QED BY <2>1 DEF WithLength, ValueToBufferWithLength, WriteNext
<1>2. CASE room < LengthBytes
  <2>1. u = TooSmall(<<>>)
    BY <1>1, <1>2
  <2> HIDE DEF u
  <2>2. Fits(u, room)
    BY <2>1, FitsNothing
  <2> QED BY <2>2 DEF u
<1>3. CASE ~(room < LengthBytes)
  <2>1. r \in Nat /\ r = room - 4
    BY <1>3 DEF LengthBytes
  <2>2. Fits(w, r)
    <3> HIDE DEF r
    <3>1. CASE vs = <<>>
      <4>1. w = Written(<<>>)
        BY <3>1
      <4> HIDE DEF w
      <4> QED BY <2>1, <4>1, FitsNothing
    <3>2. CASE vs # <<>> /\ IsValue(vs[1])
      <4>1. w = ValueToBuffer(vs[1], r)
        BY <3>2
      <4> HIDE DEF w
      <4> QED BY <2>1, <3>2, <4>1, ValueToBufferFits
    <3> QED BY <3>1, <3>2 DEF IsOption
  <2> DEFINE start == ToBytes(Len(w.out))
             both == start \o w.out
  <2>3. start \in Seq(Byte) /\ Len(start) = LengthBytes
    BY <2>2, ToBytesIs DEF Fits
  <2>4. u = [status |-> w.status, out |-> both]
    BY <1>1, <1>3 DEF Written
  <2> HIDE DEF u, w, r, start
  <2>5. both \in Seq(Byte) /\ Len(both) = Len(start) + Len(w.out)
    BY <2>2, <2>3, ConcatProperties DEF Fits
  <2> HIDE DEF both
  <2>6. Len(both) \in Nat /\ Len(both) <= room
    <3> DEFINE a == Len(w.out)
    <3>1. a \in Nat /\ a <= r /\ Len(both) = 4 + a
      BY <2>2, <2>3, <2>5 DEF Fits, LengthBytes
    <3> HIDE DEF a
    <3> QED BY <2>1, <3>1
  <2>7. Fits(u, room)
    <3>1. u.status = w.status /\ u.out = both
      BY <2>4
    <3> QED BY <2>2, <2>5, <2>6, <3>1 DEF Fits
  <2> QED BY <2>7 DEF u
<1> QED BY <1>2, <1>3

-----------------------------------------------------------------------------
(* Reading.  What is read takes the blocks of its value, and what is        *)
(* refused takes none.                                                      *)
Reads(r, bytes, V, blocks) ==
    /\ r.status \in Byte
    /\ IF r.status = SUCCESS
       THEN r.v \in V /\ r.readden \in Nat /\ r.readden <= Len(bytes) /\ r.blocks = blocks[r.v]
       ELSE r.blocks = 0

LEMMA StatusBytes ==
    {SUCCESS, UNEXPECTED_END, SYNTAX_ERROR, EMPTY_STRUCT_TYPE, STRUCT_TYPE_TOO_LARGE} \subseteq Byte
BY DEF SUCCESS, UNEXPECTED_END, SYNTAX_ERROR, EMPTY_STRUCT_TYPE, STRUCT_TYPE_TOO_LARGE, Byte

LEMMA SuccessIsByte == SUCCESS \in Byte
BY DEF SUCCESS, Byte

LEMMA RefusedReads ==
    \A status, bytes, V, blocks :
        status \in Byte /\ status # SUCCESS => Reads(Refused(status), bytes, V, blocks)
BY DEF Refused, Reads

LEMMA AfterIs ==
    ASSUME NEW bytes \in Seq(Byte), NEW n \in Nat, n <= Len(bytes)
    PROVE  After(bytes, n) \in Seq(Byte) /\ Len(After(bytes, n)) = Len(bytes) - n
<1>1. Len(bytes) \in Nat /\ \A i \in 1..Len(bytes) : bytes[i] \in Byte
  BY LenProperties, ElementOfSeq
<1> DEFINE l == Len(bytes)
<1> HIDE DEF l
<1>2. l \in Nat /\ n <= l /\ \A i \in (n + 1)..l : bytes[i] \in Byte
  <2>1. \A i \in (n + 1)..l : i \in 1..l
    BY <1>1 DEF l
  <2> QED BY <1>1, <2>1 DEF l
<1>3. /\ SubSeq(bytes, n + 1, l) \in Seq(Byte)
      /\ Len(SubSeq(bytes, n + 1, l)) = IF n + 1 <= l THEN l - (n + 1) + 1 ELSE 0
  BY <1>2, SubSeqProperties
<1>4. (IF n + 1 <= l THEN l - (n + 1) + 1 ELSE 0) = l - n
  BY <1>2
<1> QED BY <1>3, <1>4 DEF After, l

LEMMA FirstIs ==
    ASSUME NEW bytes \in Seq(Byte), NEW n \in Nat, n <= Len(bytes)
    PROVE  First(bytes, n) \in Seq(Byte) /\ Len(First(bytes, n)) = n
<1>1. Len(bytes) \in Nat /\ \A i \in 1..Len(bytes) : bytes[i] \in Byte
  BY LenProperties, ElementOfSeq
<1> DEFINE l == Len(bytes)
<1> HIDE DEF l
<1>2. \A i \in 1..n : bytes[i] \in Byte
  <2>1. l \in Nat /\ n <= l /\ \A i \in 1..n : i \in 1..l
    BY <1>1 DEF l
  <2> QED BY <1>1, <2>1 DEF l
<1>3. /\ SubSeq(bytes, 1, n) \in Seq(Byte)
      /\ Len(SubSeq(bytes, 1, n)) = IF 1 <= n THEN n - 1 + 1 ELSE 0
  BY <1>2, SubSeqProperties
<1>4. (IF 1 <= n THEN n - 1 + 1 ELSE 0) = n
  OBVIOUS
<1> QED BY <1>3, <1>4 DEF First

ReadStep(acc, r, frees, bytes) ==
    IF acc.status # SUCCESS THEN acc ELSE ReadNext(acc, r[After(bytes, acc.readden)], frees)

ReadEachFrom(f, readers, frees, bytes, all, n) == f = [i \in 0..n |-> IF i = 0 THEN Read(<<>>, 0, Allocated(all)) ELSE ReadStep(f[i - 1], readers[i], frees, bytes)]

LEMMA ReadEachExists ==
    ASSUME NEW readers, NEW frees, NEW bytes, NEW all, NEW N \in Nat
    PROVE  \E f : ReadEachFrom(f, readers, frees, bytes, all, N)
<1> DEFINE G == {n \in Nat : \E f : ReadEachFrom(f, readers, frees, bytes, all, n)}
<1>1. 0 \in G
  <2>1. ReadEachFrom([i \in 0..0 |-> Read(<<>>, 0, Allocated(all))], readers, frees, bytes, all, 0)
    BY DEF ReadEachFrom
  <2> QED BY <2>1
<1>2. ASSUME NEW n \in Nat, n \in G PROVE n + 1 \in G
  <2>1. PICK f : ReadEachFrom(f, readers, frees, bytes, all, n)
    BY <1>2
  <2> DEFINE g == [i \in 0..(n + 1) |-> IF i = 0 THEN Read(<<>>, 0, Allocated(all)) ELSE ReadStep(f[i - 1], readers[i], frees, bytes)]
  <2>2. \A i \in 0..n : i \in 0..(n + 1) /\ g[i] = f[i]
    BY <2>1 DEF ReadEachFrom
  <2>3. \A i \in 0..(n + 1) : i # 0 => i - 1 \in 0..n
    OBVIOUS
  <2>4. \A i \in 0..(n + 1) : g[i] = IF i = 0 THEN Read(<<>>, 0, Allocated(all)) ELSE ReadStep(f[i - 1], readers[i], frees, bytes)
    OBVIOUS
  <2>5. g = [i \in 0..(n + 1) |-> g[i]]
    OBVIOUS
  <2> HIDE DEF g
  <2>6. \A i \in 0..(n + 1) : g[i] = IF i = 0 THEN Read(<<>>, 0, Allocated(all)) ELSE ReadStep(g[i - 1], readers[i], frees, bytes)
    BY <2>2, <2>3, <2>4
  <2>7. ReadEachFrom(g, readers, frees, bytes, all, n + 1)
    BY <2>5, <2>6 DEF ReadEachFrom
  <2> QED BY <2>7
<1>3. N \in G
  <2> HIDE DEF G
  <2> QED BY <1>1, <1>2, Induction
<1> QED BY <1>3

IsReadEach(f, readers, frees, bytes, all, n) == f[0] = Read(<<>>, 0, Allocated(all)) /\ \A i \in 1..n : f[i] = ReadStep(f[i - 1], readers[i], frees, bytes)

LEMMA ReadEachIs ==
    ASSUME NEW readers, NEW frees, NEW bytes, NEW all, NEW n \in Nat, Len(readers) = n, all = n
    PROVE  \E f : IsReadEach(f, readers, frees, bytes, all, n) /\ ReadEach(readers, frees, bytes) = f[n]
<1> DEFINE F == CHOOSE f : ReadEachFrom(f, readers, frees, bytes, all, n)
<1>1. ReadEach(readers, frees, bytes) = F[n]
  BY DEF ReadEach, ReadStep, ReadEachFrom
<1>2. ReadEachFrom(F, readers, frees, bytes, all, n)
  BY ReadEachExists
<1> HIDE DEF F
<1>3. IsReadEach(F, readers, frees, bytes, all, n)
  BY <1>2 DEF ReadEachFrom, IsReadEach
<1> QED BY <1>1, <1>3

(* The items that were read, each of its own kind.                          *)
AllRead(acc, k, all, V, frees, bytes) ==
    /\ acc.status \in Byte
    /\ IF acc.status = SUCCESS
       THEN /\ acc.v \in Seq(UNION {V[i] : i \in 1..all}) /\ Len(acc.v) = k
            /\ \A i \in 1..k : acc.v[i] \in V[i]
            /\ acc.readden \in Nat /\ acc.readden <= Len(bytes)
            /\ acc.blocks = Allocated(all) + Sum([i \in DOMAIN acc.v |-> frees[i][acc.v[i]]])
       ELSE acc.blocks = 0

(* One more item.                                                           *)
LEMMA ReadOne ==
    ASSUME NEW all \in Nat, NEW k \in 1..all, NEW V, NEW frees, NEW bytes \in Seq(Byte),
           \A i \in 1..all : \A x \in V[i] : frees[i][x] \in Int,
           NEW acc, acc.status = SUCCESS, AllRead(acc, k - 1, all, V, frees, bytes),
           NEW r, Reads(r, After(bytes, acc.readden), V[k], frees[k])
    PROVE  AllRead(ReadNext(acc, r, frees), k, all, V, frees, bytes)
<1> DEFINE S == UNION {V[i] : i \in 1..all}
           v == acc.v
           s == [i \in DOMAIN v |-> frees[i][v[i]]]
           next == ReadNext(acc, r, frees)
           w == Append(v, r.v)
<1>1. /\ v \in Seq(S) /\ Len(v) = k - 1 /\ \A i \in 1..(k - 1) : v[i] \in V[i]
      /\ acc.readden \in Nat /\ acc.readden <= Len(bytes)
      /\ acc.blocks = Allocated(all) + Sum(s)
  BY DEF AllRead
<1>2. DOMAIN v = 1..(k - 1) /\ k - 1 \in Nat
  BY <1>1, LenProperties
<1>3. \A i \in 1..(k - 1) : i \in 1..all /\ frees[i][v[i]] \in Int
  BY <1>1
<1>4. Sum(s) \in Int
  <2>1. DOMAIN s = 1..(k - 1) /\ s = [i \in DOMAIN s |-> s[i]] /\ \A i \in 1..(k - 1) : s[i] \in Int
    BY <1>2, <1>3
  <2> HIDE DEF s
  <2>2. Len(s) = k - 1
    BY <1>2, <2>1, LenOf
  <2> QED BY <1>2, <2>1, <2>2, SumType
<1>5. CASE r.status # SUCCESS
  <2>1. r.blocks = 0
    BY <1>5 DEF Reads
  <2>2. FreeRead(acc, frees) = 1 + Sum(s)
    BY DEF FreeRead
  <2>3. next.status = r.status /\ next.blocks = acc.blocks + r.blocks - FreeRead(acc, frees)
    BY <1>5 DEF ReadNext, Refused
  <2>4. Allocated(all) = 1
    BY DEF Allocated
  <2> HIDE DEF next, s
  <2>5. next.blocks = 0
    BY <1>1, <1>4, <2>1, <2>2, <2>3, <2>4
  <2>6. AllRead(next, k, all, V, frees, bytes)
    <3>1. r.status \in Byte
      BY DEF Reads
    <3> QED BY <1>5, <2>3, <2>5, <3>1 DEF AllRead
  <2> QED BY <2>6 DEF next
<1>6. CASE r.status = SUCCESS
  <2> DEFINE rest == After(bytes, acc.readden)
             x == r.v
  <2>1. x \in V[k] /\ r.readden \in Nat /\ r.readden <= Len(rest) /\ r.blocks = frees[k][x]
    BY <1>6 DEF Reads
  <2>2. Len(rest) = Len(bytes) - acc.readden /\ Len(bytes) \in Nat
    BY <1>1, AfterIs, LenProperties
  <2>3. x \in S
    BY <2>1
  <2>4. next = [status |-> SUCCESS, v |-> w, readden |-> acc.readden + r.readden,
                blocks |-> acc.blocks + r.blocks]
    BY <1>6 DEF ReadNext, Read
  <2>5. next.status = SUCCESS /\ next.v = w /\ next.readden = acc.readden + r.readden
        /\ next.blocks = acc.blocks + r.blocks
    <3> HIDE DEF w, next
    <3> QED BY <2>4
  <2> DEFINE t == [i \in DOMAIN w |-> frees[i][w[i]]]
  <2>6. Sum(t) = Sum(s) + frees[k][x]
    <3> HIDE DEF S, x, v
    <3>1. \A i \in 1..Len(v) : frees[i][v[i]] \in Int
      BY <1>1, <1>3
    <3>2. Sum([i \in DOMAIN Append(v, x) |-> frees[i][Append(v, x)[i]]])
            = Sum([i \in DOMAIN v |-> frees[i][v[i]]]) + frees[Len(v) + 1][x]
      BY <1>1, <2>3, <3>1, SumAppend
    <3>3. Len(v) + 1 = k
      BY <1>1
    <3>4. w = Append(v, x)
      BY DEF x, v
    <3> QED BY <3>2, <3>3, <3>4
  <2> HIDE DEF S, x, v
  <2>7. w \in Seq(S) /\ Len(w) = k /\ w[k] = x /\ \A i \in 1..(k - 1) : w[i] = v[i]
    <3>1. w = Append(v, x)
      BY DEF x, v
    <3>2. /\ Append(v, x) \in Seq(S) /\ Len(Append(v, x)) = Len(v) + 1
          /\ \A i \in 1..Len(v) : Append(v, x)[i] = v[i]
          /\ Append(v, x)[Len(v) + 1] = x
      BY <1>1, <2>3, AppendProperties
    <3> HIDE DEF w
    <3> QED BY <1>1, <3>1, <3>2
  <2>8. \A i \in 1..k : w[i] \in V[i]
    <3>1. \A i \in 1..k : i = k \/ i \in 1..(k - 1)
      OBVIOUS
    <3> HIDE DEF w
    <3> QED BY <1>1, <2>1, <2>7, <3>1
  <2> HIDE DEF rest, next, s, t, w
  <2>9. next.readden \in Nat /\ next.readden <= Len(bytes)
    BY <1>1, <2>1, <2>2, <2>5
  <2>10. next.blocks = Allocated(all) + Sum(t)
    <3>1. frees[k][x] \in Int
      BY <2>1
    <3>2. Allocated(all) \in Int
      BY AllocatedType
    <3> QED BY <1>1, <1>4, <2>1, <2>5, <2>6, <3>1, <3>2
  <2>11. AllRead(next, k, all, V, frees, bytes)
    BY <2>5, <2>7, <2>8, <2>9, <2>10 DEF AllRead, S, t
  <2> QED BY <2>11 DEF next
<1> QED BY <1>5, <1>6

(* Readers of items that have so many blocks, for buffers of some length.   *)
GoodReaders(readers, n, V, frees, bytes) ==
    /\ \A i \in 1..n : \A x \in V[i] : frees[i][x] \in Int
    /\ \A i \in 1..n : \A b \in Seq(Byte) :
           Len(b) <= Len(bytes) => Reads(readers[i][b], b, V[i], frees[i])

LEMMA ReadEachRuns ==
    ASSUME NEW n \in Nat, NEW readers, NEW V, NEW frees, NEW bytes \in Seq(Byte),
           GoodReaders(readers, n, V, frees, bytes),
           NEW f, IsReadEach(f, readers, frees, bytes, n, n)
    PROVE  \A i \in 0..n : AllRead(f[i], i, n, V, frees, bytes)
<1>1. /\ \A i \in 1..n : \A x \in V[i] : frees[i][x] \in Int
      /\ \A i \in 1..n : \A b \in Seq(Byte) :
             Len(b) <= Len(bytes) => Reads(readers[i][b], b, V[i], frees[i])
  BY DEF GoodReaders
<1> DEFINE G == {i \in Nat : i <= n => AllRead(f[i], i, n, V, frees, bytes)}
<1>2. 0 \in G
  <2> DEFINE a == Read(<<>>, 0, Allocated(n))
             s == [i \in DOMAIN a.v |-> frees[i][a.v[i]]]
  <2>1. f[0] = a /\ a.status = SUCCESS /\ a.v = <<>> /\ a.readden = 0 /\ a.blocks = Allocated(n)
    BY DEF IsReadEach, Read
  <2> HIDE DEF a
  <2>2. s = <<>>
    <3>1. DOMAIN a.v = {}
      BY <2>1
    <3> QED BY <3>1
  <2>3. Sum(s) = 0
    BY <2>2, SumEmpty
  <2> HIDE DEF s
  <2>4. a.blocks = Allocated(n) + Sum(s)
    BY <2>1, <2>3, AllocatedType
  <2>5. <<>> \in Seq(UNION {V[i] : i \in 1..n}) /\ Len(<<>>) = 0
    BY EmptySeq
  <2>6. Len(bytes) \in Nat
    BY LenProperties
  <2>7. AllRead(a, 0, n, V, frees, bytes)
    BY <2>1, <2>4, <2>5, <2>6, SuccessIsByte DEF AllRead, s
  <2> QED BY <2>1, <2>7
<1>3. ASSUME NEW i \in 0..(n - 1), i \in G PROVE i + 1 \in G
  <2> DEFINE k == i + 1
             acc == f[i]
             r == readers[k][After(bytes, acc.readden)]
  <2>1. k \in 1..n /\ k - 1 = i /\ i <= n /\ k \in Nat
    OBVIOUS
  <2>2. AllRead(acc, k - 1, n, V, frees, bytes)
    BY <1>3, <2>1
  <2>3. f[k] = ReadStep(acc, readers[k], frees, bytes)
    <3>1. f[k] = ReadStep(f[k - 1], readers[k], frees, bytes)
      <4> HIDE DEF k
      <4> QED BY <2>1 DEF IsReadEach
    <3> QED BY <2>1, <3>1
  <2> HIDE DEF k, acc
  <2>4. CASE acc.status # SUCCESS
    <3>1. f[k] = acc
      BY <2>3, <2>4 DEF ReadStep
    <3>2. AllRead(f[k], k, n, V, frees, bytes)
      BY <2>2, <2>4, <3>1 DEF AllRead
    <3> QED BY <2>1, <3>2 DEF k
  <2>5. CASE acc.status = SUCCESS
    <3>1. f[k] = ReadNext(acc, r, frees)
      BY <2>3, <2>5 DEF ReadStep
    <3> DEFINE rest == After(bytes, acc.readden)
    <3>2. rest \in Seq(Byte) /\ Len(rest) <= Len(bytes)
      <4>1. acc.readden \in Nat /\ acc.readden <= Len(bytes)
        BY <2>2, <2>5 DEF AllRead
      <4>2. rest \in Seq(Byte) /\ Len(rest) = Len(bytes) - acc.readden /\ Len(bytes) \in Nat
        BY <4>1, AfterIs, LenProperties
      <4> HIDE DEF rest
      <4> QED BY <4>1, <4>2
    <3>3. Reads(r, rest, V[k], frees[k])
      <4> HIDE DEF rest
      <4>1. Reads(readers[k][rest], rest, V[k], frees[k])
        BY <1>1, <2>1, <3>2
      <4> QED BY <4>1 DEF rest
    <3> HIDE DEF r
    <3>4. AllRead(f[k], k, n, V, frees, bytes)
      BY <1>1, <2>1, <2>2, <2>5, <3>1, <3>3, ReadOne
    <3> QED BY <2>1, <3>4 DEF k
  <2> QED BY <2>4, <2>5
<1>4. \A i \in 0..n : i \in G
  <2> HIDE DEF G
  <2> QED BY <1>2, <1>3, Induction
<1> QED BY <1>4

LEMMA ReadEachReads ==
    ASSUME NEW n \in Nat, NEW readers, Len(readers) = n, NEW V, NEW frees, NEW bytes \in Seq(Byte),
           GoodReaders(readers, n, V, frees, bytes)
    PROVE  AllRead(ReadEach(readers, frees, bytes), n, n, V, frees, bytes)
<1>1. PICK f : IsReadEach(f, readers, frees, bytes, n, n) /\ ReadEach(readers, frees, bytes) = f[n]
  BY ReadEachIs
<1>2. \A i \in 0..n : AllRead(f[i], i, n, V, frees, bytes)
  BY <1>1, ReadEachRuns
<1> QED BY <1>1, <1>2

(* What is read depends only on what the readers do with no more bytes.     *)
LEMMA ReadEachAgree ==
    ASSUME NEW n \in Nat, NEW readers, Len(readers) = n, NEW V, NEW frees, NEW bytes \in Seq(Byte),
           GoodReaders(readers, n, V, frees, bytes),
           NEW others, Len(others) = n,
           \A i \in 1..n : \A b \in Seq(Byte) : Len(b) <= Len(bytes) => readers[i][b] = others[i][b]
    PROVE  ReadEach(readers, frees, bytes) = ReadEach(others, frees, bytes)
<1>1. PICK f : IsReadEach(f, readers, frees, bytes, n, n) /\ ReadEach(readers, frees, bytes) = f[n]
  BY ReadEachIs
<1>2. PICK g : IsReadEach(g, others, frees, bytes, n, n) /\ ReadEach(others, frees, bytes) = g[n]
  BY ReadEachIs
<1>3. \A i \in 0..n : AllRead(f[i], i, n, V, frees, bytes)
  BY <1>1, ReadEachRuns
<1> DEFINE G == {i \in Nat : f[i] = g[i]}
<1>4. 0 \in G
  BY <1>1, <1>2 DEF IsReadEach
<1>5. ASSUME NEW i \in 0..(n - 1), i \in G PROVE i + 1 \in G
  <2> DEFINE k == i + 1
             acc == f[i]
             rest == After(bytes, acc.readden)
  <2>1. k \in 1..n /\ k - 1 = i /\ i \in 0..n /\ k \in Nat
    OBVIOUS
  <2>2. f[k] = ReadStep(acc, readers[k], frees, bytes) /\ g[k] = ReadStep(acc, others[k], frees, bytes)
    <3>1. /\ f[k] = ReadStep(f[k - 1], readers[k], frees, bytes)
          /\ g[k] = ReadStep(g[k - 1], others[k], frees, bytes)
      <4> HIDE DEF k
      <4> QED BY <1>1, <1>2, <2>1 DEF IsReadEach
    <3>2. f[i] = g[i]
      BY <1>5
    <3> QED BY <2>1, <3>1, <3>2
  <2>3. AllRead(acc, i, n, V, frees, bytes)
    BY <1>3, <2>1
  <2> HIDE DEF k, acc
  <2>4. CASE acc.status # SUCCESS
    <3>1. f[k] = g[k]
      BY <2>2, <2>4 DEF ReadStep
    <3> QED BY <2>1, <3>1 DEF k
  <2>5. CASE acc.status = SUCCESS
    <3>1. acc.readden \in Nat /\ acc.readden <= Len(bytes)
      BY <2>3, <2>5 DEF AllRead
    <3>2. rest \in Seq(Byte) /\ Len(rest) = Len(bytes) - acc.readden /\ Len(bytes) \in Nat
      BY <3>1, AfterIs, LenProperties
    <3> HIDE DEF rest
    <3>3. Len(rest) <= Len(bytes)
      BY <3>1, <3>2
    <3>4. readers[k][rest] = others[k][rest]
      BY <2>1, <3>2, <3>3
    <3>5. f[k] = g[k]
      BY <2>2, <3>4 DEF ReadStep, rest
    <3> QED BY <2>1, <3>5 DEF k
  <2> QED BY <2>4, <2>5
<1>6. \A i \in 0..n : i \in G
  <2> HIDE DEF G
  <2> QED BY <1>4, <1>5, Induction
<1> QED BY <1>1, <1>2, <1>6

-----------------------------------------------------------------------------
(* Types are read from buffers, and a shorter buffer has a less deep type.  *)
Shorter(k) == {b \in Seq(Byte) : Len(b) < k}

TypeReadOf(f, bytes) ==
    LET tid == bytes[1]
        n == bytes[2]
        cell == f[After(bytes, 1)]
        fields == ReadEach([i \in 1..n |-> f], [i \in 1..n |-> TypeBlocks], After(bytes, 2))
    IN IF Len(bytes) < 1 THEN Refused(UNEXPECTED_END)
       ELSE IF tid <= STRING_TID THEN Read(Primitive(tid), 1, 0)
       ELSE IF tid = ARRAY_TID
       THEN IF cell.status # SUCCESS THEN cell
            ELSE Read(ArrayOf(cell.v), 1 + cell.readden, cell.blocks + 1)
       ELSE IF tid # STRUCT_TID THEN Refused(SYNTAX_ERROR)
       ELSE IF Len(bytes) < 2 THEN Refused(UNEXPECTED_END)
       ELSE IF n < 1 THEN Refused(EMPTY_STRUCT_TYPE)
       ELSE IF n > MaxFields THEN Refused(STRUCT_TYPE_TOO_LARGE)
       ELSE IF fields.status # SUCCESS THEN fields
       ELSE Read(StructOf(fields.v), 2 + fields.readden, fields.blocks + 2)

TypeReads(f, k) == \A b \in Shorter(k) : Reads(f[b], b, Below(k), TypeBlocks)

LEMMA ShorterIs ==
    /\ Shorter(0) = {} /\ Shorter(MaxSize + 1) = Buffers
    /\ \A k \in Nat : Shorter(k) \subseteq Shorter(k + 1)
<1>1. Shorter(0) = {}
  <2>1. \A b \in Seq(Byte) : Len(b) \in Nat
    BY LenProperties
  <2>2. \A b \in Seq(Byte) : ~(Len(b) < 0)
    BY <2>1
  <2> QED BY <2>2 DEF Shorter
<1>2. ASSUME NEW b \in Seq(Byte) PROVE Len(b) < MaxSize + 1 <=> Len(b) <= MaxSize
  <2>1. Len(b) \in Nat
    BY LenProperties
  <2> QED BY <2>1, MaxSizeType
<1>3. Shorter(MaxSize + 1) = Buffers
  BY <1>2 DEF Shorter, Buffers, BytesUpTo
<1>4. ASSUME NEW k \in Nat, NEW b \in Seq(Byte), Len(b) < k PROVE Len(b) < k + 1
  <2>1. Len(b) \in Nat
    BY LenProperties
  <2> QED BY <1>4, <2>1
<1> QED BY <1>1, <1>3, <1>4 DEF Shorter

(* The bytes behind the first ones.                                         *)
LEMMA ShorterAfter ==
    ASSUME NEW k \in Nat, NEW b \in Shorter(k + 1), NEW n \in Nat, n > 0, n <= Len(b)
    PROVE  /\ b \in Seq(Byte) /\ After(b, n) \in Shorter(k) /\ Len(b) \in Nat
           /\ Len(After(b, n)) = Len(b) - n
           /\ \A c \in Seq(Byte) : Len(c) <= Len(After(b, n)) => c \in Shorter(k)
<1>1. b \in Seq(Byte) /\ Len(b) < k + 1 /\ Len(b) \in Nat
  BY LenProperties DEF Shorter
<1>2. After(b, n) \in Seq(Byte) /\ Len(After(b, n)) = Len(b) - n
  BY <1>1, AfterIs
<1>3. Len(b) - n < k /\ Len(b) - n \in Nat
  BY <1>1
<1>4. ASSUME NEW c \in Seq(Byte), Len(c) <= Len(b) - n PROVE Len(c) < k
  <2>1. Len(c) \in Nat
    BY LenProperties
  <2> QED BY <1>3, <1>4, <2>1
<1> QED BY <1>1, <1>2, <1>3, <1>4 DEF Shorter

(* What is given back is the memory of the type.                            *)
LEMMA ArrayTypeRead ==
    ASSUME NEW k \in 0..MaxSize, NEW t \in Below(k)
    PROVE  ArrayOf(t) \in Below(k + 1) /\ TypeBlocks[ArrayOf(t)] = 1 + TypeBlocks[t]
<1>1. ArrayOf(t) \in Around(Below(k))
  BY DEF Around, ArrayOf
<1>2. ArrayOf(t) \in Below(k + 1)
  BY <1>1, BelowNext
<1>3. ArrayOf(t) \in Types
  <2>1. k + 1 \in 0..(MaxSize + 1)
    BY MaxSizeType
  <2> QED BY <1>2, <2>1, BelowAll
<1>4. TypeBlocks[ArrayOf(t)] = TypeBlocksOf(TypeBlocks, ArrayOf(t))
  BY <1>3, TypeBlocksUnfold
<1>5. ArrayOf(t).tid = ARRAY_TID /\ ArrayOf(t).cell = t
  BY DEF ArrayOf
<1>6. ~IsPrimitive(ArrayOf(t))
  BY <1>5 DEF IsPrimitive, ARRAY_TID, STRING_TID
<1> HIDE DEF Below
<1> QED BY <1>2, <1>4, <1>5, <1>6 DEF TypeBlocksOf

LEMMA StructTypeRead ==
    ASSUME NEW k \in 0..MaxSize, NEW ts \in Seq(Below(k)), Len(ts) \in 1..MaxFields
    PROVE  /\ StructOf(ts) \in Below(k + 1)
           /\ TypeBlocks[StructOf(ts)] = 3 + Sum([i \in DOMAIN ts |-> TypeBlocks[ts[i]]])
<1>1. StructOf(ts) \in Around(Below(k))
  BY DEF Around, StructOf
<1>2. StructOf(ts) \in Below(k + 1)
  BY <1>1, BelowNext
<1>3. StructOf(ts) \in Types
  <2>1. k + 1 \in 0..(MaxSize + 1)
    BY MaxSizeType
  <2> QED BY <1>2, <2>1, BelowAll
<1>4. TypeBlocks[StructOf(ts)] = TypeBlocksOf(TypeBlocks, StructOf(ts))
  BY <1>3, TypeBlocksUnfold
<1>5. StructOf(ts).tid = STRUCT_TID /\ StructOf(ts).fields = ts
  BY DEF StructOf
<1>6. ~IsPrimitive(StructOf(ts)) /\ STRUCT_TID # ARRAY_TID
  BY <1>5 DEF IsPrimitive, ARRAY_TID, STRING_TID, STRUCT_TID
<1> HIDE DEF Below
<1> QED BY <1>2, <1>4, <1>5, <1>6 DEF TypeBlocksOf

LEMMA PrimitiveTypeRead ==
    ASSUME NEW k \in 0..MaxSize, NEW tid \in 0..STRING_TID
    PROVE  Primitive(tid) \in Below(k + 1) /\ TypeBlocks[Primitive(tid)] = 0
<1>1. Primitive(tid) \in Around(Below(k))
  BY DEF Around, Primitive, Basic
<1>2. Primitive(tid) \in Below(k + 1)
  BY <1>1, BelowNext
<1>3. Primitive(tid) \in Types
  <2>1. k + 1 \in 0..(MaxSize + 1)
    BY MaxSizeType
  <2> QED BY <1>2, <2>1, BelowAll
<1>4. IsPrimitive(Primitive(tid))
  BY DEF IsPrimitive, Primitive, STRING_TID
<1>5. TypeBlocks[Primitive(tid)] = TypeBlocksOf(TypeBlocks, Primitive(tid))
  BY <1>3, TypeBlocksUnfold
<1> QED BY <1>2, <1>4, <1>5 DEF TypeBlocksOf

(* The fields of a struct.                                                  *)
FieldReaders(f, n) == [i \in 1..n |-> f]
FieldKinds(k, n) == [i \in 1..n |-> Below(k)]

LEMMA FieldReadersAreGood ==
    ASSUME NEW k \in 0..MaxSize, NEW f, TypeReads(f, k), NEW b \in Shorter(k + 1), Len(b) >= 2,
           NEW n \in Nat
    PROVE  /\ Len(FieldReaders(f, n)) = n /\ After(b, 2) \in Seq(Byte)
           /\ GoodReaders(FieldReaders(f, n), n, FieldKinds(k, n), FieldReaders(TypeBlocks, n), After(b, 2))
<1> DEFINE R == FieldReaders(f, n)
           V == FieldKinds(k, n)
           F == FieldReaders(TypeBlocks, n)
           rest == After(b, 2)
<1>1. DOMAIN R = 1..n /\ R = [i \in DOMAIN R |-> R[i]]
  BY DEF FieldReaders
<1>2. Len(R) = n
  <2> HIDE DEF R
  <2> QED BY <1>1, LenOf
<1>3. k \in Nat /\ k \in 0..(MaxSize + 1)
  BY MaxSizeType
<1>4. rest \in Seq(Byte) /\ \A c \in Seq(Byte) : Len(c) <= Len(rest) => c \in Shorter(k)
  <2>1. rest \in Shorter(k) /\ \A c \in Seq(Byte) : Len(c) <= Len(rest) => c \in Shorter(k)
    <3>1. Len(b) \in Nat
      BY LenProperties DEF Shorter
    <3>2. 2 <= Len(b)
      BY <3>1
    <3> QED BY <1>3, <3>2, ShorterAfter
  <2> QED BY <2>1 DEF Shorter
<1>5. \A i \in 1..n : R[i] = f /\ V[i] = Below(k) /\ F[i] = TypeBlocks
  BY DEF FieldReaders, FieldKinds
<1>6. \A x \in Below(k) : TypeBlocks[x] \in Int
  BY <1>3, BelowAll, TypeBlocksType
<1>7. \A c \in Shorter(k) : Reads(f[c], c, Below(k), TypeBlocks)
  BY DEF TypeReads
<1> HIDE DEF R, V, F, rest
<1>8. GoodReaders(R, n, V, F, rest)
  BY <1>4, <1>5, <1>6, <1>7 DEF GoodReaders
<1> QED BY <1>2, <1>4, <1>8 DEF R, V, F, rest

LEMMA TypeReadReads ==
    ASSUME NEW k \in 0..MaxSize, NEW f, TypeReads(f, k), NEW b \in Shorter(k + 1)
    PROVE  Reads(TypeReadOf(f, b), b, Below(k + 1), TypeBlocks)
<1> DEFINE r == TypeReadOf(f, b)
           tid == b[1]
           n == b[2]
           cell == f[After(b, 1)]
           R == FieldReaders(f, n)
           F == FieldReaders(TypeBlocks, n)
           V == FieldKinds(k, n)
           rest == After(b, 2)
           fields == ReadEach(R, F, rest)
<1> SUFFICES Reads(r, b, Below(k + 1), TypeBlocks)
  OBVIOUS
<1>1. b \in Seq(Byte) /\ Len(b) \in Nat /\ k \in Nat
  BY LenProperties, MaxSizeType DEF Shorter
<1>2. \A i \in 1..Len(b) : b[i] \in 0..255
  BY <1>1, ElementOfSeq DEF Byte
<1>3. r = IF Len(b) < 1 THEN Refused(UNEXPECTED_END)
       ELSE IF tid <= STRING_TID THEN Read(Primitive(tid), 1, 0)
       ELSE IF tid = ARRAY_TID
       THEN IF cell.status # SUCCESS THEN cell
            ELSE Read(ArrayOf(cell.v), 1 + cell.readden, cell.blocks + 1)
       ELSE IF tid # STRUCT_TID THEN Refused(SYNTAX_ERROR)
       ELSE IF Len(b) < 2 THEN Refused(UNEXPECTED_END)
       ELSE IF n < 1 THEN Refused(EMPTY_STRUCT_TYPE)
       ELSE IF n > MaxFields THEN Refused(STRUCT_TYPE_TOO_LARGE)
       ELSE IF fields.status # SUCCESS THEN fields
       ELSE Read(StructOf(fields.v), 2 + fields.readden, fields.blocks + 2)
  BY DEF TypeReadOf, FieldReaders
<1>4. ASSUME NEW status \in {UNEXPECTED_END, SYNTAX_ERROR, EMPTY_STRUCT_TYPE, STRUCT_TYPE_TOO_LARGE},
             r = Refused(status)
      PROVE  Reads(r, b, Below(k + 1), TypeBlocks)
  <2>1. status # SUCCESS
    BY DEF UNEXPECTED_END, SYNTAX_ERROR, EMPTY_STRUCT_TYPE, STRUCT_TYPE_TOO_LARGE, SUCCESS
  <2> QED BY <1>4, <2>1, RefusedReads, StatusBytes
<1> HIDE DEF r, tid, n, cell, fields
<1>5. CASE Len(b) < 1
  BY <1>3, <1>4, <1>5
<1>6. CASE Len(b) >= 1 /\ tid <= STRING_TID
  <2>1. tid \in 0..STRING_TID
    <3>1. 1 \in 1..Len(b)
      BY <1>1, <1>6
    <3>2. tid \in 0..255
      BY <1>2, <3>1 DEF tid
    <3> QED BY <1>6, <3>2 DEF STRING_TID
  <2>2. r = Read(Primitive(tid), 1, 0)
    BY <1>1, <1>3, <1>6
  <2>3. r.status = SUCCESS /\ r.v = Primitive(tid) /\ r.readden = 1 /\ r.blocks = 0
    BY <2>2 DEF Read
  <2>4. Primitive(tid) \in Below(k + 1) /\ TypeBlocks[Primitive(tid)] = 0
    BY <2>1, PrimitiveTypeRead
  <2>5. r.readden \in Nat /\ r.readden <= Len(b)
    BY <1>1, <1>6, <2>3
  <2> QED BY <2>3, <2>4, <2>5, SuccessIsByte DEF Reads
<1>7. CASE Len(b) >= 1 /\ ~(tid <= STRING_TID) /\ tid = ARRAY_TID
  <2> DEFINE c == After(b, 1)
  <2>1. c \in Shorter(k) /\ Len(c) = Len(b) - 1
    <3>1. 1 <= Len(b)
      BY <1>1, <1>7
    <3> QED BY <1>1, <3>1, ShorterAfter
  <2>2. Reads(cell, c, Below(k), TypeBlocks)
    BY <2>1 DEF TypeReads, cell
  <2>3. r = IF cell.status # SUCCESS THEN cell
            ELSE Read(ArrayOf(cell.v), 1 + cell.readden, cell.blocks + 1)
    BY <1>1, <1>3, <1>7
  <2> HIDE DEF c
  <2>4. CASE cell.status # SUCCESS
    BY <2>2, <2>3, <2>4 DEF Reads
  <2>5. CASE cell.status = SUCCESS
    <3>1. /\ cell.v \in Below(k) /\ cell.readden \in Nat /\ cell.readden <= Len(c)
          /\ cell.blocks = TypeBlocks[cell.v]
      BY <2>2, <2>5 DEF Reads
    <3>2. ArrayOf(cell.v) \in Below(k + 1) /\ TypeBlocks[ArrayOf(cell.v)] = 1 + TypeBlocks[cell.v]
      BY <3>1, ArrayTypeRead
    <3>3. /\ r.status = SUCCESS /\ r.v = ArrayOf(cell.v) /\ r.readden = 1 + cell.readden
          /\ r.blocks = cell.blocks + 1
      BY <2>3, <2>5 DEF Read
    <3>4. TypeBlocks[cell.v] \in Int
      BY <3>1, BelowAll, TypeBlocksType, MaxSizeType
    <3>5. r.readden \in Nat /\ r.readden <= Len(b)
      BY <1>1, <2>1, <3>1, <3>3
    <3>6. r.blocks = TypeBlocks[r.v]
      BY <3>1, <3>2, <3>3, <3>4
    <3> QED BY <3>2, <3>3, <3>5, <3>6, SuccessIsByte DEF Reads
  <2> QED BY <2>4, <2>5
<1>8. CASE Len(b) >= 1 /\ ~(tid <= STRING_TID) /\ tid # ARRAY_TID /\ tid # STRUCT_TID
  BY <1>1, <1>3, <1>4, <1>8
<1>9. CASE Len(b) = 1 /\ ~(tid <= STRING_TID) /\ tid = STRUCT_TID /\ tid # ARRAY_TID
  BY <1>1, <1>3, <1>4, <1>9
<1>10. CASE Len(b) >= 2 /\ ~(tid <= STRING_TID) /\ tid = STRUCT_TID /\ tid # ARRAY_TID
  <2>1. n \in 0..255
    <3>1. 2 \in 1..Len(b)
      BY <1>1, <1>10
    <3> QED BY <1>2, <3>1 DEF n
  <2>2. r = IF n < 1 THEN Refused(EMPTY_STRUCT_TYPE)
            ELSE IF n > MaxFields THEN Refused(STRUCT_TYPE_TOO_LARGE)
            ELSE IF fields.status # SUCCESS THEN fields
            ELSE Read(StructOf(fields.v), 2 + fields.readden, fields.blocks + 2)
    BY <1>1, <1>3, <1>10
  <2>3. CASE n < 1 \/ n > MaxFields
    BY <1>4, <2>1, <2>2, <2>3
  <2>4. CASE ~(n < 1 \/ n > MaxFields)
    <3>1. n \in 1..MaxFields /\ n \in Nat
      BY <2>1, <2>4, Bounds
    <3>2. r = IF fields.status # SUCCESS THEN fields
              ELSE Read(StructOf(fields.v), 2 + fields.readden, fields.blocks + 2)
      BY <2>2, <2>4
    <3>3. Len(R) = n /\ rest \in Seq(Byte) /\ GoodReaders(R, n, V, F, rest)
      BY <1>10, <3>1, FieldReadersAreGood
    <3>4. Len(rest) = Len(b) - 2
      <4>1. 2 <= Len(b)
        BY <1>1, <1>10
      <4> QED BY <1>1, <4>1, ShorterAfter
    <3>5. \A i \in 1..n : V[i] = Below(k) /\ F[i] = TypeBlocks
      BY DEF FieldReaders, FieldKinds
    <3> HIDE DEF R, V, F, rest
    <3>6. AllRead(fields, n, n, V, F, rest)
      BY <3>1, <3>3, ReadEachReads DEF fields
    <3>7. CASE fields.status # SUCCESS
      BY <3>2, <3>6, <3>7 DEF AllRead, Reads
    <3>8. CASE fields.status = SUCCESS
      <4> DEFINE ts == fields.v
                 s == [i \in DOMAIN ts |-> F[i][ts[i]]]
                 u == [i \in DOMAIN ts |-> TypeBlocks[ts[i]]]
      <4>1. /\ ts \in Seq(UNION {V[i] : i \in 1..n}) /\ Len(ts) = n
            /\ \A i \in 1..n : ts[i] \in V[i]
            /\ fields.readden \in Nat /\ fields.readden <= Len(rest)
            /\ fields.blocks = Allocated(n) + Sum(s)
        BY <3>6, <3>8 DEF AllRead
      <4>2. DOMAIN ts = 1..n /\ ts \in Seq(Below(k))
        <5>1. ts \in [1..n -> UNION {V[i] : i \in 1..n}]
          BY <4>1, LenProperties
        <5>2. \A i \in 1..n : ts[i] \in Below(k)
          BY <3>5, <4>1
        <5> HIDE DEF ts
        <5>3. ts \in [1..n -> Below(k)]
          BY <5>1, <5>2
        <5> QED BY <3>1, <5>3, IsASeq
      <4>3. s = u
        <5>1. \A i \in DOMAIN ts : F[i][ts[i]] = TypeBlocks[ts[i]]
          BY <3>5, <4>2
        <5> HIDE DEF ts
        <5> QED BY <5>1
      <4>4. StructOf(ts) \in Below(k + 1) /\ TypeBlocks[StructOf(ts)] = 3 + Sum(u)
        <5> HIDE DEF ts
        <5> QED BY <3>1, <4>1, <4>2, StructTypeRead
      <4>5. /\ r.status = SUCCESS /\ r.v = StructOf(ts) /\ r.readden = 2 + fields.readden
            /\ r.blocks = fields.blocks + 2
        BY <3>2, <3>8 DEF Read
      <4>6. Sum(u) \in Int
        <5>1. \A i \in 1..n : TypeBlocks[ts[i]] \in Int
          <6>1. Below(k) \subseteq Types
            BY BelowAll, MaxSizeType
          <6>2. \A i \in 1..n : ts[i] \in Types
            BY <3>5, <4>1, <6>1
          <6> QED BY <6>2, TypeBlocksType
        <5>2. DOMAIN u = 1..n /\ u = [i \in DOMAIN u |-> u[i]] /\ \A i \in 1..n : u[i] \in Int
          BY <4>2, <5>1
        <5> HIDE DEF u
        <5>3. Len(u) = n
          BY <3>1, <5>2, LenOf
        <5> QED BY <3>1, <5>2, <5>3, SumType
      <4>7. Allocated(n) = 1
        BY <3>1 DEF Allocated
      <4> HIDE DEF ts, s, u
      <4>8. r.readden \in Nat /\ r.readden <= Len(b)
        BY <1>1, <3>4, <4>1, <4>5
      <4>9. r.blocks = TypeBlocks[r.v]
        BY <4>1, <4>3, <4>4, <4>5, <4>6, <4>7
      <4> QED BY <4>4, <4>5, <4>8, <4>9, SuccessIsByte DEF Reads
    <3> QED BY <3>7, <3>8
  <2> QED BY <2>3, <2>4
<1>11. Len(b) < 1 \/ (Len(b) >= 1 /\ (Len(b) = 1 \/ Len(b) >= 2))
  <2>1. \A l \in Nat : l < 1 \/ (l >= 1 /\ (l = 1 \/ l >= 2))
    OBVIOUS
  <2>2. Len(b) \in Nat
    BY <1>1
  <2> QED BY <2>1, <2>2
<1> QED BY <1>5, <1>6, <1>7, <1>8, <1>9, <1>10, <1>11

(* Reading a type looks only at shorter buffers.                            *)
LEMMA TypeReadAgree ==
    ASSUME NEW k \in 0..MaxSize, NEW f, TypeReads(f, k), NEW g, \A c \in Shorter(k) : f[c] = g[c],
           NEW b \in Shorter(k + 1)
    PROVE  TypeReadOf(f, b) = TypeReadOf(g, b)
<1> DEFINE n == b[2]
           Fields(h) == ReadEach(FieldReaders(h, n), FieldReaders(TypeBlocks, n), After(b, 2))
           Of(cell, fields) ==
               IF Len(b) < 1 THEN Refused(UNEXPECTED_END)
               ELSE IF b[1] <= STRING_TID THEN Read(Primitive(b[1]), 1, 0)
               ELSE IF b[1] = ARRAY_TID
               THEN IF cell.status # SUCCESS THEN cell
                    ELSE Read(ArrayOf(cell.v), 1 + cell.readden, cell.blocks + 1)
               ELSE IF b[1] # STRUCT_TID THEN Refused(SYNTAX_ERROR)
               ELSE IF Len(b) < 2 THEN Refused(UNEXPECTED_END)
               ELSE IF n < 1 THEN Refused(EMPTY_STRUCT_TYPE)
               ELSE IF n > MaxFields THEN Refused(STRUCT_TYPE_TOO_LARGE)
               ELSE IF fields.status # SUCCESS THEN fields
               ELSE Read(StructOf(fields.v), 2 + fields.readden, fields.blocks + 2)
<1>1. /\ TypeReadOf(f, b) = Of(f[After(b, 1)], Fields(f))
      /\ TypeReadOf(g, b) = Of(g[After(b, 1)], Fields(g))
  BY DEF TypeReadOf, FieldReaders
<1>2. b \in Seq(Byte) /\ Len(b) \in Nat /\ k \in Nat
  BY LenProperties, MaxSizeType DEF Shorter
<1>3. ASSUME ~(Len(b) < 1) PROVE f[After(b, 1)] = g[After(b, 1)]
  <2>1. 1 <= Len(b)
    BY <1>2, <1>3
  <2> QED BY <1>2, <2>1, ShorterAfter
<1>4. ASSUME ~(Len(b) < 2) PROVE Fields(f) = Fields(g)
  <2>1. 2 <= Len(b) /\ Len(b) >= 2 /\ 2 \in 1..Len(b)
    BY <1>2, <1>4
  <2>2. n \in Byte
    BY <1>2, <2>1, ElementOfSeq
  <2>3. n \in Nat
    BY <2>2 DEF Byte
  <2> DEFINE R == FieldReaders(f, n)
             Q == FieldReaders(g, n)
             F == FieldReaders(TypeBlocks, n)
             V == FieldKinds(k, n)
             rest == After(b, 2)
  <2>4. Len(R) = n /\ rest \in Seq(Byte) /\ GoodReaders(R, n, V, F, rest)
    BY <2>1, <2>3, FieldReadersAreGood
  <2>5. Len(Q) = n
    <3>1. DOMAIN Q = 1..n /\ Q = [i \in DOMAIN Q |-> Q[i]]
      BY DEF FieldReaders
    <3> HIDE DEF Q
    <3> QED BY <2>3, <3>1, LenOf
  <2>6. \A c \in Seq(Byte) : Len(c) <= Len(rest) => f[c] = g[c]
    <3>1. \A c \in Seq(Byte) : Len(c) <= Len(rest) => c \in Shorter(k)
      BY <1>2, <2>1, ShorterAfter
    <3> QED BY <3>1
  <2>7. \A i \in 1..n : R[i] = f /\ Q[i] = g
    BY DEF FieldReaders
  <2> HIDE DEF R, Q, F, V, rest, n
  <2>8. \A i \in 1..n : \A c \in Seq(Byte) : Len(c) <= Len(rest) => R[i][c] = Q[i][c]
    BY <2>6, <2>7
  <2>9. ReadEach(R, F, rest) = ReadEach(Q, F, rest)
    BY <2>3, <2>4, <2>5, <2>8, ReadEachAgree
  <2> QED BY <2>9 DEF R, Q, F, rest, n
<1> HIDE DEF Fields, n
<1>5. CASE Len(b) < 1
  BY <1>1, <1>5
<1>6. CASE ~(Len(b) < 1) /\ Len(b) < 2
  BY <1>1, <1>3, <1>6
<1>7. CASE ~(Len(b) < 1) /\ ~(Len(b) < 2)
  BY <1>1, <1>3, <1>4, <1>7
<1> QED BY <1>5, <1>6, <1>7

TypeReader(f, k) == f = [b \in Shorter(k) |-> TypeReadOf(f, b)]

LEMMA TypeReaderExists == \A k \in 0..(MaxSize + 1) : \E f : TypeReader(f, k) /\ TypeReads(f, k)
<1> DEFINE G == {k \in Nat : k <= MaxSize + 1 => \E f : TypeReader(f, k) /\ TypeReads(f, k)}
<1>1. 0 \in G
  <2>1. TypeReader([b \in {} |-> 0], 0)
    BY ShorterIs DEF TypeReader
  <2>2. TypeReads([b \in {} |-> 0], 0)
    BY ShorterIs DEF TypeReads
  <2> QED BY <2>1, <2>2
<1>2. ASSUME NEW k \in 0..MaxSize, k \in G PROVE k + 1 \in G
  <2>1. k <= MaxSize + 1 /\ k + 1 \in 0..(MaxSize + 1) /\ k + 1 \in Nat /\ k \in Nat
    BY MaxSizeType
  <2>2. PICK f : TypeReader(f, k) /\ TypeReads(f, k)
    BY <1>2, <2>1
  <2>3. \A b \in Shorter(k) : f[b] = TypeReadOf(f, b)
    BY <2>2 DEF TypeReader
  <2> DEFINE g == [b \in Shorter(k + 1) |-> TypeReadOf(f, b)]
  <2>4. \A b \in Shorter(k + 1) : g[b] = TypeReadOf(f, b)
    OBVIOUS
  <2>5. g = [b \in Shorter(k + 1) |-> g[b]]
    OBVIOUS
  <2> HIDE DEF g
  <2>6. \A b \in Shorter(k) : f[b] = g[b]
    BY <2>1, <2>3, <2>4, ShorterIs
  <2>7. \A b \in Shorter(k + 1) : g[b] = TypeReadOf(g, b)
    BY <2>2, <2>4, <2>6, TypeReadAgree
  <2>8. TypeReader(g, k + 1)
    BY <2>5, <2>7 DEF TypeReader
  <2>9. TypeReads(g, k + 1)
    BY <2>2, <2>4, TypeReadReads DEF TypeReads
  <2> QED BY <2>1, <2>8, <2>9
<1>3. \A k \in 0..(MaxSize + 1) : k \in G
  <2>1. MaxSize = (MaxSize + 1) - 1
    BY MaxSizeType
  <2> HIDE DEF G
  <2> QED BY <1>1, <1>2, <2>1, MaxSizeType, Induction
<1> QED BY <1>3

LEMMA TypeFromBufferUnfold == \A b \in Buffers : TypeFromBuffer[b] = TypeReadOf(TypeFromBuffer, b)
<1>1. TypeFromBuffer = CHOOSE f : f = [b \in Buffers |-> TypeReadOf(f, b)]
  BY DEF TypeFromBuffer, TypeReadOf
<1>2. TypeFromBuffer = CHOOSE f : TypeReader(f, MaxSize + 1)
  BY <1>1, ShorterIs DEF TypeReader
<1>3. \E f : TypeReader(f, MaxSize + 1)
  <2>1. MaxSize + 1 \in 0..(MaxSize + 1)
    BY MaxSizeType
  <2> QED BY <2>1, TypeReaderExists
<1>4. TypeReader(TypeFromBuffer, MaxSize + 1)
  BY <1>2, <1>3
<1> QED BY <1>4, ShorterIs DEF TypeReader

(* A type that is read is a type, and takes the blocks that it has.         *)
LEMMA TypeFromBufferReads == \A b \in Buffers : Reads(TypeFromBuffer[b], b, Types, TypeBlocks)
<1> DEFINE G == {k \in Nat : k <= MaxSize + 1 => TypeReads(TypeFromBuffer, k)}
<1>1. 0 \in G
  BY ShorterIs DEF TypeReads
<1>2. ASSUME NEW k \in 0..MaxSize, k \in G PROVE k + 1 \in G
  <2>1. k <= MaxSize + 1 /\ k + 1 \in Nat
    BY MaxSizeType
  <2>2. TypeReads(TypeFromBuffer, k)
    BY <1>2, <2>1
  <2>3. ASSUME NEW b \in Shorter(k + 1) PROVE b \in Buffers
    <3>1. b \in Seq(Byte) /\ Len(b) \in Nat /\ Len(b) < k + 1
      BY LenProperties DEF Shorter
    <3>2. Len(b) <= MaxSize
      BY <3>1, MaxSizeType
    <3> QED BY <3>1, <3>2 DEF Buffers, BytesUpTo
  <2>4. TypeReads(TypeFromBuffer, k + 1)
    BY <2>2, <2>3, TypeFromBufferUnfold, TypeReadReads DEF TypeReads
  <2> QED BY <2>1, <2>4
<1>3. \A k \in 0..(MaxSize + 1) : k \in G
  <2>1. MaxSize = (MaxSize + 1) - 1
    BY MaxSizeType
  <2> HIDE DEF G
  <2> QED BY <1>1, <1>2, <2>1, MaxSizeType, Induction
<1>4. TypeReads(TypeFromBuffer, MaxSize + 1)
  BY <1>3, MaxSizeType
<1> QED BY <1>4, ShorterIs, BelowAll DEF TypeReads

-----------------------------------------------------------------------------
(* Inner values are read from what follows their types.                     *)
LEMMA FromBytesType == \A b \in Seq(Byte) : Len(b) >= LengthBytes => FromBytes(b) \in Nat
<1> SUFFICES ASSUME NEW b \in Seq(Byte), Len(b) >= LengthBytes PROVE FromBytes(b) \in Nat
  OBVIOUS
<1>1. Len(b) \in Nat /\ Len(b) >= 4
  BY LenProperties DEF LengthBytes
<1>2. 1 \in 1..Len(b) /\ 2 \in 1..Len(b) /\ 3 \in 1..Len(b) /\ 4 \in 1..Len(b)
  BY <1>1
<1>3. b[1] \in Byte /\ b[2] \in Byte /\ b[3] \in Byte /\ b[4] \in Byte
  BY <1>2, ElementOfSeq
<1>4. \A x \in Byte : x \in Nat
  BY DEF Byte
<1> DEFINE p == b[1]
           q == b[2]
           r == b[3]
           s == b[4]
<1>5. FromBytes(b) = p + 256 * q + 65536 * r + 16777216 * s
  BY DEF FromBytes
<1>6. p \in Byte /\ q \in Byte /\ r \in Byte /\ s \in Byte
  BY <1>3
<1> HIDE DEF p, q, r, s
<1>7. p \in Nat /\ q \in Nat /\ r \in Nat /\ s \in Nat
  BY <1>4, <1>6
<1>8. p + 256 * q + 65536 * r + 16777216 * s \in Nat
  BY <1>7
<1> QED BY <1>5, <1>8

LEMMA Multiples == \A c \in {1, 2, 4, 8} : \A n \in Nat : c * n \in Nat /\ (c * n) % c = 0
<1>1. \A n \in Nat : 1 * n \in Nat /\ (1 * n) % 1 = 0
  OBVIOUS
<1>2. \A n \in Nat : 2 * n \in Nat /\ (2 * n) % 2 = 0
  OBVIOUS
<1>3. \A n \in Nat : 4 * n \in Nat /\ (4 * n) % 4 = 0
  OBVIOUS
<1>4. \A n \in Nat : 8 * n \in Nat /\ (8 * n) % 8 = 0
  OBVIOUS
<1> QED BY <1>1, <1>2, <1>3, <1>4

(* A block with its length in front: what is allocated is the block.        *)
LEMMA BlockReads ==
    ASSUME NEW t \in Types, IsBlockable(t), HasLength(t), NEW bytes \in Buffers
    PROVE  LET r == BlockFromBuffer(t, bytes)
           IN  IF r.status = SUCCESS
               THEN /\ r.v \in InnerOf[t] /\ r.readden \in Nat /\ r.readden <= Len(bytes)
                    /\ r.blocks = Allocated(Len(r.v.block)) /\ r.blocks \in Int
               ELSE r.blocks = 0 /\ r.status \in Byte
<1> DEFINE r == BlockFromBuffer(t, bytes)
           c == CellSize(t)
           n == FromBytes(bytes)
           size == c * n
           rest == After(bytes, LengthBytes)
           block == First(rest, size)
           l == Len(bytes)
<1> SUFFICES IF r.status = SUCCESS
             THEN /\ r.v \in InnerOf[t] /\ r.readden \in Nat /\ r.readden <= Len(bytes)
                  /\ r.blocks = Allocated(Len(r.v.block)) /\ r.blocks \in Int
             ELSE r.blocks = 0 /\ r.status \in Byte
  OBVIOUS
<1>1. bytes \in Seq(Byte) /\ l \in Nat /\ l <= MaxSize
  BY LenProperties DEF Buffers, BytesUpTo
<1>2. r = IF l < LengthBytes \/ l - LengthBytes < size THEN Refused(UNEXPECTED_END)
          ELSE Read(Dense(block), LengthBytes + size, Allocated(size))
  BY DEF BlockFromBuffer
<1>3. c \in {1, 2, 4, 8}
  BY CellSizes
<1> HIDE DEF r, c
<1>4. CASE l < LengthBytes \/ l - LengthBytes < size
  <2>1. r = Refused(UNEXPECTED_END)
    BY <1>2, <1>4
  <2>2. r.status # SUCCESS /\ r.blocks = 0 /\ r.status \in Byte
    BY <2>1, StatusBytes DEF Refused, UNEXPECTED_END, SUCCESS
  <2> QED BY <2>2
<1>5. CASE ~(l < LengthBytes \/ l - LengthBytes < size)
  <2>1. r = Read(Dense(block), LengthBytes + size, Allocated(size))
    BY <1>2, <1>5
  <2>2. l >= LengthBytes /\ LengthBytes <= l
    BY <1>1, <1>5 DEF LengthBytes
  <2>3. n \in Nat
    BY <1>1, <2>2, FromBytesType
  <2>4. size \in Nat /\ size % c = 0
    <3> HIDE DEF n
    <3> QED BY <1>3, <2>3, Multiples
  <2>5. rest \in Seq(Byte) /\ Len(rest) = l - LengthBytes
    BY <1>1, <2>2, AfterIs DEF LengthBytes
  <2> HIDE DEF n, size, rest
  <2>6. size <= Len(rest)
    BY <1>1, <1>5, <2>4, <2>5 DEF LengthBytes
  <2>7. block \in Seq(Byte) /\ Len(block) = size
    BY <2>4, <2>5, <2>6, FirstIs
  <2>8. /\ r.status = SUCCESS /\ r.v = Dense(block) /\ r.readden = LengthBytes + size
        /\ r.blocks = Allocated(size)
    BY <2>1 DEF Read
  <2> HIDE DEF block
  <2>9. size \in 0..MaxSize /\ r.readden \in Nat /\ r.readden <= l
    BY <1>1, <2>4, <2>5, <2>6, <2>8, MaxSizeType DEF LengthBytes
  <2>10. IsBlockOf(block, t)
    BY <2>4, <2>7, <2>9 DEF IsBlockOf, c
  <2>11. Dense(block) \in InnerOf[t]
    BY <2>10, MakeDense
  <2>12. Dense(block).block = block
    BY DEF Dense
  <2> QED BY <2>4, <2>7, <2>8, <2>9, <2>11, <2>12, AllocatedType
<1> QED BY <1>4, <1>5

LEMMA StringReads ==
    \A b \in Buffers : Reads(StringFromBuffer[b], b, InnerOf[STRING_T], StringBlocks)
<1> SUFFICES ASSUME NEW b \in Buffers
             PROVE Reads(StringFromBuffer[b], b, InnerOf[STRING_T], StringBlocks)
  OBVIOUS
<1> DEFINE r == BlockFromBuffer(STRING_T, b)
<1>1. StringFromBuffer[b] = r
  BY DEF StringFromBuffer, Buffers, BytesUpTo
<1>2. IF r.status = SUCCESS
      THEN /\ r.v \in InnerOf[STRING_T] /\ r.readden \in Nat /\ r.readden <= Len(b)
           /\ r.blocks = Allocated(Len(r.v.block)) /\ r.blocks \in Int
      ELSE r.blocks = 0 /\ r.status \in Byte
  BY StringType, BlockReads
<1> HIDE DEF r
<1>3. r.v \in InnerOf[STRING_T] => StringBlocks[r.v] = Allocated(Len(r.v.block))
  BY DEF StringBlocks
<1> QED BY <1>1, <1>2, <1>3, SuccessIsByte DEF Reads

(* What is stored densely.                                                  *)
LEMMA DenseReads ==
    ASSUME NEW t \in Types, IsBlockable(t), NEW bytes \in Buffers
    PROVE  LET block == BlockFromBuffer(t, bytes)
           IN  Reads(IF HasLength(t) THEN NewInner(block, block.v, 0) ELSE NumberFromBuffer(t, bytes),
                     bytes, InnerOf[t], InnerBlocks[t])
<1> DEFINE block == BlockFromBuffer(t, bytes)
           r == IF HasLength(t) THEN NewInner(block, block.v, 0) ELSE NumberFromBuffer(t, bytes)
<1> SUFFICES Reads(r, bytes, InnerOf[t], InnerBlocks[t])
  OBVIOUS
<1>1. CASE HasLength(t)
  <2>1. IF block.status = SUCCESS
        THEN /\ block.v \in InnerOf[t] /\ block.readden \in Nat /\ block.readden <= Len(bytes)
             /\ block.blocks = Allocated(Len(block.v.block)) /\ block.blocks \in Int
        ELSE block.blocks = 0 /\ block.status \in Byte
    BY <1>1, BlockReads
  <2>2. r = IF block.status # SUCCESS THEN block
            ELSE Read(block.v, 0 + block.readden, block.blocks + 1)
    BY <1>1 DEF NewInner
  <2> HIDE DEF r, block
  <2>3. CASE block.status # SUCCESS
    BY <2>1, <2>2, <2>3 DEF Reads
  <2>4. CASE block.status = SUCCESS
    <3>1. /\ r.status = SUCCESS /\ r.v = block.v /\ r.readden = 0 + block.readden
          /\ r.blocks = block.blocks + 1
      BY <2>2, <2>4 DEF Read
    <3>2. r.readden = block.readden
      BY <2>1, <2>4, <3>1
    <3>3. InnerBlocks[t][block.v] = 1 + Allocated(Len(block.v.block))
      BY <1>1, <2>1, <2>4, DenseBlocks
    <3>4. r.blocks = InnerBlocks[t][r.v]
      BY <2>1, <2>4, <3>1, <3>3
    <3> QED BY <2>1, <2>4, <3>1, <3>2, <3>4, SuccessIsByte DEF Reads
  <2> QED BY <2>3, <2>4
<1>2. CASE ~HasLength(t)
  <2> DEFINE c == CellSize(t)
             b == First(bytes, c)
  <2>1. bytes \in Seq(Byte) /\ Len(bytes) \in Nat /\ Len(bytes) <= MaxSize
    BY LenProperties DEF Buffers, BytesUpTo
  <2>2. r = IF Len(bytes) < c THEN Refused(UNEXPECTED_END) ELSE Read(Dense(b), c, 1)
    BY <1>2 DEF NumberFromBuffer
  <2>3. c \in {1, 2, 4, 8}
    BY CellSizes
  <2> HIDE DEF r, c
  <2>4. CASE Len(bytes) < c
    <3>1. r = Refused(UNEXPECTED_END) /\ UNEXPECTED_END # SUCCESS
      BY <2>2, <2>4 DEF UNEXPECTED_END, SUCCESS
    <3> QED BY <3>1, RefusedReads, StatusBytes
  <2>5. CASE ~(Len(bytes) < c)
    <3>1. c \in Nat /\ c <= Len(bytes)
      BY <2>1, <2>3, <2>5
    <3>2. b \in Seq(Byte) /\ Len(b) = c
      BY <2>1, <3>1, FirstIs
    <3> HIDE DEF b
    <3>3. Len(b) \in 0..MaxSize
      BY <2>1, <3>1, <3>2, MaxSizeType
    <3>4. IsBlockOf(b, t)
      BY <1>2, <3>2, <3>3 DEF IsBlockOf, c
    <3>5. Dense(b) \in InnerOf[t]
      BY <3>4, MakeDense
    <3>6. InnerBlocks[t][Dense(b)] = 1
      BY <1>2, <3>5, DenseBlocks
    <3>7. r.status = SUCCESS /\ r.v = Dense(b) /\ r.readden = c /\ r.blocks = 1
      BY <2>2, <2>5 DEF Read
    <3> QED BY <3>1, <3>5, <3>6, <3>7, SuccessIsByte DEF Reads
  <2> QED BY <2>4, <2>5
<1> QED BY <1>1, <1>2

InnerReadOf(f, t) == [bytes \in Seq(Byte) |->
    LET n == FromBytes(bytes)
        block == BlockFromBuffer(t, bytes)
        fields == ReadEach([i \in DOMAIN t.fields |-> f[t.fields[i]]],
                           [i \in DOMAIN t.fields |-> InnerBlocks[t.fields[i]]], bytes)
        strings == ReadEach([i \in 1..n |-> StringFromBuffer], [i \in 1..n |-> StringBlocks],
                            After(bytes, LengthBytes))
        entries == ReadEach([i \in 1..n |-> f[t.cell]],
                            [i \in 1..n |-> InnerBlocks[t.cell]], After(bytes, LengthBytes))
        array == IF IsStringArray(t) THEN strings ELSE entries
    IN IF IsBlockable(t)
       THEN IF HasLength(t) THEN NewInner(block, block.v, 0) ELSE NumberFromBuffer(t, bytes)
       ELSE IF t.tid = STRUCT_TID THEN NewInner(fields, Composed(fields.v), 0)
       ELSE IF Len(bytes) < LengthBytes THEN Refused(UNEXPECTED_END)
       ELSE NewInner(array, Composed(array.v), LengthBytes)]

LEMMA InnerFromBufferAgree ==
    ASSUME NEW t \in Types, NEW f, NEW g, \A m \in Members(t) : f[m] = g[m]
    PROVE  InnerReadOf(f, t) = InnerReadOf(g, t)
<1>1. CASE IsBlockable(t)
  BY <1>1 DEF InnerReadOf
<1>2. CASE ~IsBlockable(t) /\ t.tid = STRUCT_TID
  <2>1. [i \in DOMAIN t.fields |-> f[t.fields[i]]] = [i \in DOMAIN t.fields |-> g[t.fields[i]]]
    BY <1>2, FieldsAgree
  <2> QED BY <1>2, <2>1 DEF InnerReadOf
<1>3. CASE ~IsBlockable(t) /\ t.tid # STRUCT_TID
  <2>1. f[t.cell] = g[t.cell]
    BY <1>3, ComposedCases
  <2> QED BY <1>3, <2>1 DEF InnerReadOf
<1> QED BY <1>1, <1>2, <1>3

LEMMA InnerFromBufferExists ==
    \A d \in 0..(MaxSize + 1) : \E f : f = [t \in Below(d) |-> InnerReadOf(f, t)]
<1> DEFINE Solves(f, d) == f = [t \in Below(d) |-> InnerReadOf(f, t)]
           G == {d \in Nat : d <= MaxSize + 1 => \E f : Solves(f, d)}
<1>1. 0 \in G
  <2>1. Solves([t \in {} |-> 0], 0)
    BY DEF Below
  <2> HIDE DEF Solves
  <2> QED BY <2>1
<1>2. ASSUME NEW d \in 0..MaxSize, d \in G PROVE d + 1 \in G
  <2>1. d <= MaxSize + 1 /\ d + 1 \in 0..(MaxSize + 1) /\ d + 1 \in Nat
    BY MaxSizeType
  <2>2. PICK f : Solves(f, d)
    BY <1>2, <2>1
  <2>3. \A t \in Below(d) : f[t] = InnerReadOf(f, t)
    BY <2>2
  <2> DEFINE g == [t \in Below(d + 1) |-> InnerReadOf(f, t)]
  <2>4. \A t \in Below(d + 1) : g[t] = InnerReadOf(f, t)
    OBVIOUS
  <2>5. g = [t \in Below(d + 1) |-> g[t]]
    OBVIOUS
  <2> HIDE DEF g
  <2>6. \A t \in Below(d) : g[t] = f[t]
    BY <2>3, <2>4, BelowGrows
  <2>7. ASSUME NEW t \in Below(d + 1) PROVE g[t] = InnerReadOf(g, t)
    <3>1. t \in Types
      BY <2>1, BelowAll
    <3>2. \A m \in Members(t) : f[m] = g[m]
      BY <2>6, MembersBelow
    <3>3. InnerReadOf(f, t) = InnerReadOf(g, t)
      BY <3>1, <3>2, InnerFromBufferAgree
    <3> QED BY <2>4, <3>3
  <2>8. Solves(g, d + 1)
    BY <2>5, <2>7
  <2> HIDE DEF Solves
  <2> QED BY <2>1, <2>8
<1>3. \A d \in 0..(MaxSize + 1) : d \in G
  <2>1. MaxSize = (MaxSize + 1) - 1
    BY MaxSizeType
  <2> HIDE DEF G
  <2> QED BY <1>1, <1>2, <2>1, MaxSizeType, Induction
<1> QED BY <1>3

LEMMA InnerFromBufferUnfold == \A t \in Types : InnerFromBuffer[t] = InnerReadOf(InnerFromBuffer, t)
<1> DEFINE Whole(f) == f = [t \in Types |-> InnerReadOf(f, t)]
<1>1. InnerFromBuffer = CHOOSE f : Whole(f)
  BY DEF InnerFromBuffer, InnerReadOf
<1>2. Whole(InnerFromBuffer)
  <2>1. \E f : Whole(f)
    <3>1. MaxSize + 1 \in 0..(MaxSize + 1)
      BY MaxSizeType
    <3> QED BY <3>1, InnerFromBufferExists, BelowAll
  <2> HIDE DEF Whole
  <2> QED BY <1>1, <2>1
<1> QED BY <1>2

(* How the members of a type are read, and what they are.                   *)
ItemReaders(t, n) ==
    [i \in 1..n |-> IF IsStringArray(t) THEN StringFromBuffer ELSE InnerFromBuffer[MemberType(t, i)]]
ItemFrees(t, n) == [i \in 1..n |-> ItemBlocks(t, i)]
ItemKinds(t, n) == [i \in 1..n |-> InnerOf[MemberType(t, i)]]

ReadInside(t) ==
    \A m \in Members(t) : \A b \in Buffers : Reads(InnerFromBuffer[m][b], b, InnerOf[m], InnerBlocks[m])

LEMMA ItemReadersAreGood ==
    ASSUME NEW t \in Types, ~IsBlockable(t), ReadInside(t), NEW bytes \in Buffers,
           NEW n \in Nat, t.tid = STRUCT_TID => n = Len(t.fields)
    PROVE  /\ Len(ItemReaders(t, n)) = n
           /\ GoodReaders(ItemReaders(t, n), n, ItemKinds(t, n), ItemFrees(t, n), bytes)
<1> DEFINE R == ItemReaders(t, n)
           V == ItemKinds(t, n)
           F == ItemFrees(t, n)
<1>1. DOMAIN R = 1..n /\ R = [i \in DOMAIN R |-> R[i]]
  BY DEF ItemReaders
<1>2. Len(R) = n
  <2> HIDE DEF R
  <2> QED BY <1>1, LenOf
<1>3. \A b \in Seq(Byte) : Len(b) <= Len(bytes) => b \in Buffers
  <2> SUFFICES ASSUME NEW b \in Seq(Byte), Len(b) <= Len(bytes) PROVE Len(b) <= MaxSize
    BY DEF Buffers, BytesUpTo
  <2>1. Len(b) \in Nat /\ Len(bytes) \in Nat /\ Len(bytes) <= MaxSize
    BY LenProperties DEF Buffers, BytesUpTo
  <2> QED BY <2>1, MaxSizeType
<1>4. ASSUME NEW i \in 1..n
      PROVE  /\ \A x \in V[i] : F[i][x] \in Int
             /\ \A b \in Buffers : Reads(R[i][b], b, V[i], F[i])
  <2> DEFINE m == MemberType(t, i)
  <2>1. m \in Members(t) /\ m \in Types
    BY ComposedCases
  <2>2. /\ R[i] = IF IsStringArray(t) THEN StringFromBuffer ELSE InnerFromBuffer[m]
        /\ V[i] = InnerOf[m] /\ F[i] = IF IsStringArray(t) THEN StringBlocks ELSE InnerBlocks[m]
    BY DEF ItemReaders, ItemKinds, ItemFrees, ItemBlocks
  <2>3. CASE IsStringArray(t)
    <3>1. m = STRING_T
      BY <2>3, StringArrayCell
    <3> HIDE DEF m, R, V, F
    <3>2. R[i] = StringFromBuffer /\ V[i] = InnerOf[STRING_T] /\ F[i] = StringBlocks
      BY <2>2, <2>3, <3>1
    <3> QED BY <3>2, StringReads, StringBlocksType
  <2>4. CASE ~IsStringArray(t)
    <3>1. R[i] = InnerFromBuffer[m] /\ V[i] = InnerOf[m] /\ F[i] = InnerBlocks[m]
      BY <2>2, <2>4
    <3>2. \A b \in Buffers : Reads(InnerFromBuffer[m][b], b, InnerOf[m], InnerBlocks[m])
      BY <2>1 DEF ReadInside
    <3>3. \A x \in InnerOf[m] : InnerBlocks[m][x] \in Int
      BY <2>1, InnerBlocksType
    <3> HIDE DEF m, R, V, F
    <3> QED BY <3>1, <3>2, <3>3
  <2> QED BY <2>3, <2>4
<1> HIDE DEF R, V, F
<1>5. GoodReaders(R, n, V, F, bytes)
  BY <1>3, <1>4 DEF GoodReaders
<1> QED BY <1>2, <1>5 DEF R, V, F

(* The members that were read are a value of the type.                      *)
LEMMA ComposedReads ==
    ASSUME NEW t \in Types, ~IsBlockable(t), NEW n \in Nat, t.tid = STRUCT_TID => n = Len(t.fields),
           NEW bytes \in Seq(Byte), NEW rest \in Seq(Byte), NEW prefix \in Nat,
           Len(bytes) = prefix + Len(rest),
           NEW r, AllRead(r, n, n, ItemKinds(t, n), ItemFrees(t, n), rest)
    PROVE  Reads(NewInner(r, Composed(r.v), prefix), bytes, InnerOf[t], InnerBlocks[t])
<1> DEFINE V == ItemKinds(t, n)
           F == ItemFrees(t, n)
           u == NewInner(r, Composed(r.v), prefix)
<1> SUFFICES Reads(u, bytes, InnerOf[t], InnerBlocks[t])
  OBVIOUS
<1>1. u = IF r.status # SUCCESS THEN r ELSE Read(Composed(r.v), prefix + r.readden, r.blocks + 1)
  BY DEF NewInner
<1>2. \A i \in 1..n : V[i] = InnerOf[MemberType(t, i)] /\ F[i] = ItemBlocks(t, i)
  BY DEF ItemKinds, ItemFrees
<1>3. AllRead(r, n, n, V, F, rest)
  OBVIOUS
<1> HIDE DEF u, V, F
<1>4. CASE r.status # SUCCESS
  BY <1>1, <1>3, <1>4 DEF AllRead, Reads
<1>5. CASE r.status = SUCCESS
  <2> DEFINE ms == r.v
             iv == Composed(ms)
             s == [i \in DOMAIN ms |-> F[i][ms[i]]]
             w == [i \in DOMAIN ms |-> ItemBlocks(t, i)[ms[i]]]
  <2>1. /\ ms \in Seq(UNION {V[i] : i \in 1..n}) /\ Len(ms) = n
        /\ \A i \in 1..n : ms[i] \in V[i]
        /\ r.readden \in Nat /\ r.readden <= Len(rest)
        /\ r.blocks = Allocated(n) + Sum(s)
    BY <1>3, <1>5 DEF AllRead
  <2>2. DOMAIN ms = 1..n /\ ms = [i \in 1..n |-> ms[i]]
    BY <2>1, LenProperties
  <2>3. s = w
    <3>1. \A i \in DOMAIN ms : F[i][ms[i]] = ItemBlocks(t, i)[ms[i]]
      BY <1>2, <2>2
    <3> HIDE DEF ms
    <3> QED BY <3>1
  <2>4. \A i \in 1..n : ms[i] \in InnerOf[MemberType(t, i)]
    BY <1>2, <2>1
  <2>5. iv.members = ms
    BY DEF Composed
  <2>6. /\ u.status = SUCCESS /\ u.v = iv /\ u.readden = prefix + r.readden
        /\ u.blocks = r.blocks + 1
    BY <1>1, <1>5 DEF Read
  <2>7. iv \in InnerOf[t]
    <3> HIDE DEF ms
    <3> QED BY <2>1, <2>2, <2>4, MakeComposed
  <2>8. InnerBlocks[t][iv] = 1 + Allocated(n) + Sum(w)
    <3>1. InnerBlocks[t][iv] = 1 + Allocated(Len(iv.members))
            + Sum([i \in DOMAIN iv.members |-> ItemBlocks(t, i)[iv.members[i]]])
      <4> HIDE DEF iv
      <4> QED BY <2>7, ComposedBlocks
    <3> QED BY <2>1, <2>5, <3>1
  <2> HIDE DEF iv, w
  <2>9. InnerBlocks[t][iv] \in Int /\ Allocated(n) \in Int
    BY <2>7, InnerBlocksType, AllocatedType
  <2>10. Sum(w) \in Int
    <3>1. DOMAIN w = 1..n /\ w = [i \in DOMAIN w |-> w[i]]
      BY <2>2 DEF w
    <3>2. \A i \in 1..n : w[i] \in Int
      <4>1. ASSUME NEW i \in 1..n PROVE ItemBlocks(t, i)[ms[i]] \in Int
        <5>1. MemberType(t, i) \in Types /\ ms[i] \in InnerOf[MemberType(t, i)]
          BY <2>4, ComposedCases
        <5>2. CASE IsStringArray(t)
          BY <5>1, <5>2, StringArrayCell, StringBlocksType DEF ItemBlocks
        <5>3. CASE ~IsStringArray(t)
          BY <5>1, <5>3, InnerBlocksType DEF ItemBlocks
        <5> QED BY <5>2, <5>3
      <4>2. \A i \in 1..n : w[i] = ItemBlocks(t, i)[ms[i]]
        BY <2>2 DEF w
      <4> QED BY <4>1, <4>2
    <3>3. Len(w) = n
      BY <3>1, LenOf
    <3> QED BY <3>2, <3>3, SumType
  <2>11. u.readden \in Nat /\ u.readden <= Len(bytes)
    <3> DEFINE l == Len(rest)
    <3>1. l \in Nat
      BY LenProperties
    <3>2. Len(bytes) = prefix + l /\ r.readden <= l
      BY <2>1
    <3> HIDE DEF l
    <3> QED BY <2>1, <2>6, <3>1, <3>2
  <2> HIDE DEF ms, s
  <2>12. u.blocks = InnerBlocks[t][u.v]
    BY <2>1, <2>3, <2>6, <2>8, <2>9, <2>10
  <2> QED BY <2>6, <2>7, <2>11, <2>12, SuccessIsByte DEF Reads
<1> QED BY <1>4, <1>5

LEMMA InnerFromBufferReads ==
    \A t \in Types : \A b \in Buffers : Reads(InnerFromBuffer[t][b], b, InnerOf[t], InnerBlocks[t])
<1> DEFINE G == {t \in Types : \A b \in Buffers :
                     Reads(InnerFromBuffer[t][b], b, InnerOf[t], InnerBlocks[t])}
<1>1. ASSUME NEW t \in Types, Members(t) \subseteq G, NEW bytes \in Buffers
      PROVE  Reads(InnerFromBuffer[t][bytes], bytes, InnerOf[t], InnerBlocks[t])
  <2> DEFINE r == InnerFromBuffer[t][bytes]
  <2> SUFFICES Reads(r, bytes, InnerOf[t], InnerBlocks[t])
    OBVIOUS
  <2>1. r = InnerReadOf(InnerFromBuffer, t)[bytes]
    BY InnerFromBufferUnfold
  <2>2. bytes \in Seq(Byte) /\ Len(bytes) \in Nat /\ Len(bytes) <= MaxSize
    BY LenProperties DEF Buffers, BytesUpTo
  <2>3. CASE IsBlockable(t)
    <3> DEFINE block == BlockFromBuffer(t, bytes)
    <3>1. r = IF HasLength(t) THEN NewInner(block, block.v, 0) ELSE NumberFromBuffer(t, bytes)
      BY <2>1, <2>2, <2>3 DEF InnerReadOf
    <3>2. Reads(IF HasLength(t) THEN NewInner(block, block.v, 0) ELSE NumberFromBuffer(t, bytes),
                bytes, InnerOf[t], InnerBlocks[t])
      BY <2>3, DenseReads
    <3> HIDE DEF r
    <3> QED BY <3>1, <3>2
  <2>4. CASE ~IsBlockable(t)
    <3>1. ReadInside(t)
      BY <1>1 DEF ReadInside
    <3>2. CASE t.tid = STRUCT_TID
      <4> DEFINE n == Len(t.fields)
                 R == ItemReaders(t, n)
                 F == ItemFrees(t, n)
                 V == ItemKinds(t, n)
                 fields == ReadEach(R, F, bytes)
      <4>1. /\ n \in Nat /\ DOMAIN t.fields = 1..n /\ ~IsStringArray(t)
            /\ \A i \in 1..n : MemberType(t, i) = t.fields[i]
        BY <2>4, <3>2, ComposedCases DEF IsStringArray
      <4>2. R = [i \in DOMAIN t.fields |-> InnerFromBuffer[t.fields[i]]]
            /\ F = [i \in DOMAIN t.fields |-> InnerBlocks[t.fields[i]]]
        BY <4>1 DEF ItemReaders, ItemFrees, ItemBlocks
      <4>3. r = NewInner(fields, Composed(fields.v), 0)
        <5> DEFINE P == [i \in DOMAIN t.fields |-> InnerFromBuffer[t.fields[i]]]
                   Q == [i \in DOMAIN t.fields |-> InnerBlocks[t.fields[i]]]
                   these == ReadEach(P, Q, bytes)
        <5>1. r = NewInner(these, Composed(these.v), 0)
          BY <2>1, <2>2, <2>4, <3>2 DEF InnerReadOf
        <5>2. these = fields
          BY <4>2
        <5> HIDE DEF these, fields, r
        <5> QED BY <5>1, <5>2
      <4>4. Len(R) = n /\ GoodReaders(R, n, V, F, bytes)
        BY <2>4, <3>1, <4>1, ItemReadersAreGood
      <4>5. AllRead(fields, n, n, V, F, bytes)
        <5> HIDE DEF R, V, F, n
        <5> QED BY <2>2, <4>1, <4>4, ReadEachReads
      <4>6. Len(bytes) = 0 + Len(bytes) /\ 0 \in Nat
        BY <2>2
      <4> HIDE DEF r, fields
      <4>7. Reads(NewInner(fields, Composed(fields.v), 0), bytes, InnerOf[t], InnerBlocks[t])
        BY <2>2, <2>4, <4>1, <4>5, <4>6, ComposedReads
      <4> QED BY <4>3, <4>7
    <3>3. CASE t.tid # STRUCT_TID /\ Len(bytes) < LengthBytes
      <4>1. r = Refused(UNEXPECTED_END) /\ UNEXPECTED_END # SUCCESS
        BY <2>1, <2>2, <2>4, <3>3 DEF InnerReadOf, UNEXPECTED_END, SUCCESS
      <4> HIDE DEF r
      <4> QED BY <4>1, RefusedReads, StatusBytes
    <3>4. CASE t.tid # STRUCT_TID /\ ~(Len(bytes) < LengthBytes)
      <4> DEFINE n == FromBytes(bytes)
                 rest == After(bytes, LengthBytes)
                 R == ItemReaders(t, n)
                 F == ItemFrees(t, n)
                 V == ItemKinds(t, n)
                 array == ReadEach(R, F, rest)
      <4>1. LengthBytes \in Nat /\ LengthBytes <= Len(bytes) /\ Len(bytes) >= LengthBytes
        BY <2>2, <3>4 DEF LengthBytes
      <4>2. n \in Nat
        BY <2>2, <4>1, FromBytesType
      <4>3. rest \in Seq(Byte) /\ Len(rest) = Len(bytes) - LengthBytes
        BY <2>2, <4>1, AfterIs
      <4>4. Len(rest) \in Nat /\ Len(bytes) = LengthBytes + Len(rest) /\ Len(rest) <= MaxSize
        BY <2>2, <4>1, <4>3, MaxSizeType DEF LengthBytes
      <4>5. rest \in Buffers
        BY <4>3, <4>4 DEF Buffers, BytesUpTo
      <4>6. \A i : MemberType(t, i) = t.cell
        BY <2>4, <3>4, ComposedCases
      <4>7. R = [i \in 1..n |-> IF IsStringArray(t) THEN StringFromBuffer ELSE InnerFromBuffer[t.cell]]
            /\ F = [i \in 1..n |-> IF IsStringArray(t) THEN StringBlocks ELSE InnerBlocks[t.cell]]
        BY <4>6 DEF ItemReaders, ItemFrees, ItemBlocks
      <4>8. r = NewInner(array, Composed(array.v), LengthBytes)
        <5> DEFINE strings == ReadEach([i \in 1..n |-> StringFromBuffer], [i \in 1..n |-> StringBlocks],
                                       rest)
                   entries == ReadEach([i \in 1..n |-> InnerFromBuffer[t.cell]],
                                       [i \in 1..n |-> InnerBlocks[t.cell]], rest)
                   these == IF IsStringArray(t) THEN strings ELSE entries
        <5>1. r = NewInner(these, Composed(these.v), LengthBytes)
          BY <2>1, <2>2, <2>4, <3>4 DEF InnerReadOf
        <5>2. these = array
          <6>1. CASE IsStringArray(t)
            <7>1. R = [i \in 1..n |-> StringFromBuffer] /\ F = [i \in 1..n |-> StringBlocks]
              BY <4>7, <6>1
            <7> QED BY <6>1, <7>1
          <6>2. CASE ~IsStringArray(t)
            <7>1. R = [i \in 1..n |-> InnerFromBuffer[t.cell]] /\ F = [i \in 1..n |-> InnerBlocks[t.cell]]
              BY <4>7, <6>2
            <7> QED BY <6>2, <7>1
          <6> QED BY <6>1, <6>2
        <5> HIDE DEF these, array, r
        <5> QED BY <5>1, <5>2
      <4> HIDE DEF n, rest
      <4>9. Len(R) = n /\ GoodReaders(R, n, V, F, rest)
        BY <2>4, <3>1, <3>4, <4>2, <4>5, ItemReadersAreGood
      <4>10. AllRead(array, n, n, V, F, rest)
        <5> HIDE DEF R, V, F
        <5> QED BY <4>2, <4>3, <4>9, ReadEachReads
      <4> HIDE DEF r, array
      <4>11. Reads(NewInner(array, Composed(array.v), LengthBytes), bytes, InnerOf[t], InnerBlocks[t])
        BY <2>2, <2>4, <3>4, <4>1, <4>2, <4>3, <4>4, <4>10, ComposedReads
      <4> QED BY <4>8, <4>11
    <3> QED BY <3>2, <3>3, <3>4
  <2> QED BY <2>3, <2>4
<1>2. Types \subseteq G
  <2>1. ASSUME NEW t \in Types, Members(t) \subseteq G PROVE t \in G
    <3>1. \A b \in Buffers : Reads(InnerFromBuffer[t][b], b, InnerOf[t], InnerBlocks[t])
      <4> HIDE DEF G
      <4> QED BY <1>1, <2>1
    <3> QED BY <3>1
  <2> HIDE DEF G
  <2> QED BY <2>1, TypeInduction
<1> QED BY <1>2

(* Values, with their types in front.                                       *)
ValueReads(r) ==
    /\ r.status \in Byte
    /\ IF r.status = SUCCESS THEN IsValue(r.v) /\ r.blocks = ValueBlocks(r.v) ELSE r.blocks = 0

LEMMA ValueBlocksType == \A v : IsValue(v) => ValueBlocks(v) \in Int
<1> SUFFICES ASSUME NEW v, IsValue(v) PROVE ValueBlocks(v) \in Int
  OBVIOUS
<1>1. TypeBlocks[v.type] \in Int /\ InnerBlocks[v.type][v.iv] \in Int
  BY TypeBlocksType, InnerBlocksType DEF IsValue
<1> QED BY <1>1 DEF ValueBlocks

LEMMA ValueFromBufferReads == \A bytes \in Buffers : ValueReads(ValueFromBuffer(bytes))
<1> SUFFICES ASSUME NEW bytes \in Buffers PROVE ValueReads(ValueFromBuffer(bytes))
  OBVIOUS
<1> DEFINE t == TypeFromBuffer[bytes]
           rest == After(bytes, t.readden)
           i == InnerFromBuffer[t.v][rest]
           r == ValueFromBuffer(bytes)
<1>1. r = IF t.status # SUCCESS THEN t
          ELSE IF i.status # SUCCESS
          THEN [Refused(i.status) EXCEPT !.blocks = i.blocks + t.blocks - TypeBlocks[t.v]]
          ELSE Read([type |-> t.v, iv |-> i.v], t.readden + i.readden, t.blocks + i.blocks + 1)
  BY DEF ValueFromBuffer
<1>2. Reads(t, bytes, Types, TypeBlocks)
  BY TypeFromBufferReads
<1>3. bytes \in Seq(Byte) /\ Len(bytes) \in Nat /\ Len(bytes) <= MaxSize
  BY LenProperties DEF Buffers, BytesUpTo
<1> SUFFICES ValueReads(r)
  OBVIOUS
<1> HIDE DEF t, r
<1>4. CASE t.status # SUCCESS
  <2>1. r = t
    BY <1>1, <1>4
  <2> QED BY <1>2, <1>4, <2>1 DEF Reads, ValueReads
<1>5. CASE t.status = SUCCESS
  <2>1. t.v \in Types /\ t.readden \in Nat /\ t.readden <= Len(bytes) /\ t.blocks = TypeBlocks[t.v]
    BY <1>2, <1>5 DEF Reads
  <2>2. rest \in Seq(Byte) /\ Len(rest) = Len(bytes) - t.readden
    BY <1>3, <2>1, AfterIs
  <2>3. Len(rest) <= MaxSize
    BY <1>3, <2>1, <2>2, MaxSizeType
  <2>4. rest \in Buffers
    BY <2>2, <2>3 DEF Buffers, BytesUpTo
  <2>5. Reads(i, rest, InnerOf[t.v], InnerBlocks[t.v])
    <3> HIDE DEF rest
    <3> QED BY <2>1, <2>4, InnerFromBufferReads
  <2>6. TypeBlocks[t.v] \in Int
    BY <2>1, TypeBlocksType
  <2> HIDE DEF i, rest
  <2>7. CASE i.status # SUCCESS
    <3>1. r = [Refused(i.status) EXCEPT !.blocks = i.blocks + t.blocks - TypeBlocks[t.v]]
      BY <1>1, <1>5, <2>7
    <3>2. i.blocks = 0 /\ i.status \in Byte
      BY <2>5, <2>7 DEF Reads
    <3>3. r.status = i.status /\ r.blocks = i.blocks + t.blocks - TypeBlocks[t.v]
      BY <3>1 DEF Refused
    <3> QED BY <2>1, <2>6, <2>7, <3>1, <3>2, <3>3 DEF ValueReads
  <2>8. CASE i.status = SUCCESS
    <3> DEFINE v == [type |-> t.v, iv |-> i.v]
    <3>1. i.v \in InnerOf[t.v] /\ i.blocks = InnerBlocks[t.v][i.v]
      BY <2>5, <2>8 DEF Reads
    <3>2. v.type = t.v /\ v.iv = i.v
      OBVIOUS
    <3>3. r.status = SUCCESS /\ r.v = v /\ r.blocks = t.blocks + i.blocks + 1
      BY <1>1, <1>5, <2>8 DEF Read
    <3>4. IsValue(v) /\ ValueBlocks(v) = TypeBlocks[t.v] + InnerBlocks[t.v][i.v] + 1
      BY <2>1, <3>1, <3>2 DEF IsValue, ValueBlocks
    <3> HIDE DEF v
    <3>5. r.blocks = ValueBlocks(v)
      BY <2>1, <3>1, <3>3, <3>4
    <3> QED BY <3>3, <3>4, <3>5, SuccessIsByte DEF ValueReads
  <2> QED BY <2>7, <2>8
<1> QED BY <1>4, <1>5

-----------------------------------------------------------------------------
(* A writer that writes no more than so many bytes.  What is written in     *)
(* turn takes what the parts take.                                          *)
Takes(w, k) == \A r \in Nat : Fits(w[r], r) /\ Len(w[r].out) <= k

Limits(c, start, ws, n) ==
    /\ \A i \in 0..n : c[i] \in Nat
    /\ Len(start) <= c[0]
    /\ \A i \in 1..n : c[i - 1] <= c[i] /\ Takes(ws[i], c[i] - c[i - 1])

LEMMA WriteEachTakes ==
    ASSUME NEW room \in Nat, NEW start \in Seq(Byte), Len(start) <= room,
           NEW n \in Nat, NEW ws, Len(ws) = n, NEW c, Limits(c, start, ws, n)
    PROVE  Len(WriteEach(start, ws, room).out) <= c[n]
<1>1. PICK f : IsWriteEach(f, start, ws, room, n) /\ WriteEach(start, ws, room) = f[n]
  BY WriteEachIs
<1> DEFINE G == {i \in Nat : i <= n => Fits(f[i], room) /\ Len(f[i].out) <= c[i]}
<1>2. 0 \in G
  <2>1. Len(start) \in Nat
    BY LenProperties
  <2>2. f[0] = Written(start)
    BY <1>1 DEF IsWriteEach
  <2>3. Fits(f[0], room) /\ f[0].out = start
    BY <2>1, <2>2 DEF Fits, Written
  <2> QED BY <2>3 DEF Limits
<1>3. ASSUME NEW i \in 0..(n - 1), i \in G PROVE i + 1 \in G
  <2>1. i + 1 \in 1..n /\ (i + 1) - 1 = i /\ i <= n /\ i + 1 \in Nat /\ i \in 0..n /\ i + 1 \in 0..n
    OBVIOUS
  <2> DEFINE acc == f[i]
  <2>2. Fits(acc, room) /\ Len(acc.out) <= c[i]
    BY <1>3, <2>1
  <2>3. f[i + 1] = WriteStep(acc, ws[i + 1], room)
    BY <1>1, <2>1 DEF IsWriteEach
  <2>4. /\ c[i] \in Nat /\ c[i + 1] \in Nat /\ c[i] <= c[i + 1]
        /\ Takes(ws[i + 1], c[i + 1] - c[i])
    BY <2>1 DEF Limits
  <2> HIDE DEF acc
  <2>5. CASE acc.status # SUCCESS
    <3>1. f[i + 1] = acc
      BY <2>3, <2>5 DEF WriteStep
    <3>2. Len(acc.out) <= c[i + 1]
      BY <2>2, <2>4 DEF Fits
    <3> QED BY <2>1, <2>2, <3>1, <3>2
  <2>6. CASE acc.status = SUCCESS
    <3> DEFINE r == room - Len(acc.out)
               w == ws[i + 1][r]
    <3>1. r \in Nat /\ r = room - Len(acc.out)
      BY <2>2 DEF Fits
    <3>2. Fits(w, r) /\ Len(w.out) <= c[i + 1] - c[i]
      <4> HIDE DEF r
      <4> QED BY <2>4, <3>1 DEF Takes
    <3>3. f[i + 1] = [status |-> w.status, out |-> acc.out \o w.out]
      BY <2>3, <2>6 DEF WriteStep, WriteNext
    <3> HIDE DEF w, r
    <3> DEFINE both == acc.out \o w.out
               a == Len(acc.out)
               b == Len(w.out)
    <3>4. both \in Seq(Byte) /\ Len(both) = a + b
      BY <2>2, <3>2, ConcatProperties DEF Fits
    <3>5. /\ a \in Nat /\ b \in Nat /\ b <= r /\ r = room - a /\ w.status \in {SUCCESS, BUFFER_TOO_SMALL}
          /\ a <= c[i] /\ b <= c[i + 1] - c[i]
      BY <2>2, <3>1, <3>2 DEF Fits
    <3>6. f[i + 1] = [status |-> w.status, out |-> both]
      BY <3>3
    <3> HIDE DEF a, b, both
    <3>7. Len(both) \in Nat /\ Len(both) <= room /\ Len(both) <= c[i + 1]
      <4> DEFINE l == Len(both)
                 ci == c[i]
                 cn == c[i + 1]
      <4>1. /\ l = a + b /\ a \in Nat /\ b \in Nat /\ r \in Nat /\ b <= r /\ r = room - a
            /\ a <= ci /\ b <= cn - ci /\ ci \in Nat /\ cn \in Nat
        BY <2>4, <3>1, <3>4, <3>5
      <4> HIDE DEF l, ci, cn
      <4>2. l \in Nat /\ l <= room /\ l <= cn
        BY <4>1
      <4> QED BY <4>2 DEF l, cn
    <3>8. f[i + 1].status = w.status /\ f[i + 1].out = both
      BY <3>6
    <3>9. Fits(f[i + 1], room) /\ Len(f[i + 1].out) <= c[i + 1]
      BY <3>4, <3>5, <3>7, <3>8 DEF Fits
    <3> QED BY <2>1, <3>9
  <2> QED BY <2>5, <2>6
<1>4. \A i \in 0..n : i \in G
  <2> HIDE DEF G
  <2> QED BY <1>2, <1>3, Induction
<1> QED BY <1>1, <1>4

(* After one writer, or two.                                                *)
LEMMA OneTakes ==
    ASSUME NEW room \in Nat, NEW start \in Seq(Byte), NEW l \in Nat, Len(start) = l, l <= room,
           NEW w, NEW k \in Nat, Takes(w, k)
    PROVE  Len(WriteEach(start, <<w>>, room).out) <= l + k
<1> DEFINE ws == <<w>>
           c == [i \in 0..1 |-> IF i = 0 THEN l ELSE l + k]
<1>1. Len(ws) = 1 /\ ws[1] = w
  OBVIOUS
<1>2. c[0] = l /\ c[1] = l + k
  OBVIOUS
<1> HIDE DEF ws, c
<1>3. /\ c[1] - c[0] = k /\ c[0] <= c[1] /\ c[0] \in Nat /\ c[1] \in Nat
      /\ \A i \in 0..1 : i = 0 \/ i = 1
      /\ \A i \in 1..1 : i = 1 /\ i - 1 = 0
  BY <1>2
<1>4. Limits(c, start, ws, 1)
  <2>1. \A i \in 0..1 : c[i] \in Nat
    BY <1>3
  <2>2. \A i \in 1..1 : c[i - 1] <= c[i] /\ Takes(ws[i], c[i] - c[i - 1])
    BY <1>1, <1>3
  <2>3. Len(start) <= c[0]
    BY <1>2
  <2> QED BY <2>1, <2>2, <2>3 DEF Limits
<1>5. Len(WriteEach(start, ws, room).out) <= c[1]
  BY <1>1, <1>4, WriteEachTakes
<1> QED BY <1>2, <1>5 DEF ws

LEMMA TwoTake ==
    ASSUME NEW room \in Nat, NEW start \in Seq(Byte), NEW l \in Nat, Len(start) = l, l <= room,
           NEW ws, Len(ws) = 2, NEW k1 \in Nat, NEW k2 \in Nat, Takes(ws[1], k1), Takes(ws[2], k2)
    PROVE  Len(WriteEach(start, ws, room).out) <= l + k1 + k2
<1> DEFINE c == [i \in 0..2 |-> IF i = 0 THEN l ELSE IF i = 1 THEN l + k1 ELSE l + k1 + k2]
<1>1. c[0] = l /\ c[1] = l + k1 /\ c[2] = l + k1 + k2
  OBVIOUS
<1> HIDE DEF c
<1>2. /\ c[1] - c[0] = k1 /\ c[2] - c[1] = k2 /\ c[0] <= c[1] /\ c[1] <= c[2]
      /\ c[0] \in Nat /\ c[1] \in Nat /\ c[2] \in Nat
      /\ \A i \in 0..2 : i = 0 \/ i = 1 \/ i = 2
      /\ \A i \in 1..2 : (i = 1 /\ i - 1 = 0) \/ (i = 2 /\ i - 1 = 1)
  BY <1>1
<1>3. Limits(c, start, ws, 2)
  <2>1. \A i \in 0..2 : c[i] \in Nat
    BY <1>2
  <2>2. \A i \in 1..2 : c[i - 1] <= c[i] /\ Takes(ws[i], c[i] - c[i - 1])
    BY <1>2
  <2>3. Len(start) <= c[0]
    BY <1>1
  <2> QED BY <2>1, <2>2, <2>3 DEF Limits
<1>4. Len(WriteEach(start, ws, room).out) <= c[2]
  BY <1>3, WriteEachTakes
<1> QED BY <1>1, <1>4

-----------------------------------------------------------------------------
(* The types of a request and of a response.                                *)
ARRAY_B == ArrayOf(BYTE_T)
ARRAY_AB == ArrayOf(ARRAY_B)

LEMMA PrimitiveBelow ==
    \A d \in 0..MaxSize : \A tid \in 0..STRING_TID : Primitive(tid) \in Below(d + 1)
BY BelowNext DEF Around, Basic, Primitive

LEMMA ArrayBelow == \A d \in 0..MaxSize : \A t \in Below(d) : ArrayOf(t) \in Below(d + 1)
BY BelowNext DEF Around, ArrayOf

LEMMA PairBelow ==
    \A d \in 0..MaxSize : \A t, u \in Below(d) : StructOf(<<t, u>>) \in Below(d + 1)
<1> SUFFICES ASSUME NEW d \in 0..MaxSize, NEW t \in Below(d), NEW u \in Below(d)
             PROVE  StructOf(<<t, u>>) \in Below(d + 1)
  OBVIOUS
<1> DEFINE s == <<t, u>>
<1>1. s \in Seq(Below(d)) /\ Len(s) = 2
  OBVIOUS
<1> HIDE DEF s
<1>2. Len(s) \in 1..MaxFields
  BY <1>1, Bounds
<1>3. StructOf(s) \in Around(Below(d))
  BY <1>1, <1>2 DEF StructOf, Around
<1>4. StructOf(s) \in Below(d + 1)
  BY <1>3, BelowNext
<1> QED BY <1>4 DEF s

LEMMA MessageTypes ==
    ASSUME MaxSize >= ErrorSize
    PROVE  /\ BYTE_T \in Types /\ ARRAY_B \in Types /\ ARRAY_AB \in Types
           /\ RespType \in Types /\ ReqType \in Types
<1>1. MaxSize >= 10
  BY DEF ErrorSize
<1>2. 0 \in 0..MaxSize /\ 1 \in 0..MaxSize /\ 2 \in 0..MaxSize /\ 3 \in 0..MaxSize
      /\ 0 + 1 = 1 /\ 1 + 1 = 2 /\ 2 + 1 = 3 /\ 3 + 1 = 4
      /\ 1 \in 0..(MaxSize + 1) /\ 2 \in 0..(MaxSize + 1) /\ 3 \in 0..(MaxSize + 1)
      /\ 4 \in 0..(MaxSize + 1)
  BY <1>1, MaxSizeType
<1>3. 0 \in 0..STRING_TID /\ STRING_TID \in 0..STRING_TID
  BY DEF STRING_TID
<1>4. BYTE_T \in Below(1) /\ STRING_T \in Below(1)
  BY <1>2, <1>3, PrimitiveBelow DEF BYTE_T, STRING_T
<1>5. BYTE_T \in Below(2) /\ STRING_T \in Below(2) /\ STRING_T \in Below(3)
  BY <1>2, <1>4, BelowGrows
<1>6. ARRAY_B \in Below(2)
  BY <1>2, <1>4, ArrayBelow DEF ARRAY_B
<1>7. ARRAY_AB \in Below(3)
  BY <1>2, <1>6, ArrayBelow DEF ARRAY_AB
<1>8. RespType \in Below(3)
  BY <1>2, <1>5, <1>6, PairBelow DEF RespType, ARRAY_B
<1>9. ReqType \in Below(4)
  BY <1>2, <1>5, <1>7, PairBelow DEF ReqType, ARRAY_B, ARRAY_AB
<1> QED BY <1>2, <1>4, <1>6, <1>7, <1>8, <1>9, BelowAll

LEMMA MessageKinds ==
    /\ IsPrimitive(BYTE_T) /\ IsBlockable(BYTE_T) /\ ~HasLength(BYTE_T) /\ CellSize(BYTE_T) = 1
    /\ BYTE_T.tid = 0
    /\ ~IsPrimitive(ARRAY_B) /\ IsBlockable(ARRAY_B) /\ HasLength(ARRAY_B) /\ CellSize(ARRAY_B) = 1
    /\ ARRAY_B.tid = ARRAY_TID /\ ARRAY_B.cell = BYTE_T
    /\ ~IsPrimitive(ARRAY_AB) /\ ~IsBlockable(ARRAY_AB)
    /\ ARRAY_AB.tid = ARRAY_TID /\ ARRAY_AB.cell = ARRAY_B
    /\ ~IsPrimitive(RespType) /\ ~IsBlockable(RespType) /\ RespType.tid = STRUCT_TID
    /\ RespType.fields = <<BYTE_T, ARRAY_B>>
    /\ ~IsPrimitive(ReqType) /\ ~IsBlockable(ReqType) /\ ReqType.tid = STRUCT_TID
    /\ ReqType.fields = <<STRING_T, ARRAY_AB>>
<1>1. BYTE_T.tid = 0
  BY DEF BYTE_T, Primitive
<1>2. ARRAY_B.tid = 11 /\ ARRAY_B.cell = BYTE_T
  BY DEF ARRAY_B, ArrayOf, ARRAY_TID
<1>3. ARRAY_AB.tid = 11 /\ ARRAY_AB.cell = ARRAY_B
  BY DEF ARRAY_AB, ArrayOf, ARRAY_TID
<1>4. RespType.tid = 10 /\ RespType.fields = <<BYTE_T, ARRAY_B>>
  BY DEF RespType, StructOf, ARRAY_B, STRUCT_TID
<1>5. ReqType.tid = 10 /\ ReqType.fields = <<STRING_T, ARRAY_AB>>
  BY DEF ReqType, StructOf, ARRAY_B, ARRAY_AB, STRUCT_TID
<1>6. IsPrimitive(BYTE_T) /\ IsBlockable(BYTE_T) /\ ~HasLength(BYTE_T)
  BY <1>1 DEF IsPrimitive, IsBlockable, HasLength, STRING_TID, ARRAY_TID
<1>7. CellSize(BYTE_T) = 1
  BY <1>1, <1>6 DEF CellSize
<1>8. ~IsPrimitive(ARRAY_B) /\ IsBlockable(ARRAY_B) /\ HasLength(ARRAY_B)
  BY <1>1, <1>2, <1>6 DEF IsPrimitive, IsBlockable, HasLength, STRING_TID, ARRAY_TID
<1>9. CellSize(ARRAY_B) = 1
  BY <1>1, <1>2, <1>8 DEF CellSize
<1>10. /\ ~IsPrimitive(ARRAY_AB) /\ ~IsBlockable(ARRAY_AB)
       /\ ~IsPrimitive(RespType) /\ ~IsBlockable(RespType)
       /\ ~IsPrimitive(ReqType) /\ ~IsBlockable(ReqType)
  BY <1>2, <1>3, <1>4, <1>5 DEF IsPrimitive, IsBlockable, STRING_TID, ARRAY_TID
<1> QED BY <1>1, <1>2, <1>3, <1>4, <1>5, <1>6, <1>7, <1>8, <1>9, <1>10 DEF ARRAY_TID, STRUCT_TID

(* A request is a name and the arguments as blocks of bytes; a response is  *)
(* a status and a block of bytes.                                           *)
IsPairOf(iv, t, u) == iv.members[1] \in InnerOf[t] /\ iv.members[2] \in InnerOf[u]

LEMMA PairMembers ==
    ASSUME NEW t \in Types, ~IsBlockable(t), t.tid = STRUCT_TID, NEW u1, NEW u2,
           t.fields = <<u1, u2>>, NEW iv \in InnerOf[t]
    PROVE  IsPairOf(iv, u1, u2)
<1>1. AreMembersOf(iv.members, t)
  BY InnerShape
<1>2. Len(t.fields) = 2
  OBVIOUS
<1>3. Len(iv.members) = 2
  BY <1>1, <1>2 DEF AreMembersOf
<1>4. \A i \in 1..2 : iv.members[i] \in InnerOf[MemberType(t, i)]
  BY <1>1, <1>3 DEF AreMembersOf
<1>5. MemberType(t, 1) = u1 /\ MemberType(t, 2) = u2
  BY DEF MemberType
<1>6. 1 \in 1..2 /\ 2 \in 1..2
  OBVIOUS
<1>7. iv.members[1] \in InnerOf[u1] /\ iv.members[2] \in InnerOf[u2]
  BY <1>4, <1>5, <1>6
<1> QED BY <1>7 DEF IsPairOf

LEMMA BlockFits ==
    \A t \in Types : IsBlockable(t) => \A iv \in InnerOf[t] :
        iv.block \in Buffers /\ iv.block \in Seq(Byte) /\ Len(iv.block) \in Nat
        /\ (~HasLength(t) => Len(iv.block) = CellSize(t))
BY InnerShape DEF IsBlockOf, Buffers, BytesUpTo

LEMMA RequestShape ==
    ASSUME MaxSize >= ErrorSize, NEW iv \in InnerOf[ReqType]
    PROVE  /\ \A i \in 1..Len(iv.members[2].members) : iv.members[2].members[i].block \in Buffers
           /\ iv.members[1].block \in Buffers
           /\ Len(iv.members[2].members) \in Nat
<1>1. IsPairOf(iv, STRING_T, ARRAY_AB)
  BY MessageTypes, MessageKinds, PairMembers
<1> DEFINE ms == iv.members[2].members
<1>2. iv.members[2] \in InnerOf[ARRAY_AB] /\ iv.members[1] \in InnerOf[STRING_T]
  BY <1>1 DEF IsPairOf
<1>3. AreMembersOf(ms, ARRAY_AB)
  BY <1>2, MessageTypes, MessageKinds, InnerShape
<1>4. \A i : MemberType(ARRAY_AB, i) = ARRAY_B
  BY MessageKinds DEF MemberType, ARRAY_TID, STRUCT_TID
<1> HIDE DEF ms
<1>5. \A i \in 1..Len(ms) : ms[i].block \in Buffers
  BY <1>3, <1>4, MessageTypes, MessageKinds, BlockFits DEF AreMembersOf
<1>6. iv.members[1].block \in Buffers
  BY <1>2, StringType, BlockFits
<1>7. Len(ms) \in Nat
  BY <1>3 DEF AreMembersOf
<1> QED BY <1>5, <1>6, <1>7 DEF ms

LEMMA ResponseShape ==
    ASSUME MaxSize >= ErrorSize, NEW iv \in InnerOf[RespType]
    PROVE  iv.members[1].block[1] \in Byte /\ iv.members[2].block \in Buffers
<1>1. IsPairOf(iv, BYTE_T, ARRAY_B)
  BY MessageTypes, MessageKinds, PairMembers
<1> DEFINE b == iv.members[1].block
<1>2. b \in Seq(Byte) /\ Len(b) = 1
  BY <1>1, MessageTypes, MessageKinds, BlockFits DEF IsPairOf
<1> HIDE DEF b
<1>3. b[1] \in Byte
  BY <1>2, ElementOfSeq
<1>4. iv.members[2].block \in Buffers
  BY <1>1, MessageTypes, MessageKinds, BlockFits DEF IsPairOf
<1> QED BY <1>3, <1>4 DEF b

-----------------------------------------------------------------------------
(* The response without a value is a value of the type of a response, and   *)
(* no larger than the smallest buffer.                                      *)
ErrorValue(status) == NewStruct(<<NewNumber(BYTE_T, <<status>>), NewNumericArray(BYTE_T, <<>>)>>)
ErrorInners(status) == <<Dense(<<status>>), Dense(<<>>)>>

LEMMA ErrorValueIs ==
    ASSUME NEW status
    PROVE  ErrorValue(status).type = RespType
           /\ ErrorValue(status).iv = Composed(ErrorInners(status))
<1> DEFINE vs == <<NewNumber(BYTE_T, <<status>>), NewNumericArray(BYTE_T, <<>>)>>
<1>1. DOMAIN vs = 1..2 /\ vs[1] = NewNumber(BYTE_T, <<status>>)
      /\ vs[2] = NewNumericArray(BYTE_T, <<>>)
  OBVIOUS
<1>2. ErrorValue(status).type = StructOf([i \in DOMAIN vs |-> vs[i].type])
      /\ ErrorValue(status).iv = Composed([i \in DOMAIN vs |-> vs[i].iv])
  BY DEF ErrorValue, NewStruct, Made, InnerValues
<1> HIDE DEF vs
<1>3. vs[1].type = BYTE_T /\ vs[1].iv = Dense(<<status>>)
      /\ vs[2].type = ARRAY_B /\ vs[2].iv = Dense(<<>>)
  BY <1>1 DEF NewNumber, NewNumericArray, Made, ARRAY_B
<1>4. [i \in DOMAIN vs |-> vs[i].type] = <<BYTE_T, ARRAY_B>>
  BY <1>1, <1>3
<1>5. [i \in DOMAIN vs |-> vs[i].iv] = <<Dense(<<status>>), Dense(<<>>)>>
  BY <1>1, <1>3
<1> QED BY <1>2, <1>4, <1>5 DEF RespType, ARRAY_B, ErrorInners

LEMMA ErrorInnersAre ==
    ASSUME MaxSize >= ErrorSize, NEW status \in Byte
    PROVE  /\ Dense(<<status>>) \in InnerOf[BYTE_T] /\ Dense(<<>>) \in InnerOf[ARRAY_B]
           /\ Composed(ErrorInners(status)) \in InnerOf[RespType]
<1>1. MaxSize >= 10
  BY DEF ErrorSize
<1>2. <<status>> \in Seq(Byte) /\ Len(<<status>>) = 1 /\ 1 \in 0..MaxSize /\ 0 \in 0..MaxSize
  BY <1>1, OneByte, MaxSizeType
<1>3. IsBlockOf(<<status>>, BYTE_T)
  BY <1>2, MessageKinds DEF IsBlockOf
<1>4. <<>> \in Seq(Byte) /\ Len(<<>>) = 0
  BY EmptySeq
<1>5. 0 % 1 = 0
  OBVIOUS
<1>6. IsBlockOf(<<>>, ARRAY_B)
  BY <1>2, <1>4, <1>5, MessageKinds DEF IsBlockOf
<1>7. Dense(<<status>>) \in InnerOf[BYTE_T] /\ Dense(<<>>) \in InnerOf[ARRAY_B]
  BY <1>3, <1>6, MessageTypes, MessageKinds, MakeDense
<1> DEFINE ms == ErrorInners(status)
<1>8. Len(ms) = 2 /\ ms = [i \in 1..2 |-> ms[i]] /\ ms[1] = Dense(<<status>>) /\ ms[2] = Dense(<<>>)
  BY DEF ErrorInners
<1> HIDE DEF ms
<1>9. MemberType(RespType, 1) = BYTE_T /\ MemberType(RespType, 2) = ARRAY_B
      /\ Len(RespType.fields) = 2
  BY MessageKinds DEF MemberType
<1>10. \A i \in 1..2 : ms[i] \in InnerOf[MemberType(RespType, i)]
  <2>1. \A i \in 1..2 : i = 1 \/ i = 2
    OBVIOUS
  <2> QED BY <1>7, <1>8, <1>9, <2>1
<1>11. Composed(ms) \in InnerOf[RespType]
  BY <1>8, <1>9, <1>10, MessageTypes, MessageKinds, MakeComposed
<1> QED BY <1>7, <1>11 DEF ms

LEMMA ErrorIsValue ==
    ASSUME MaxSize >= ErrorSize, NEW status \in Byte
    PROVE  IsValue(ErrorValue(status))
BY ErrorValueIs, ErrorInnersAre, MessageTypes DEF IsValue

LEMMA RespTypeTakes ==
    ASSUME MaxSize >= ErrorSize
    PROVE  Takes(TypeToBuffer[RespType], 5)
<1>1. ASSUME NEW r \in Nat PROVE Len(TypeToBuffer[BYTE_T][r].out) <= 1
  <2> DEFINE w == TypeToBuffer[BYTE_T][r]
  <2>1. w = TypeToBufferOf(TypeToBuffer, BYTE_T)[r] /\ r \in Int
    BY MessageTypes, TypeToBufferUnfold
  <2>2. w = TooSmall(<<>>) \/ w = Written(<<BYTE_T.tid>>)
    BY <2>1, MessageKinds DEF TypeToBufferOf
  <2> HIDE DEF w
  <2>3. w.out = <<>> \/ w.out = <<BYTE_T.tid>>
    BY <2>2 DEF TooSmall, Written
  <2>4. Len(<<>>) = 0 /\ Len(<<BYTE_T.tid>>) = 1
    BY EmptySeq
  <2>5. Len(w.out) <= 1
    <3> DEFINE l == Len(w.out)
    <3>1. l = 0 \/ l = 1
      BY <2>3, <2>4, Zenon
    <3> HIDE DEF l
    <3>2. l <= 1
      BY <3>1
    <3> QED BY <3>2 DEF l
  <2> QED BY <2>5 DEF w
<1>2. Takes(TypeToBuffer[BYTE_T], 1)
  BY <1>1, MessageTypes, TypeToBufferFits DEF Takes
<1>3. ASSUME NEW r \in Nat PROVE Len(TypeToBuffer[ARRAY_B][r].out) <= 2
  <2> DEFINE w == TypeToBuffer[ARRAY_B][r]
             each == WriteEach(<<ARRAY_TID>>, <<TypeToBuffer[BYTE_T]>>, r)
  <2>1. w = TypeToBufferOf(TypeToBuffer, ARRAY_B)[r] /\ r \in Int
    BY MessageTypes, TypeToBufferUnfold
  <2>2. IF r < 1 THEN w = TooSmall(<<>>) ELSE w = each
    BY <2>1, MessageKinds DEF TypeToBufferOf, ARRAY_TID, STRUCT_TID
  <2>3. <<ARRAY_TID>> \in Seq(Byte) /\ Len(<<ARRAY_TID>>) = 1
    BY OneByte DEF ARRAY_TID, Byte
  <2>4. ~(r < 1) => Len(each.out) <= 1 + 1
    <3> HIDE DEF each
    <3>1. SUFFICES ASSUME ~(r < 1) PROVE Len(each.out) <= 1 + 1
      OBVIOUS
    <3>2. 1 <= r /\ 1 \in Nat
      BY <3>1
    <3> QED BY <1>2, <2>3, <3>2, OneTakes DEF each
  <2> HIDE DEF w, each
  <2>5. Len(w.out) <= 2
    <3>1. Len(<<>>) = 0
      BY EmptySeq
    <3>2. r < 1 => w.out = <<>>
      BY <2>2 DEF TooSmall
    <3> QED BY <2>2, <2>4, <3>1, <3>2
  <2> QED BY <2>5 DEF w
<1>4. Takes(TypeToBuffer[ARRAY_B], 2)
  BY <1>3, MessageTypes, TypeToBufferFits DEF Takes
<1>5. ASSUME NEW r \in Nat PROVE Len(TypeToBuffer[RespType][r].out) <= 5
  <2> DEFINE w == TypeToBuffer[RespType][r]
             ws == [i \in DOMAIN RespType.fields |-> TypeToBuffer[RespType.fields[i]]]
             start == <<STRUCT_TID, Len(RespType.fields)>>
             each == WriteEach(start, ws, r)
  <2>1. w = TypeToBufferOf(TypeToBuffer, RespType)[r] /\ r \in Int
    BY MessageTypes, TypeToBufferUnfold
  <2>2. IF r < 2 THEN w = TooSmall(<<>>) ELSE w = each
    BY <2>1, MessageKinds DEF TypeToBufferOf, ARRAY_TID, STRUCT_TID
  <2>3. Len(RespType.fields) = 2 /\ DOMAIN RespType.fields = 1..2
        /\ RespType.fields[1] = BYTE_T /\ RespType.fields[2] = ARRAY_B
    BY MessageKinds
  <2>4. start \in Seq(Byte) /\ Len(start) = 2
    <3>1. STRUCT_TID \in Byte /\ 2 \in Byte
      BY DEF STRUCT_TID, Byte
    <3>2. start = <<STRUCT_TID, 2>>
      BY <2>3
    <3> HIDE DEF start
    <3> QED BY <3>1, <3>2
  <2>5. DOMAIN ws = 1..2 /\ ws = [i \in DOMAIN ws |-> ws[i]]
        /\ ws[1] = TypeToBuffer[BYTE_T] /\ ws[2] = TypeToBuffer[ARRAY_B]
    BY <2>3
  <2> HIDE DEF ws, start
  <2>6. Len(ws) = 2
    BY <2>5, LenOf
  <2>7. ASSUME ~(r < 2) PROVE Len(each.out) <= 2 + 1 + 2
    <3>1. 2 <= r /\ 1 \in Nat /\ 2 \in Nat
      BY <2>7
    <3> QED BY <1>2, <1>4, <2>4, <2>5, <2>6, <3>1, TwoTake
  <2> HIDE DEF w, each
  <2>8. Len(w.out) <= 5
    <3>1. Len(<<>>) = 0
      BY EmptySeq
    <3>2. r < 2 => w.out = <<>>
      BY <2>2 DEF TooSmall
    <3> QED BY <2>2, <2>7, <3>1, <3>2
  <2> QED BY <2>8 DEF w
<1> QED BY <1>5, MessageTypes, TypeToBufferFits DEF Takes

LEMMA ErrorInnersTake ==
    ASSUME MaxSize >= ErrorSize, NEW status \in Byte
    PROVE  Takes(InnerToBuffer[RespType][Composed(ErrorInners(status))], 5)
<1> DEFINE a == Dense(<<status>>)
           b == Dense(<<>>)
           iv == Composed(ErrorInners(status))
<1>1. a \in InnerOf[BYTE_T] /\ b \in InnerOf[ARRAY_B] /\ iv \in InnerOf[RespType]
  BY ErrorInnersAre
<1>2. ASSUME NEW r \in Nat PROVE Len(InnerToBuffer[BYTE_T][a][r].out) <= 1
  <2> DEFINE w == InnerToBuffer[BYTE_T][a][r]
             block == Block(BYTE_T, a)
  <2>1. w = InnerToBufferOf(InnerToBuffer, BYTE_T)[a][r] /\ r \in Int
    BY MessageTypes, InnerToBufferUnfold
  <2>2. w = BlockToBuffer(BYTE_T, block, r)
    BY <1>1, <2>1, MessageKinds DEF InnerToBufferOf
  <2>3. block = <<status>>
    BY MessageKinds DEF Block, Dense, STRING_TID
  <2> HIDE DEF block
  <2>4. w.out = <<>> \/ w.out = <<>> \o block
    BY <2>2, MessageKinds DEF BlockToBuffer, TooSmall, Written
  <2>5. block \in Seq(Byte) /\ Len(block) = 1 /\ <<>> \in Seq(Byte) /\ Len(<<>>) = 0
    BY <2>3, OneByte, EmptySeq
  <2>6. Len(<<>> \o block) = 0 + 1
    BY <2>5, ConcatProperties
  <2> HIDE DEF w
  <2>7. Len(w.out) <= 1
    <3> DEFINE l == Len(w.out)
    <3>1. l = 0 \/ l = 0 + 1
      BY <2>4, <2>5, <2>6, Zenon
    <3> HIDE DEF l
    <3>2. l <= 1
      BY <3>1
    <3> QED BY <3>2 DEF l
  <2> QED BY <2>7 DEF w
<1>3. Takes(InnerToBuffer[BYTE_T][a], 1)
  BY <1>1, <1>2, MessageTypes, InnerToBufferFits DEF Takes
<1>4. ASSUME NEW r \in Nat PROVE Len(InnerToBuffer[ARRAY_B][b][r].out) <= 4
  <2> DEFINE w == InnerToBuffer[ARRAY_B][b][r]
             block == Block(ARRAY_B, b)
             prefix == ToBytes(Len(block) \div CellSize(ARRAY_B))
  <2>1. w = InnerToBufferOf(InnerToBuffer, ARRAY_B)[b][r] /\ r \in Int
    BY MessageTypes, InnerToBufferUnfold
  <2>2. w = BlockToBuffer(ARRAY_B, block, r)
    BY <1>1, <2>1, MessageKinds DEF InnerToBufferOf
  <2>3. block = <<>>
    BY MessageKinds DEF Block, Dense, STRING_TID, ARRAY_TID
  <2>4. prefix \in Seq(Byte) /\ Len(prefix) = 4
    <3>1. Len(block) = 0 /\ CellSize(ARRAY_B) = 1
      BY <2>3, EmptySeq, MessageKinds
    <3>2. Len(block) \div CellSize(ARRAY_B) = 0
      BY <3>1
    <3>3. prefix = ToBytes(0)
      BY <3>2
    <3> HIDE DEF prefix
    <3> QED BY <3>3, ToBytesIs DEF LengthBytes
  <2>5. w.out = <<>> \/ w.out = prefix \/ w.out = prefix \o block
    BY <2>2, MessageKinds DEF BlockToBuffer, TooSmall, Written
  <2> HIDE DEF w, prefix, block
  <2>6. block \in Seq(Byte) /\ Len(block) = 0 /\ Len(<<>>) = 0
    BY <2>3, EmptySeq
  <2>7. Len(prefix \o block) = 4 + 0
    BY <2>4, <2>6, ConcatProperties
  <2>8. Len(w.out) <= 4
    <3> DEFINE l == Len(w.out)
    <3>1. l = 0 \/ l = 4 \/ l = 4 + 0
      BY <2>4, <2>5, <2>6, <2>7, Zenon
    <3> HIDE DEF l
    <3>2. l <= 4
      BY <3>1
    <3> QED BY <3>2 DEF l
  <2> QED BY <2>8 DEF w
<1>5. Takes(InnerToBuffer[ARRAY_B][b], 4)
  BY <1>1, <1>4, MessageTypes, InnerToBufferFits DEF Takes
<1>6. ASSUME NEW r \in Nat PROVE Len(InnerToBuffer[RespType][iv][r].out) <= 5
  <2> DEFINE w == InnerToBuffer[RespType][iv][r]
             ws == [i \in 1..Len(iv.members) |->
                        InnerToBuffer[MemberType(RespType, i)][iv.members[i]]]
             each == WriteEach(<<>>, ws, r)
  <2>1. w = InnerToBufferOf(InnerToBuffer, RespType)[iv][r] /\ r \in Int
    BY MessageTypes, InnerToBufferUnfold
  <2>2. w = each
    BY <1>1, <2>1, MessageKinds DEF InnerToBufferOf
  <2>3. Len(iv.members) = 2 /\ iv.members[1] = a /\ iv.members[2] = b
    BY DEF Composed, ErrorInners
  <2>4. MemberType(RespType, 1) = BYTE_T /\ MemberType(RespType, 2) = ARRAY_B
    BY MessageKinds DEF MemberType
  <2>5. DOMAIN ws = 1..2 /\ ws = [i \in DOMAIN ws |-> ws[i]]
        /\ ws[1] = InnerToBuffer[BYTE_T][a] /\ ws[2] = InnerToBuffer[ARRAY_B][b]
    BY <2>3, <2>4
  <2> HIDE DEF ws
  <2>6. Len(ws) = 2
    BY <2>5, LenOf
  <2>7. <<>> \in Seq(Byte) /\ Len(<<>>) = 0 /\ 0 <= r /\ 0 \in Nat /\ 1 \in Nat /\ 4 \in Nat
    BY EmptySeq
  <2>8. Len(each.out) <= 0 + 1 + 4
    BY <1>3, <1>5, <2>5, <2>6, <2>7, TwoTake
  <2> HIDE DEF w, each
  <2>9. Len(w.out) <= 5
    BY <2>2, <2>8
  <2> QED BY <2>9 DEF w
<1> QED BY <1>1, <1>6, MessageTypes, InnerToBufferFits DEF Takes

LEMMA ErrorFits ==
    ASSUME MaxSize >= ErrorSize, NEW status \in Byte, NEW room \in Nat
    PROVE  /\ Fits(ValueToBuffer(ErrorValue(status), room), room)
           /\ Len(ValueToBuffer(ErrorValue(status), room).out) <= ErrorSize
<1> DEFINE v == ErrorValue(status)
           ws == <<TypeToBuffer[v.type], InnerToBuffer[v.type][v.iv]>>
<1>1. v.type = RespType /\ v.iv = Composed(ErrorInners(status)) /\ IsValue(v)
  BY ErrorValueIs, ErrorIsValue
<1> HIDE DEF v
<1>2. ValueToBuffer(v, room) = WriteEach(<<>>, ws, room)
  BY DEF ValueToBuffer
<1>3. Len(ws) = 2 /\ ws[1] = TypeToBuffer[v.type] /\ ws[2] = InnerToBuffer[v.type][v.iv]
  OBVIOUS
<1> HIDE DEF ws
<1>4. Takes(ws[1], 5) /\ Takes(ws[2], 5)
  BY <1>1, <1>3, RespTypeTakes, ErrorInnersTake
<1>5. <<>> \in Seq(Byte) /\ Len(<<>>) = 0 /\ 0 <= room /\ 0 \in Nat /\ 5 \in Nat
  BY EmptySeq
<1>6. Len(WriteEach(<<>>, ws, room).out) <= 0 + 5 + 5
  BY <1>3, <1>4, <1>5, TwoTake
<1>7. Len(ValueToBuffer(v, room).out) <= ErrorSize
  BY <1>2, <1>6 DEF ErrorSize
<1>8. Fits(ValueToBuffer(v, room), room)
  BY <1>1, ValueToBufferFits
<1> QED BY <1>7, <1>8 DEF v

-----------------------------------------------------------------------------
(* Requests and responses.                                                  *)
LEMMA OverIs ==
    ASSUME NEW buf \in Seq(Byte), NEW out \in Seq(Byte), Len(out) <= Len(buf)
    PROVE  Over(out, buf) \in Seq(Byte) /\ Len(Over(out, buf)) = Len(buf)
<1> DEFINE rest == After(buf, Len(out))
           n == Len(out)
           l == Len(buf)
<1>1. n \in Nat /\ l \in Nat
  BY LenProperties
<1>2. rest \in Seq(Byte) /\ Len(rest) = l - n
  BY <1>1, AfterIs
<1>3. Over(out, buf) = out \o rest
  BY DEF Over
<1> HIDE DEF rest
<1>4. out \o rest \in Seq(Byte) /\ Len(out \o rest) = n + Len(rest)
  BY <1>2, ConcatProperties
<1> HIDE DEF n, l
<1>5. n + Len(rest) = l
  BY <1>1, <1>2
<1> QED BY <1>3, <1>4, <1>5 DEF l

LEMMA JustOne == \A v : IsValue(v) => IsOption(<<v>>)
<1> SUFFICES ASSUME NEW v, IsValue(v) PROVE IsOption(<<v>>)
  OBVIOUS
<1>1. <<v>> # <<>> /\ <<v>>[1] = v
  OBVIOUS
<1> QED BY <1>1 DEF IsOption

LEMMA BuiltValues ==
    \A s \in Seq(Built) :
        /\ Len(s) \in Nat /\ DOMAIN s = 1..Len(s)
        /\ \A i \in 1..Len(s) : IsValue(s[i]) /\ s[i].blocks = ValueBlocks(s[i])
BY Inputs, LenProperties, ElementOfSeq

LEMMA RequestFits ==
    ASSUME MaxSize >= ErrorSize, NEW name \in Buffers, NEW args \in Seq(Built), NEW room \in Nat
    PROVE  Fits(RequestToBuffer(name, args, room), room)
<1> DEFINE t == TypeToBuffer[ReqType][room]
           n == Len(name)
           a == Len(args)
           nbytes == ToBytes(n)
           abytes == ToBytes(a)
           head == t.out \o nbytes \o name
           start == head \o abytes
           ws == [i \in DOMAIN args |-> WithLength(<<args[i]>>)]
           w == RequestToBuffer(name, args, room)
<1>1. w = IF t.status # SUCCESS THEN t
          ELSE IF room < Len(head) THEN TooSmall(t.out)
          ELSE IF room < Len(head) + LengthBytes THEN TooSmall(head)
          ELSE WriteEach(start, ws, room)
  BY DEF RequestToBuffer
<1>2. Fits(t, room)
  BY MessageTypes, TypeToBufferFits
<1>3. name \in Seq(Byte) /\ n \in Nat /\ a \in Nat /\ DOMAIN args = 1..a
      /\ \A i \in 1..a : IsValue(args[i])
  BY BuiltValues, LenProperties DEF Buffers, BytesUpTo
<1>4. nbytes \in Seq(Byte) /\ Len(nbytes) = 4 /\ abytes \in Seq(Byte) /\ Len(abytes) = 4
  <2> HIDE DEF n, a
  <2> QED BY <1>3, ToBytesIs DEF LengthBytes
<1>5. DOMAIN ws = 1..a /\ ws = [i \in DOMAIN ws |-> ws[i]]
      /\ \A i \in 1..a : ws[i] = WithLength(<<args[i]>>)
  <2> HIDE DEF a
  <2> QED BY <1>3
<1> HIDE DEF w, t, n, a, nbytes, abytes, ws
<1>6. Len(ws) = a
  BY <1>3, <1>5, LenOf
<1>7. \A i \in 1..a : \A r \in Nat : Fits(ws[i][r], r)
  BY <1>3, <1>5, JustOne, WithLengthFits
<1>8. t.out \in Seq(Byte) /\ Len(t.out) \in Nat /\ Len(t.out) <= room
  BY <1>2 DEF Fits
<1>9. head \in Seq(Byte) /\ Len(head) \in Nat
  BY <1>3, <1>4, <1>8, ConcatProperties, LenProperties
<1> HIDE DEF head
<1>10. start \in Seq(Byte) /\ Len(start) = Len(head) + 4
  <2>1. start \in Seq(Byte) /\ Len(start) = Len(head) + Len(abytes)
    BY <1>4, <1>9, ConcatProperties
  <2> HIDE DEF start
  <2> QED BY <1>4, <2>1
<1> HIDE DEF start
<1>11. CASE t.status # SUCCESS
  <2>1. w = t
    BY <1>1, <1>11
  <2> QED BY <1>2, <2>1 DEF w
<1>12. CASE t.status = SUCCESS /\ room < Len(head)
  <2>1. w = TooSmall(t.out)
    BY <1>1, <1>12
  <2>2. Fits(w, room)
    BY <1>8, <2>1 DEF Fits, TooSmall
  <2> QED BY <2>2 DEF w
<1>13. CASE t.status = SUCCESS /\ ~(room < Len(head)) /\ room < Len(head) + LengthBytes
  <2>1. w = TooSmall(head)
    BY <1>1, <1>13
  <2>2. Len(head) <= room
    BY <1>9, <1>13
  <2>3. Fits(w, room)
    BY <1>9, <2>1, <2>2 DEF Fits, TooSmall
  <2> QED BY <2>3 DEF w
<1>14. CASE t.status = SUCCESS /\ ~(room < Len(head)) /\ ~(room < Len(head) + LengthBytes)
  <2>1. w = WriteEach(start, ws, room)
    BY <1>1, <1>14
  <2>2. Len(start) <= room
    BY <1>9, <1>10, <1>14 DEF LengthBytes
  <2>3. Fits(w, room)
    BY <1>3, <1>6, <1>7, <1>10, <2>1, <2>2, WriteEachFits
  <2> QED BY <2>3 DEF w
<1> QED BY <1>11, <1>12, <1>13, <1>14

LEMMA ResponseFits ==
    ASSUME MaxSize >= ErrorSize, NEW ret, IsOption(ret), NEW room \in Nat
    PROVE  Fits(ResponseToBuffer(ret, room), room)
<1> DEFINE t == TypeToBuffer[RespType][room]
           head == Append(t.out, SUCCESS)
           ws == <<WithLength(ret)>>
           w == ResponseToBuffer(ret, room)
<1>1. w = IF t.status # SUCCESS THEN t
          ELSE IF room < Len(head) THEN TooSmall(t.out)
          ELSE WriteEach(head, ws, room)
  BY DEF ResponseToBuffer
<1>2. Fits(t, room)
  BY MessageTypes, TypeToBufferFits
<1>3. Len(ws) = 1 /\ \A i \in 1..1 : ws[i] = WithLength(ret)
  OBVIOUS
<1> HIDE DEF w, t, ws
<1>4. \A i \in 1..1 : \A r \in Nat : Fits(ws[i][r], r)
  BY <1>3, WithLengthFits
<1>5. t.out \in Seq(Byte) /\ Len(t.out) \in Nat /\ Len(t.out) <= room
  BY <1>2 DEF Fits
<1>6. head \in Seq(Byte) /\ Len(head) \in Nat
  BY <1>5, SuccessIsByte, AppendProperties, LenProperties
<1> HIDE DEF head
<1>7. CASE t.status # SUCCESS
  <2>1. w = t
    BY <1>1, <1>7
  <2> QED BY <1>2, <2>1 DEF w
<1>8. CASE t.status = SUCCESS /\ room < Len(head)
  <2>1. w = TooSmall(t.out)
    BY <1>1, <1>8
  <2>2. Fits(w, room)
    BY <1>5, <2>1 DEF Fits, TooSmall
  <2> QED BY <2>2 DEF w
<1>9. CASE t.status = SUCCESS /\ ~(room < Len(head))
  <2>1. w = WriteEach(head, ws, room)
    BY <1>1, <1>9
  <2>2. Len(head) <= room
    BY <1>6, <1>9
  <2>3. Fits(w, room)
    BY <1>3, <1>4, <1>6, <2>1, <2>2, WriteEachFits
  <2> QED BY <2>3 DEF w
<1> QED BY <1>7, <1>8, <1>9

-----------------------------------------------------------------------------
(* Several values.                                                          *)
AreValues(vs) == \E S : (\A v \in S : IsValue(v)) /\ vs \in Seq(S)

LEMMA DeleteAllType == \A vs : AreValues(vs) => DeleteAll(vs) \in Int
<1> SUFFICES ASSUME NEW S, \A v \in S : IsValue(v), NEW vs \in Seq(S) PROVE DeleteAll(vs) \in Int
  BY DEF AreValues
<1> DEFINE n == Len(vs)
           s == [i \in DOMAIN vs |-> ValueBlocks(vs[i])]
<1>1. n \in Nat /\ DOMAIN vs = 1..n /\ \A i \in 1..n : vs[i] \in S
  BY LenProperties, ElementOfSeq
<1>2. \A i \in 1..n : ValueBlocks(vs[i]) \in Int
  BY <1>1, ValueBlocksType
<1>3. DOMAIN s = 1..n /\ s = [i \in DOMAIN s |-> s[i]] /\ \A i \in 1..n : s[i] \in Int
  BY <1>1, <1>2
<1>4. DeleteAll(vs) = Sum(s)
  BY DEF DeleteAll
<1> HIDE DEF n, s
<1>5. Len(s) = n
  BY <1>1, <1>3, LenOf
<1> QED BY <1>1, <1>3, <1>4, <1>5, SumType

LEMMA DeleteNothing == DeleteAll(<<>>) = 0 /\ AreValues(<<>>)
<1> DEFINE s == [i \in DOMAIN <<>> |-> ValueBlocks(<<>>[i])]
<1>1. s = <<>>
  OBVIOUS
<1>2. DeleteAll(<<>>) = Sum(s)
  BY DEF DeleteAll
<1> HIDE DEF s
<1>3. DeleteAll(<<>>) = 0
  BY <1>1, <1>2, SumEmpty
<1>4. (\A v \in {} : IsValue(v)) /\ <<>> \in Seq({})
  BY EmptySeq
<1> QED BY <1>3, <1>4 DEF AreValues

LEMMA DeleteOneMore ==
    ASSUME NEW S, \A v \in S : IsValue(v), NEW vs \in Seq(S), NEW x \in S
    PROVE  /\ DeleteAll(Append(vs, x)) = DeleteAll(vs) + ValueBlocks(x)
           /\ Append(vs, x) \in Seq(S)
<1> DEFINE n == Len(vs)
           F == [i \in Nat |-> [v \in S |-> ValueBlocks(v)]]
           w == Append(vs, x)
           s == [i \in DOMAIN vs |-> ValueBlocks(vs[i])]
           t == [i \in DOMAIN w |-> ValueBlocks(w[i])]
<1>1. n \in Nat /\ DOMAIN vs = 1..n /\ \A i \in 1..n : vs[i] \in S
  BY LenProperties, ElementOfSeq
<1>2. w \in Seq(S) /\ DOMAIN w = 1..(n + 1) /\ \A i \in 1..(n + 1) : w[i] \in S
  <2>1. w \in Seq(S) /\ Len(w) = n + 1
    BY AppendProperties
  <2> HIDE DEF w, n
  <2> QED BY <2>1, LenProperties, ElementOfSeq
<1>3. \A i \in 1..n : ValueBlocks(vs[i]) \in Int
  BY <1>1, ValueBlocksType
<1>4. \A i \in 1..n : F[i][vs[i]] = ValueBlocks(vs[i])
  BY <1>1
<1>5. \A i \in 1..(n + 1) : F[i][w[i]] = ValueBlocks(w[i])
  <2> HIDE DEF w, n
  <2>1. \A i \in 1..(n + 1) : i \in Nat
    BY <1>1
  <2> QED BY <1>2, <2>1
<1>6. F[n + 1][x] = ValueBlocks(x)
  <2>1. n + 1 \in Nat
    BY <1>1
  <2> HIDE DEF n
  <2> QED BY <2>1
<1> HIDE DEF F
<1>7. [i \in DOMAIN vs |-> F[i][vs[i]]] = s
  BY <1>1, <1>4
<1>8. [i \in DOMAIN w |-> F[i][w[i]]] = t
  <2> HIDE DEF w, n
  <2> QED BY <1>2, <1>5
<1>9. \A i \in 1..Len(vs) : F[i][vs[i]] \in Int
  BY <1>3, <1>4
<1>10. Sum([i \in DOMAIN Append(vs, x) |-> F[i][Append(vs, x)[i]]])
        = Sum([i \in DOMAIN vs |-> F[i][vs[i]]]) + F[Len(vs) + 1][x]
  BY <1>9, SumAppend
<1>11. Sum(t) = Sum(s) + ValueBlocks(x)
  BY <1>6, <1>7, <1>8, <1>10
<1> QED BY <1>2, <1>11 DEF DeleteAll

LEMMA DeleteOne == \A v : IsValue(v) => AreValues(<<v>>) /\ DeleteAll(<<v>>) = ValueBlocks(v)
<1> SUFFICES ASSUME NEW v, IsValue(v) PROVE AreValues(<<v>>) /\ DeleteAll(<<v>>) = ValueBlocks(v)
  OBVIOUS
<1>1. <<>> \in Seq({v}) /\ Append(<<>>, v) = <<v>>
  BY EmptySeq
<1>2. DeleteAll(Append(<<>>, v)) = DeleteAll(<<>>) + ValueBlocks(v) /\ Append(<<>>, v) \in Seq({v})
  <2>1. \A x \in {v} : IsValue(x)
    OBVIOUS
  <2>2. v \in {v}
    OBVIOUS
  <2> QED BY <1>1, <2>1, <2>2, DeleteOneMore
<1>3. ValueBlocks(v) \in Int
  BY ValueBlocksType
<1>4. DeleteAll(<<v>>) = ValueBlocks(v)
  BY <1>1, <1>2, <1>3, DeleteNothing
<1>5. <<v>> \in Seq({v})
  OBVIOUS
<1> QED BY <1>4, <1>5 DEF AreValues

(* What the program builds takes the blocks that deleting it frees.         *)
LEMMA BuiltBlocks ==
    \A s \in Seq(Built) : AreValues(s) /\ AllBlocks(s) = DeleteAll(s)
<1> SUFFICES ASSUME NEW s \in Seq(Built) PROVE AreValues(s) /\ AllBlocks(s) = DeleteAll(s)
  OBVIOUS
<1>1. [i \in DOMAIN s |-> s[i].blocks] = [i \in DOMAIN s |-> ValueBlocks(s[i])]
  BY BuiltValues
<1>2. \A v \in Built : IsValue(v)
  BY Inputs
<1> QED BY <1>1, <1>2 DEF AllBlocks, DeleteAll, AreValues

-----------------------------------------------------------------------------
(* The arguments of a request, up to the first that is wrong.               *)
ParseStep(acc, type, r) == IF acc.status # SUCCESS THEN acc ELSE ParseNextArg(acc, type, r)

ParseArgsFrom(f, ep, n) == f = [i \in 0..n |-> IF i = 0 THEN [status |-> SUCCESS, values |-> <<>>, blocks |-> Allocated(Len(ep.args))] ELSE ParseStep(f[i - 1], ep.args[i], ValueFromBuffer(ReqArgs[i].block))]

LEMMA ParseArgsExists ==
    ASSUME NEW ep, NEW N \in Nat
    PROVE  \E f : ParseArgsFrom(f, ep, N)
<1> DEFINE G == {n \in Nat : \E f : ParseArgsFrom(f, ep, n)}
<1>1. 0 \in G
  <2>1. ParseArgsFrom([i \in 0..0 |-> [status |-> SUCCESS, values |-> <<>>, blocks |-> Allocated(Len(ep.args))]], ep, 0)
    BY DEF ParseArgsFrom
  <2> QED BY <2>1
<1>2. ASSUME NEW n \in Nat, n \in G PROVE n + 1 \in G
  <2>1. PICK f : ParseArgsFrom(f, ep, n)
    BY <1>2
  <2> DEFINE g == [i \in 0..(n + 1) |-> IF i = 0 THEN [status |-> SUCCESS, values |-> <<>>, blocks |-> Allocated(Len(ep.args))] ELSE ParseStep(f[i - 1], ep.args[i], ValueFromBuffer(ReqArgs[i].block))]
  <2>2. \A i \in 0..n : i \in 0..(n + 1) /\ g[i] = f[i]
    BY <2>1 DEF ParseArgsFrom
  <2>3. \A i \in 0..(n + 1) : i # 0 => i - 1 \in 0..n
    OBVIOUS
  <2>4. \A i \in 0..(n + 1) : g[i] = IF i = 0 THEN [status |-> SUCCESS, values |-> <<>>, blocks |-> Allocated(Len(ep.args))] ELSE ParseStep(f[i - 1], ep.args[i], ValueFromBuffer(ReqArgs[i].block))
    OBVIOUS
  <2>5. g = [i \in 0..(n + 1) |-> g[i]]
    OBVIOUS
  <2> HIDE DEF g
  <2>6. \A i \in 0..(n + 1) : g[i] = IF i = 0 THEN [status |-> SUCCESS, values |-> <<>>, blocks |-> Allocated(Len(ep.args))] ELSE ParseStep(g[i - 1], ep.args[i], ValueFromBuffer(ReqArgs[i].block))
    BY <2>2, <2>3, <2>4
  <2>7. ParseArgsFrom(g, ep, n + 1)
    BY <2>5, <2>6 DEF ParseArgsFrom
  <2> QED BY <2>7
<1>3. N \in G
  <2> HIDE DEF G
  <2> QED BY <1>1, <1>2, Induction
<1> QED BY <1>3

IsParseArgs(f, ep, n) == f[0] = [status |-> SUCCESS, values |-> <<>>, blocks |-> Allocated(Len(ep.args))] /\ \A i \in 1..n : f[i] = ParseStep(f[i - 1], ep.args[i], ValueFromBuffer(ReqArgs[i].block))

LEMMA ParseArgsIs ==
    ASSUME NEW ep, NEW n \in Nat, Len(ep.args) = n
    PROVE  \E f : IsParseArgs(f, ep, n) /\ ParseArgs(ep) = f[n]
<1> DEFINE F == CHOOSE f : ParseArgsFrom(f, ep, n)
<1>1. ParseArgs(ep) = F[n]
  BY DEF ParseArgs, ParseStep, ParseArgsFrom
<1>2. ParseArgsFrom(F, ep, n)
  BY ParseArgsExists
<1> HIDE DEF F
<1>3. IsParseArgs(F, ep, n)
  BY <1>2 DEF ParseArgsFrom, IsParseArgs
<1> QED BY <1>1, <1>3

Parsed(p, n, S) ==
    /\ p = [status |-> p.status, values |-> p.values, blocks |-> p.blocks]
    /\ p.status \in Byte /\ p.values \in Seq(S)
    /\ p.blocks = Allocated(n) + DeleteAll(p.values)

LEMMA ParseArgsAre ==
    ASSUME NEW ep, NEW n \in Nat, Len(ep.args) = n, \A i \in 1..n : ReqArgs[i].block \in Buffers
    PROVE  /\ ParseArgs(ep).status \in Byte /\ AreValues(ParseArgs(ep).values)
           /\ ParseArgs(ep).blocks = Allocated(n) + DeleteAll(ParseArgs(ep).values)
<1>1. PICK f : IsParseArgs(f, ep, n) /\ ParseArgs(ep) = f[n]
  BY ParseArgsIs
<1> DEFINE r(i) == ValueFromBuffer(ReqArgs[i].block)
           S == {x \in {r(i).v : i \in 1..n} : IsValue(x)}
           G == {i \in Nat : i <= n => Parsed(f[i], n, S)}
<1>2. \A x \in S : IsValue(x)
  OBVIOUS
<1>3. \A i \in 1..n : ValueReads(r(i)) /\ (r(i).status = SUCCESS => r(i).v \in S)
  <2>1. \A i \in 1..n : ValueReads(r(i))
    BY ValueFromBufferReads
  <2> QED BY <2>1 DEF ValueReads
<1>4. \A i \in 1..n : f[i] = ParseStep(f[i - 1], ep.args[i], r(i))
  BY <1>1 DEF IsParseArgs
<1> HIDE DEF S, r
<1>5. 0 \in G
  <2>1. f[0] = [status |-> SUCCESS, values |-> <<>>, blocks |-> Allocated(n)]
    BY <1>1 DEF IsParseArgs
  <2>2. <<>> \in Seq(S)
    BY EmptySeq
  <2>3. Allocated(n) = Allocated(n) + DeleteAll(<<>>)
    BY DeleteNothing, AllocatedType
  <2>4. Parsed(f[0], n, S)
    BY <2>1, <2>2, <2>3, SuccessIsByte DEF Parsed
  <2> QED BY <2>4
<1>6. ASSUME NEW i \in 0..(n - 1), i \in G PROVE i + 1 \in G
  <2> DEFINE acc == f[i]
             x == r(i + 1)
             next == f[i + 1]
  <2>1. i + 1 \in 1..n /\ (i + 1) - 1 = i /\ i <= n /\ i + 1 \in Nat
    OBVIOUS
  <2>2. Parsed(acc, n, S)
    BY <1>6, <2>1
  <2>3. next = ParseStep(acc, ep.args[i + 1], x)
    BY <1>4, <2>1
  <2>4. ValueReads(x) /\ (x.status = SUCCESS => x.v \in S)
    BY <1>3, <2>1
  <2> HIDE DEF acc, x, next
  <2>5. CASE acc.status # SUCCESS
    <3>1. next = acc
      BY <2>3, <2>5 DEF ParseStep
    <3> QED BY <2>1, <2>2, <3>1 DEF next
  <2>6. CASE acc.status = SUCCESS /\ x.status # SUCCESS
    <3>1. next = [acc EXCEPT !.status = x.status, !.blocks = @ + x.blocks]
      BY <2>3, <2>6 DEF ParseStep, ParseNextArg
    <3>2. /\ acc = [status |-> acc.status, values |-> acc.values, blocks |-> acc.blocks]
          /\ acc.values \in Seq(S) /\ acc.blocks = Allocated(n) + DeleteAll(acc.values)
      BY <2>2 DEF Parsed
    <3>3. x.status \in Byte /\ x.blocks = 0
      BY <2>4, <2>6 DEF ValueReads
    <3>4. DeleteAll(acc.values) \in Int /\ Allocated(n) \in Int
      BY <1>2, <3>2, DeleteAllType, AllocatedType DEF AreValues
    <3>5. next = [status |-> x.status, values |-> acc.values, blocks |-> acc.blocks + x.blocks]
      BY <3>1, <3>2
    <3>6. next.status = x.status /\ next.values = acc.values /\ next.blocks = acc.blocks + x.blocks
      BY <3>5
    <3>7. next.blocks = Allocated(n) + DeleteAll(next.values)
      BY <3>2, <3>3, <3>4, <3>6
    <3>8. next = [status |-> next.status, values |-> next.values, blocks |-> next.blocks]
      BY <3>5
    <3>9. Parsed(next, n, S)
      BY <3>2, <3>3, <3>6, <3>7, <3>8 DEF Parsed
    <3> QED BY <2>1, <3>9 DEF next
  <2>7. CASE acc.status = SUCCESS /\ x.status = SUCCESS
    <3> DEFINE s == IF TypeEquals(ep.args[i + 1], x.v.type) THEN SUCCESS ELSE ARGUMENT_MISMATCH
               w == Append(acc.values, x.v)
    <3>1. next = [status |-> s, values |-> w, blocks |-> acc.blocks + x.blocks]
      BY <2>3, <2>7 DEF ParseStep, ParseNextArg
    <3>2. s \in Byte
      BY SuccessIsByte DEF ARGUMENT_MISMATCH, Byte
    <3>3. acc.values \in Seq(S) /\ x.v \in S /\ x.blocks = ValueBlocks(x.v)
      BY <2>2, <2>4, <2>7 DEF Parsed, ValueReads
    <3>4. DeleteAll(w) = DeleteAll(acc.values) + ValueBlocks(x.v) /\ w \in Seq(S)
      BY <1>2, <3>3, DeleteOneMore
    <3>5. DeleteAll(acc.values) \in Int /\ ValueBlocks(x.v) \in Int /\ Allocated(n) \in Int
      BY <1>2, <3>3, DeleteAllType, ValueBlocksType, AllocatedType DEF AreValues
    <3>6. acc.blocks = Allocated(n) + DeleteAll(acc.values)
      BY <2>2 DEF Parsed
    <3> HIDE DEF s, w
    <3>7. next.status = s /\ next.values = w /\ next.blocks = acc.blocks + x.blocks
      BY <3>1
    <3>8. next.blocks = Allocated(n) + DeleteAll(w)
      BY <3>3, <3>4, <3>5, <3>6, <3>7
    <3>9. Parsed(next, n, S)
      <4>1. next = [status |-> next.status, values |-> next.values, blocks |-> next.blocks]
        BY <3>1
      <4> QED BY <3>2, <3>4, <3>7, <3>8, <4>1 DEF Parsed
    <3> QED BY <2>1, <3>9 DEF next
  <2> QED BY <2>5, <2>6, <2>7
<1>7. \A i \in 0..n : i \in G
  <2> HIDE DEF G
  <2> QED BY <1>5, <1>6, Induction
<1>8. Parsed(f[n], n, S)
  BY <1>7
<1> QED BY <1>1, <1>2, <1>8 DEF Parsed, AreValues

-----------------------------------------------------------------------------
(* An endpoint that is found is one that was declared.                      *)
LEMMA LookupIs ==
    ASSUME NEW name, Lookup(name) # None
    PROVE  \E i \in DOMAIN Declared : Lookup(name) = Declared[i]
<1> DEFINE eps == [i \in DOMAIN Declared |-> NewEndpoint(Declared[i])]
           named == {eps[i].name : i \in DOMAIN eps}
           F == [n \in named |-> eps[CHOOSE i \in DOMAIN eps : eps[i].name = n]]
<1>1. Endpoints = F
  <2>1. Endpoints = NewEndpointSet(eps) /\ Endpoints # None
    BY HasEndpoints DEF Endpoints
  <2> HIDE DEF eps
  <2> QED BY <2>1 DEF NewEndpointSet
<1>2. name \in named /\ Lookup(name) = F[name]
  <2>1. DOMAIN F = named
    OBVIOUS
  <2> HIDE DEF F, named
  <2> QED BY <1>1, <2>1 DEF Lookup
<1> DEFINE k == CHOOSE i \in DOMAIN eps : eps[i].name = name
<1>3. k \in DOMAIN eps
  <2>1. \E i \in DOMAIN eps : eps[i].name = name
    BY <1>2
  <2> HIDE DEF eps
  <2> QED BY <2>1
<1>4. Lookup(name) = eps[k]
  BY <1>2
<1>5. k \in DOMAIN Declared /\ eps[k] = NewEndpoint(Declared[k])
  <2> HIDE DEF k
  <2> QED BY <1>3
<1> HIDE DEF k, eps
<1>6. Lookup(name) = Declared[k]
  BY <1>4, <1>5 DEF NewEndpoint
<1> QED BY <1>5, <1>6

LEMMA LookupType ==
    ASSUME NEW name, Lookup(name) # None
    PROVE  /\ Len(Lookup(name).args) \in Nat
           /\ \A ret \in Lookup(name).returns : ret \in Seq(Built) /\ IsOption(ret)
<1>1. PICK i \in DOMAIN Declared : Lookup(name) = Declared[i]
  BY LookupIs
<1>2. Declared[i] \in [name : Buffers, args : Seq(Types), ret : AtMostOne(Types),
                       returns : SUBSET AtMostOne(Built)]
  BY Inputs, LenProperties, ElementOfSeq
<1>3. Lookup(name).args \in Seq(Types) /\ Lookup(name).returns \subseteq AtMostOne(Built)
  BY <1>1, <1>2
<1>4. ASSUME NEW ret \in AtMostOne(Built) PROVE ret \in Seq(Built) /\ IsOption(ret)
  <2>1. ret \in Seq(Built)
    BY <1>4 DEF AtMostOne
  <2>2. Len(ret) \in Nat /\ \A j \in 1..Len(ret) : IsValue(ret[j])
    BY <2>1, BuiltValues
  <2>3. ret # <<>> => 1 \in 1..Len(ret)
    BY <2>1, <2>2, EmptySeq
  <2> QED BY <2>1, <2>2, <2>3 DEF IsOption
<1> QED BY <1>3, <1>4, LenProperties

-----------------------------------------------------------------------------
(* The inductive invariant.  A client that waits owns the return value of   *)
(* its last call, one that calls its arguments; the worker owns the         *)
(* request, and while the endpoint runs the arguments it parsed and the     *)
(* array they are in.                                                       *)
BuffersAre ==
    /\ cbuf \in Seq(Byte) /\ sbuf \in Seq(Byte) /\ InsideBuffers
    /\ msg \in Seq(Byte) /\ Len(msg) <= Len(cbuf)

ClientOwns ==
    /\ result = [status |-> result.status, ret |-> result.ret]
    /\ stage \in {"idle", "over"} => AreValues(result.ret) /\ cheap = DeleteAll(result.ret)
    /\ stage \notin {"idle", "over"} => Args \in Seq(Built) /\ cheap = DeleteAll(Args)

ServerOwns ==
    /\ stage \in {"idle", "request", "response", "closed", "over"} => sheap = 0
    /\ stage \in {"handle", "run"} => IsValue(req)
    /\ stage = "handle" => sheap = ValueBlocks(req)
    /\ stage = "run" =>
          /\ Lookup(Name) # None /\ AreValues(given)
          /\ sheap = ValueBlocks(req) + Allocated(Len(Lookup(Name).args)) + DeleteAll(given)

IInv == BuffersAre /\ ClientOwns /\ ServerOwns

(* The sizes of the buffers.                                                *)
LEMMA BufferSizes ==
    ASSUME BuffersAre
    PROVE  /\ Len(cbuf) \in Nat /\ Len(sbuf) \in Nat /\ Len(msg) \in Nat
           /\ Len(cbuf) <= Len(sbuf) /\ ErrorSize <= Len(cbuf) /\ ErrorSize <= Len(sbuf)
           /\ Len(cbuf) <= MaxSize /\ Len(sbuf) <= MaxSize /\ MaxSize >= ErrorSize
           /\ Len(msg) <= Len(cbuf) /\ Len(msg) <= Len(sbuf) /\ ErrorSize \in Nat
<1> DEFINE c == Len(cbuf)
           s == Len(sbuf)
           m == Len(msg)
<1>1. c \in Nat /\ s \in Nat /\ m \in Nat /\ m <= c
  BY LenProperties DEF BuffersAre
<1>2. c \in ClientSizes /\ \E e \in ServerExtra : s = c + e
  BY DEF BuffersAre, InsideBuffers
<1> HIDE DEF c, s, m
<1>3. PICK e \in ServerExtra : s = c + e
  BY <1>2
<1>4. c \in BufMin..MaxSize /\ BufMin \in Nat /\ BufMin >= ErrorSize /\ e \in Nat /\ c + e <= MaxSize
  BY <1>2, Sizes
<1>5. ErrorSize \in Nat
  BY DEF ErrorSize
<1>6. /\ c <= s /\ ErrorSize <= c /\ ErrorSize <= s /\ c <= MaxSize /\ s <= MaxSize
      /\ MaxSize >= ErrorSize /\ m <= s
  BY <1>1, <1>3, <1>4, <1>5, MaxSizeType
<1> QED BY <1>1, <1>5, <1>6 DEF c, s, m

LEMMA IInvHolds == IInv => InsideBuffers /\ NothingLeaks
BY DEF IInv, BuffersAre, ClientOwns, ServerOwns, NothingLeaks

LEMMA IInvInit == Init => IInv
<1> SUFFICES ASSUME Init PROVE IInv
  OBVIOUS
<1>1. PICK n \in ClientSizes, e \in ServerExtra : cbuf = [i \in 1..n |-> 0] /\ sbuf = [i \in 1..(n + e) |-> 0]
  BY DEF Init
<1>2. n \in Nat /\ e \in Nat /\ n + e \in Nat
  BY Sizes
<1>3. \A k \in Nat : [i \in 1..k |-> 0] \in Seq(Byte) /\ Len([i \in 1..k |-> 0]) = k
  <2> SUFFICES ASSUME NEW k \in Nat PROVE [i \in 1..k |-> 0] \in Seq(Byte) /\ Len([i \in 1..k |-> 0]) = k
    OBVIOUS
  <2> DEFINE f == [i \in 1..k |-> 0]
  <2>1. DOMAIN f = 1..k /\ f = [i \in DOMAIN f |-> f[i]] /\ \A i \in 1..k : f[i] \in Byte
    BY DEF Byte
  <2> HIDE DEF f
  <2>2. Len(f) = k /\ f \in Seq(Byte)
    BY <2>1, LenOf
  <2> QED BY <2>2 DEF f
<1>4. cbuf \in Seq(Byte) /\ sbuf \in Seq(Byte) /\ Len(cbuf) = n /\ Len(sbuf) = n + e
  BY <1>1, <1>2, <1>3
<1>5. InsideBuffers
  BY <1>4 DEF InsideBuffers
<1>6. msg \in Seq(Byte) /\ Len(msg) = 0
  BY EmptySeq DEF Init
<1>7. BuffersAre
  BY <1>2, <1>4, <1>5, <1>6 DEF BuffersAre
<1>8. ClientOwns
  BY DeleteNothing DEF Init, ClientOwns
<1>9. ServerOwns
  BY DEF Init, ServerOwns
<1> QED BY <1>7, <1>8, <1>9 DEF IInv

(* What a buffer is overwritten with keeps the buffers as they are.         *)
LEMMA ClientWrites ==
    ASSUME BuffersAre, NEW out \in Seq(Byte), Len(out) <= Len(cbuf), cbuf' = Over(out, cbuf),
           sbuf' = sbuf, msg' = out \/ msg' = msg \/ msg' = <<>>
    PROVE  BuffersAre'
<1>1. cbuf' \in Seq(Byte) /\ Len(cbuf') = Len(cbuf)
  BY OverIs DEF BuffersAre
<1>2. sbuf' \in Seq(Byte) /\ Len(sbuf') = Len(sbuf)
  BY DEF BuffersAre
<1>3. InsideBuffers'
  BY <1>1, <1>2 DEF InsideBuffers, BuffersAre
<1>4. Len(<<>>) <= Len(cbuf) /\ <<>> \in Seq(Byte)
  BY EmptySeq, BufferSizes
<1>5. msg' \in Seq(Byte) /\ Len(msg') <= Len(cbuf)
  BY <1>4 DEF BuffersAre
<1> QED BY <1>1, <1>2, <1>3, <1>5 DEF BuffersAre

LEMMA ServerWrites ==
    ASSUME BuffersAre, cbuf' = cbuf, sbuf' \in Seq(Byte), Len(sbuf') = Len(sbuf),
           msg' \in Seq(Byte), Len(msg') <= Len(cbuf)
    PROVE  BuffersAre'
<1>1. InsideBuffers'
  BY DEF InsideBuffers, BuffersAre
<1> QED BY <1>1 DEF BuffersAre

LEMMA ErrorResponseIs ==
    ASSUME BuffersAre, NEW status \in Byte, NEW buf \in Seq(Byte), Len(buf) = Len(sbuf),
           ErrorResponse(status, buf)
    PROVE  /\ sbuf' \in Seq(Byte) /\ Len(sbuf') = Len(sbuf)
           /\ msg' \in Seq(Byte) /\ Len(msg') <= Len(cbuf)
           /\ stage' \in {"response", "closed"}
<1> DEFINE w == ValueToBuffer(ErrorValue(status), Len(buf))
<1>1. /\ sbuf' = Over(w.out, buf)
      /\ msg' = IF w.status = SUCCESS THEN w.out ELSE <<>>
      /\ stage' = IF w.status = SUCCESS THEN "response" ELSE "closed"
  BY DEF ErrorResponse, ErrorValue
<1>2. Fits(w, Len(buf)) /\ Len(w.out) <= ErrorSize
  BY BufferSizes, ErrorFits
<1> HIDE DEF w
<1>3. w.out \in Seq(Byte) /\ Len(w.out) <= Len(buf) /\ Len(w.out) \in Nat
  BY <1>2 DEF Fits
<1>4. sbuf' \in Seq(Byte) /\ Len(sbuf') = Len(buf)
  BY <1>1, <1>3, OverIs
<1>5. Len(w.out) <= Len(cbuf) /\ Len(<<>>) <= Len(cbuf) /\ <<>> \in Seq(Byte)
  BY <1>2, <1>3, BufferSizes, EmptySeq
<1>6. msg' \in Seq(Byte) /\ Len(msg') <= Len(cbuf)
  BY <1>1, <1>3, <1>5
<1> QED BY <1>1, <1>4, <1>6

-----------------------------------------------------------------------------
(* The client sends: a request, of which as much is written as there is     *)
(* room for, or a message of any bytes.                                     *)
LEMMA SendRequestKeeps == ASSUME IInv, NEW c \in Calls, SendRequest(c) PROVE IInv'
<1> DEFINE w == IF Len(c.args) > MaxArgs
                THEN [status |-> TOO_MANY_ARGUMENTS, out |-> <<>>]
                ELSE RequestToBuffer(c.name, c.args, Len(cbuf))
           built == cheap - DeleteAll(result.ret) + AllBlocks(c.args)
<1>1. BuffersAre /\ ClientOwns /\ ServerOwns
  BY DEF IInv
<1>2. /\ stage = "idle" /\ call' = c /\ cbuf' = Over(w.out, cbuf)
      /\ IF w.status = SUCCESS
         THEN /\ stage' = "request" /\ msg' = w.out /\ cheap' = built
              /\ result' = [result EXCEPT !.ret = <<>>]
         ELSE /\ cheap' = built - DeleteAll(c.args)
              /\ result' = [status |-> w.status, ret |-> <<>>]
              /\ stage' = stage /\ msg' = msg
      /\ sbuf' = sbuf /\ sheap' = sheap
  BY DEF SendRequest
<1>3. /\ c \in [name : Buffers, args : Seq(Built), keep : BOOLEAN]
      /\ c.name \in Buffers /\ c.args \in Seq(Built) /\ "args" \in DOMAIN c
  BY Inputs
<1>4. w.out \in Seq(Byte) /\ Len(w.out) <= Len(cbuf)
  <2>1. CASE Len(c.args) > MaxArgs
    <3>1. w.out = <<>>
      BY <2>1
    <3> HIDE DEF w
    <3> QED BY <1>1, <3>1, EmptySeq, BufferSizes
  <2>2. CASE ~(Len(c.args) > MaxArgs)
    <3>1. w = RequestToBuffer(c.name, c.args, Len(cbuf))
      BY <2>2
    <3> HIDE DEF w
    <3>2. Fits(w, Len(cbuf))
      BY <1>1, <1>3, <3>1, BufferSizes, RequestFits
    <3> QED BY <3>2 DEF Fits
  <2> QED BY <2>1, <2>2
<1> HIDE DEF w, built
<1>5. BuffersAre'
  <2>1. msg' = w.out \/ msg' = msg \/ msg' = <<>>
    BY <1>2
  <2> QED BY <1>1, <1>2, <1>4, <2>1, ClientWrites
<1>6. AreValues(c.args) /\ AllBlocks(c.args) = DeleteAll(c.args) /\ DeleteAll(c.args) \in Int
  BY <1>3, BuiltBlocks, DeleteAllType
<1>7. cheap = DeleteAll(result.ret) /\ DeleteAll(result.ret) \in Int
  BY <1>1, <1>2, DeleteAllType DEF ClientOwns
<1>8. built = DeleteAll(c.args) /\ built - DeleteAll(c.args) = 0
  BY <1>6, <1>7 DEF built
<1>9. Args' = c.args
  BY <1>2, <1>3 DEF Args
<1>10. ClientOwns'
  <2>1. CASE w.status = SUCCESS
    <3>1. stage' = "request" /\ cheap' = DeleteAll(c.args)
      BY <1>2, <1>8, <2>1
    <3>2. result' = [status |-> result'.status, ret |-> result'.ret]
      BY <1>1, <1>2, <2>1 DEF ClientOwns
    <3> QED BY <1>3, <1>9, <3>1, <3>2 DEF ClientOwns
  <2>2. CASE w.status # SUCCESS
    <3>1. stage' = "idle" /\ cheap' = 0 /\ result' = [status |-> w.status, ret |-> <<>>]
      BY <1>2, <1>8, <2>2
    <3>2. result'.ret = <<>> /\ result' = [status |-> result'.status, ret |-> result'.ret]
      BY <3>1
    <3> QED BY <3>1, <3>2, DeleteNothing DEF ClientOwns
  <2> QED BY <2>1, <2>2
<1>11. ServerOwns'
  BY <1>1, <1>2 DEF ServerOwns
<1> QED BY <1>5, <1>10, <1>11 DEF IInv

LEMMA SendRawKeeps == ASSUME IInv, NEW raw \in RawMessages, SendRaw(raw) PROVE IInv'
<1>1. BuffersAre /\ ClientOwns /\ ServerOwns
  BY DEF IInv
<1>2. /\ stage = "idle" /\ Len(raw.bytes) <= Len(cbuf) /\ call' = raw
      /\ cbuf' = Over(raw.bytes, cbuf) /\ stage' = "request" /\ msg' = raw.bytes
      /\ cheap' = cheap - DeleteAll(result.ret) /\ result' = [result EXCEPT !.ret = <<>>]
      /\ sbuf' = sbuf /\ sheap' = sheap
  BY DEF SendRaw
<1>3. raw \in [bytes : Buffers, status : Nat]
  BY Inputs
<1>4. raw.bytes \in Seq(Byte) /\ "args" \notin DOMAIN raw
  BY <1>3 DEF Buffers, BytesUpTo
<1>5. BuffersAre'
  BY <1>1, <1>2, <1>4, ClientWrites
<1>6. cheap = DeleteAll(result.ret) /\ DeleteAll(result.ret) \in Int
  BY <1>1, <1>2, DeleteAllType DEF ClientOwns
<1>7. cheap' = 0
  BY <1>2, <1>6
<1>8. Args' = <<>> /\ <<>> \in Seq(Built)
  BY <1>2, <1>4, EmptySeq DEF Args
<1>9. result' = [status |-> result'.status, ret |-> result'.ret]
  BY <1>1, <1>2 DEF ClientOwns
<1>10. ClientOwns'
  BY <1>2, <1>7, <1>8, <1>9, DeleteNothing DEF ClientOwns
<1>11. ServerOwns'
  BY <1>1, <1>2 DEF ServerOwns
<1> QED BY <1>5, <1>10, <1>11 DEF IInv

(* What the client owns stays its own while the server works.               *)
LEMMA ClientWaits ==
    ASSUME ClientOwns, stage \notin {"idle", "over"}, stage' \notin {"idle", "over"},
           UNCHANGED <<call, result, cheap>>
    PROVE  ClientOwns'
BY DEF ClientOwns, Args

(* The message is parsed in the buffer of the worker.                       *)
LEMMA PollChannelKeeps == ASSUME IInv, PollChannel PROVE IInv'
<1> DEFINE buf == Over(msg, sbuf)
           r == ValueFromBuffer(Received(buf))
<1>1. BuffersAre /\ ClientOwns /\ ServerOwns
  BY DEF IInv
<1>2. /\ stage = "request" /\ sheap' = sheap + r.blocks
      /\ IF r.status # SUCCESS
         THEN ErrorResponse(r.status, buf) /\ req' = req
         ELSE req' = r.v /\ sbuf' = buf /\ stage' = "handle" /\ msg' = msg
      /\ cbuf' = cbuf /\ UNCHANGED <<call, result, cheap>>
  BY DEF PollChannel
<1>3. buf \in Seq(Byte) /\ Len(buf) = Len(sbuf)
  BY <1>1, BufferSizes, OverIs DEF BuffersAre
<1>4. Received(buf) \in Buffers
  <2> HIDE DEF buf
  <2>1. Len(msg) \in Nat /\ Len(msg) <= Len(buf) /\ Len(msg) <= MaxSize
    <3> DEFINE m == Len(msg)
               s == Len(sbuf)
               c == Len(cbuf)
    <3>1. m \in Nat /\ s \in Nat /\ m <= s /\ s <= MaxSize
      BY <1>1, BufferSizes
    <3>2. Len(buf) = s
      BY <1>3
    <3> HIDE DEF m, s
    <3>3. m \in Nat /\ m <= Len(buf) /\ m <= MaxSize
      BY <3>1, <3>2, MaxSizeType
    <3> QED BY <3>3 DEF m
  <2>2. First(buf, Len(msg)) \in Seq(Byte) /\ Len(First(buf, Len(msg))) = Len(msg)
    BY <1>3, <2>1, FirstIs
  <2> QED BY <2>1, <2>2 DEF Received, Buffers, BytesUpTo
<1>5. ValueReads(r)
  <2> HIDE DEF buf
  <2> QED BY <1>4, ValueFromBufferReads
<1> HIDE DEF buf, r
<1>6. sheap = 0
  BY <1>1, <1>2 DEF ServerOwns
<1>7. CASE r.status # SUCCESS
  <2>1. r.status \in Byte /\ r.blocks = 0
    BY <1>5, <1>7 DEF ValueReads
  <2>2. /\ sbuf' \in Seq(Byte) /\ Len(sbuf') = Len(sbuf)
        /\ msg' \in Seq(Byte) /\ Len(msg') <= Len(cbuf) /\ stage' \in {"response", "closed"}
    BY <1>1, <1>2, <1>3, <1>7, <2>1, ErrorResponseIs
  <2>3. BuffersAre'
    BY <1>1, <1>2, <2>2, ServerWrites
  <2>4. ClientOwns'
    BY <1>1, <1>2, <2>2, ClientWaits
  <2>5. sheap' = 0
    BY <1>2, <1>6, <2>1
  <2>6. ServerOwns'
    BY <2>2, <2>5 DEF ServerOwns
  <2> QED BY <2>3, <2>4, <2>6 DEF IInv
<1>8. CASE r.status = SUCCESS
  <2>1. req' = r.v /\ sbuf' = buf /\ stage' = "handle" /\ msg' = msg
    BY <1>2, <1>8
  <2>2. IsValue(r.v) /\ r.blocks = ValueBlocks(r.v) /\ ValueBlocks(r.v) \in Int
    BY <1>5, <1>8, ValueBlocksType DEF ValueReads
  <2>3. BuffersAre'
    BY <1>1, <1>2, <1>3, <2>1, ServerWrites DEF BuffersAre
  <2>4. ClientOwns'
    BY <1>1, <1>2, <2>1, ClientWaits
  <2>5. sheap' = ValueBlocks(r.v)
    BY <1>2, <1>6, <2>2
  <2>6. IsValue(req') /\ sheap' = ValueBlocks(req')
    BY <2>1, <2>2, <2>5
  <2>7. ServerOwns'
    BY <2>1, <2>6 DEF ServerOwns
  <2> QED BY <2>3, <2>4, <2>7 DEF IInv
<1> QED BY <1>7, <1>8

(* An error is answered, whatever was in the buffer of the worker, when it  *)
(* has deleted all it owned.                                                *)
LEMMA ErrorKeeps ==
    ASSUME IInv, stage \in {"request", "handle", "run"}, NEW status \in Byte,
           NEW buf \in Seq(Byte), Len(buf) = Len(sbuf), ErrorResponse(status, buf), sheap' = 0,
           UNCHANGED <<cbuf, call, result, cheap>>
    PROVE  IInv'
<1>1. BuffersAre /\ ClientOwns
  BY DEF IInv
<1>2. /\ sbuf' \in Seq(Byte) /\ Len(sbuf') = Len(sbuf)
      /\ msg' \in Seq(Byte) /\ Len(msg') <= Len(cbuf) /\ stage' \in {"response", "closed"}
  BY <1>1, ErrorResponseIs
<1>3. BuffersAre'
  BY <1>1, <1>2, ServerWrites
<1>4. ClientOwns'
  BY <1>1, <1>2, ClientWaits
<1>5. ServerOwns'
  BY <1>2 DEF ServerOwns
<1> QED BY <1>3, <1>4, <1>5 DEF IInv

(* The request, and the arguments in it, up to the first that is wrong.     *)
LEMMA HandleRequestKeeps == ASSUME IInv, HandleRequest PROVE IInv'
<1> DEFINE ep == Lookup(Name)
           wrong == IF ~TypeEquals(ReqType, req.type) THEN BAD_REQUEST
                    ELSE IF ep = None THEN UNKNOWN_ENDPOINT
                    ELSE IF Len(ep.args) # Len(ReqArgs) THEN ARGUMENT_MISMATCH
                    ELSE SUCCESS
           p == ParseArgs(ep)
<1>1. BuffersAre /\ ClientOwns /\ ServerOwns
  BY DEF IInv
<1>2. /\ stage = "handle"
      /\ IF wrong # SUCCESS
         THEN ErrorResponse(wrong, sbuf) /\ sheap' = CleanUp(<<>>, sheap, 0)
         ELSE IF p.status # SUCCESS
         THEN /\ ErrorResponse(p.status, sbuf)
              /\ sheap' = CleanUp(p.values, sheap + p.blocks, Len(ep.args))
         ELSE /\ stage' = "run" /\ given' = p.values /\ sheap' = sheap + p.blocks
              /\ req' = req /\ sbuf' = sbuf /\ msg' = msg
      /\ UNCHANGED <<cbuf, call, result, cheap>>
  BY DEF HandleRequest
<1>3. IsValue(req) /\ sheap = ValueBlocks(req) /\ ValueBlocks(req) \in Int
  BY <1>1, <1>2, ValueBlocksType DEF ServerOwns
<1>4. wrong \in Byte
  BY DEF BAD_REQUEST, UNKNOWN_ENDPOINT, ARGUMENT_MISMATCH, SUCCESS, Byte
<1>5. wrong = SUCCESS => req.type = ReqType /\ ep # None /\ Len(ep.args) = Len(ReqArgs)
  BY DEF BAD_REQUEST, UNKNOWN_ENDPOINT, ARGUMENT_MISMATCH, SUCCESS, TypeEquals
<1>6. sbuf \in Seq(Byte)
  BY <1>1 DEF BuffersAre
<1> HIDE DEF wrong, p
<1>7. CASE wrong # SUCCESS
  <2>1. ErrorResponse(wrong, sbuf) /\ sheap' = CleanUp(<<>>, sheap, 0)
    BY <1>2, <1>7
  <2>2. CleanUp(<<>>, sheap, 0) = 0
    BY <1>3, DeleteNothing DEF CleanUp, Allocated
  <2>3. sheap' = 0
    BY <2>1, <2>2
  <2> QED BY <1>2, <1>4, <1>6, <2>1, <2>3, ErrorKeeps
<1>8. CASE wrong = SUCCESS
  <2>1. req.type = ReqType /\ ep # None /\ Len(ep.args) = Len(ReqArgs)
    BY <1>5, <1>8
  <2> DEFINE n == Len(ep.args)
  <2>2. n \in Nat
    BY <2>1, LookupType
  <2>3. \A i \in 1..n : ReqArgs[i].block \in Buffers
    <3>1. req.iv \in InnerOf[ReqType]
      BY <1>3, <2>1 DEF IsValue
    <3>2. \A i \in 1..Len(ReqArgs) : ReqArgs[i].block \in Buffers
      BY <1>1, <3>1, BufferSizes, RequestShape DEF ReqArgs
    <3> QED BY <2>1, <3>2
  <2>4. p.status \in Byte /\ AreValues(p.values) /\ p.blocks = Allocated(n) + DeleteAll(p.values)
    <3> HIDE DEF ep
    <3> QED BY <2>2, <2>3, ParseArgsAre DEF p
  <2>5. Allocated(n) \in Int /\ DeleteAll(p.values) \in Int
    BY <2>2, <2>4, AllocatedType, DeleteAllType
  <2>6. CASE p.status # SUCCESS
    <3>1. ErrorResponse(p.status, sbuf) /\ sheap' = CleanUp(p.values, sheap + p.blocks, n)
      BY <1>2, <1>8, <2>6
    <3>2. CleanUp(p.values, sheap + p.blocks, n)
            = (sheap + p.blocks) - DeleteAll(p.values) - Allocated(n) - ValueBlocks(req)
      BY DEF CleanUp
    <3>3. sheap' = 0
      <4> HIDE DEF n
      <4> QED BY <1>3, <2>4, <2>5, <3>1, <3>2
    <3> QED BY <1>2, <1>6, <2>4, <3>1, <3>3, ErrorKeeps
  <2>7. CASE p.status = SUCCESS
    <3>1. /\ stage' = "run" /\ given' = p.values /\ sheap' = sheap + p.blocks
          /\ req' = req /\ sbuf' = sbuf /\ msg' = msg
      BY <1>2, <1>8, <2>7
    <3>2. BuffersAre'
      BY <1>1, <1>2, <3>1, ServerWrites DEF BuffersAre
    <3>3. ClientOwns'
      BY <1>1, <1>2, <3>1, ClientWaits
    <3>4. sheap' = ValueBlocks(req) + Allocated(n) + DeleteAll(p.values)
      <4> HIDE DEF n
      <4> QED BY <1>3, <2>4, <2>5, <3>1
    <3>5. Lookup(Name)' = ep
      BY <3>1 DEF Lookup, Name
    <3>6. IsValue(req)' /\ ValueBlocks(req)' = ValueBlocks(req)
      BY <1>3, <3>1
    <3>7. AreValues(given)'
      BY <2>4, <3>1 DEF AreValues
    <3>8. ServerOwns'
      <4>1. (Lookup(Name) # None)'
        BY <2>1, <3>5
      <4>2. (sheap = ValueBlocks(req) + Allocated(Len(Lookup(Name).args)) + DeleteAll(given))'
        BY <3>1, <3>4, <3>5, <3>6
      <4> QED BY <3>1, <3>6, <3>7, <4>1, <4>2 DEF ServerOwns
    <3> QED BY <3>2, <3>3, <3>8 DEF IInv
  <2> QED BY <2>6, <2>7
<1> QED BY <1>7, <1>8

(* What the endpoint returned is answered, if it is right and fits.         *)
LEMMA RespondKeeps ==
    ASSUME IInv, NEW ret \in Lookup(Name).returns, Respond(ret)
    PROVE  IInv'
<1> DEFINE ep == Lookup(Name)
           n == Len(ep.args)
           allocated == sheap + AllBlocks(ret) - DeleteAll(ret)
           w == ResponseToBuffer(ret, Len(sbuf))
<1>1. BuffersAre /\ ClientOwns /\ ServerOwns
  BY DEF IInv
<1>2. /\ stage = "run"
      /\ IF ~ReturnMatches(ep, ret)
         THEN stage' = "closed" /\ sbuf' = sbuf /\ msg' = msg
         ELSE IF w.status # SUCCESS THEN ErrorResponse(w.status, Over(w.out, sbuf))
         ELSE IF Len(w.out) > Len(cbuf) THEN ErrorResponse(BUFFER_TOO_SMALL, Over(w.out, sbuf))
         ELSE sbuf' = Over(w.out, sbuf) /\ msg' = w.out /\ stage' = "response"
      /\ sheap' = CleanUp(given, allocated, n)
      /\ UNCHANGED <<cbuf, call, result, cheap>>
  BY DEF Respond
<1>3. /\ IsValue(req) /\ ep # None /\ AreValues(given)
      /\ sheap = ValueBlocks(req) + Allocated(n) + DeleteAll(given)
  BY <1>1, <1>2 DEF ServerOwns
<1>4. n \in Nat /\ ret \in Seq(Built) /\ IsOption(ret)
  BY <1>3, LookupType
<1> HIDE DEF ep
<1>5. AreValues(ret) /\ AllBlocks(ret) = DeleteAll(ret)
  BY <1>4, BuiltBlocks
<1>6. sheap' = 0
  <2>1. /\ ValueBlocks(req) \in Int /\ Allocated(n) \in Int /\ DeleteAll(given) \in Int
        /\ DeleteAll(ret) \in Int
    BY <1>3, <1>4, <1>5, ValueBlocksType, AllocatedType, DeleteAllType
  <2>2. allocated = sheap
    BY <1>3, <1>5, <2>1
  <2>3. CleanUp(given, allocated, n)
          = allocated - DeleteAll(given) - Allocated(n) - ValueBlocks(req)
    BY DEF CleanUp
  <2> HIDE DEF n, allocated
  <2> QED BY <1>2, <1>3, <2>1, <2>2, <2>3
<1>7. Fits(w, Len(sbuf))
  BY <1>1, <1>4, BufferSizes, ResponseFits
<1> HIDE DEF w, allocated, n
<1>8. w.out \in Seq(Byte) /\ Len(w.out) \in Nat /\ Len(w.out) <= Len(sbuf)
      /\ w.status \in {SUCCESS, BUFFER_TOO_SMALL}
  BY <1>7 DEF Fits
<1>9. Over(w.out, sbuf) \in Seq(Byte) /\ Len(Over(w.out, sbuf)) = Len(sbuf)
  BY <1>1, <1>8, OverIs DEF BuffersAre
<1>10. BUFFER_TOO_SMALL \in Byte /\ w.status \in Byte
  BY <1>8 DEF BUFFER_TOO_SMALL, SUCCESS, Byte
<1>11. CASE ~ReturnMatches(ep, ret)
  <2>1. stage' = "closed" /\ sbuf' = sbuf /\ msg' = msg
    BY <1>2, <1>11
  <2>2. BuffersAre'
    BY <1>1, <1>2, <2>1, ServerWrites DEF BuffersAre
  <2>3. ClientOwns'
    BY <1>1, <1>2, <2>1, ClientWaits
  <2>4. ServerOwns'
    BY <1>6, <2>1 DEF ServerOwns
  <2> QED BY <2>2, <2>3, <2>4 DEF IInv
<1>12. CASE ReturnMatches(ep, ret) /\ w.status # SUCCESS
  <2>1. ErrorResponse(w.status, Over(w.out, sbuf))
    BY <1>2, <1>12
  <2> QED BY <1>2, <1>6, <1>9, <1>10, <2>1, ErrorKeeps
<1>13. CASE ReturnMatches(ep, ret) /\ w.status = SUCCESS /\ Len(w.out) > Len(cbuf)
  <2>1. ErrorResponse(BUFFER_TOO_SMALL, Over(w.out, sbuf))
    BY <1>2, <1>13
  <2> QED BY <1>2, <1>6, <1>9, <1>10, <2>1, ErrorKeeps
<1>14. CASE ReturnMatches(ep, ret) /\ w.status = SUCCESS /\ ~(Len(w.out) > Len(cbuf))
  <2>1. sbuf' = Over(w.out, sbuf) /\ msg' = w.out /\ stage' = "response"
    BY <1>2, <1>14
  <2>2. Len(w.out) <= Len(cbuf)
    BY <1>1, <1>8, <1>14, BufferSizes
  <2>3. BuffersAre'
    BY <1>1, <1>2, <1>8, <1>9, <2>1, <2>2, ServerWrites
  <2>4. ClientOwns'
    BY <1>1, <1>2, <2>1, ClientWaits
  <2>5. ServerOwns'
    BY <1>6, <2>1 DEF ServerOwns
  <2> QED BY <2>3, <2>4, <2>5 DEF IInv
<1> QED BY <1>11, <1>12, <1>13, <1>14

(* The response is parsed, and the value in it that the client wanted.      *)
LEMMA ReturnedValueIs ==
    ASSUME MaxSize >= ErrorSize, NEW r, r.v.type = RespType, IsValue(r.v),
           r.blocks = ValueBlocks(r.v)
    PROVE  /\ AreValues(ReturnedValue(r).ret)
           /\ ReturnedValue(r).blocks = DeleteAll(ReturnedValue(r).ret)
<1> DEFINE status == r.v.iv.members[1].block[1]
           bytes == r.v.iv.members[2].block
           left == r.blocks - ValueBlocks(r.v)
           ret == ValueFromBuffer(bytes)
           p == ReturnedValue(r)
<1>1. p = IF status # SUCCESS \/ bytes = <<>> THEN Result(status, <<>>, left)
          ELSE IF ret.status # SUCCESS THEN Result(ret.status, <<>>, left + ret.blocks)
          ELSE IF call.keep THEN Result(SUCCESS, <<ret.v>>, left + ret.blocks)
          ELSE Result(SUCCESS, <<>>, left + ret.blocks - ValueBlocks(ret.v))
  BY DEF ReturnedValue
<1>2. left = 0
  BY ValueBlocksType
<1>3. bytes \in Buffers
  BY ResponseShape DEF IsValue
<1>4. ValueReads(ret)
  <2> HIDE DEF bytes
  <2> QED BY <1>3, ValueFromBufferReads
<1> SUFFICES AreValues(p.ret) /\ p.blocks = DeleteAll(p.ret)
  OBVIOUS
<1> HIDE DEF p, ret, left, bytes, status
<1>5. CASE status # SUCCESS \/ bytes = <<>>
  BY <1>1, <1>2, <1>5, DeleteNothing DEF Result
<1>6. CASE ~(status # SUCCESS \/ bytes = <<>>) /\ ret.status # SUCCESS
  <2>1. p = Result(ret.status, <<>>, left + ret.blocks)
    BY <1>1, <1>6
  <2>2. left + ret.blocks = 0
    BY <1>2, <1>4, <1>6 DEF ValueReads
  <2> QED BY <2>1, <2>2, DeleteNothing DEF Result
<1>7. CASE ~(status # SUCCESS \/ bytes = <<>>) /\ ret.status = SUCCESS
  <2>1. IsValue(ret.v) /\ ret.blocks = ValueBlocks(ret.v) /\ ValueBlocks(ret.v) \in Int
    BY <1>4, <1>7, ValueBlocksType DEF ValueReads
  <2>2. left + ret.blocks = ValueBlocks(ret.v) /\ left + ret.blocks - ValueBlocks(ret.v) = 0
    BY <1>2, <2>1
  <2>3. \/ p = Result(SUCCESS, <<ret.v>>, left + ret.blocks)
        \/ p = Result(SUCCESS, <<>>, left + ret.blocks - ValueBlocks(ret.v))
    BY <1>1, <1>7
  <2>4. \/ p.ret = <<ret.v>> /\ p.blocks = ValueBlocks(ret.v)
        \/ p.ret = <<>> /\ p.blocks = 0
    BY <2>2, <2>3 DEF Result
  <2> QED BY <2>1, <2>4, DeleteOne, DeleteNothing
<1> QED BY <1>5, <1>6, <1>7

LEMMA ParseResponseIs ==
    ASSUME BuffersAre
    PROVE  AreValues(ParseResponse.ret) /\ ParseResponse.blocks = DeleteAll(ParseResponse.ret)
<1> DEFINE buf == Over(msg, cbuf)
           r == ValueFromBuffer(buf)
           p == ParseResponse
<1>1. p = IF r.status # SUCCESS THEN Result(BAD_RESPONSE, <<>>, r.blocks)
          ELSE IF r.v.type # RespType THEN Result(BAD_RESPONSE, <<>>, r.blocks - ValueBlocks(r.v))
          ELSE ReturnedValue(r)
  BY DEF ParseResponse
<1>2. buf \in Seq(Byte) /\ Len(buf) = Len(cbuf)
  BY BufferSizes, OverIs DEF BuffersAre
<1>3. buf \in Buffers
  <2> HIDE DEF buf
  <2> QED BY <1>2, BufferSizes DEF Buffers, BytesUpTo
<1>4. ValueReads(r)
  <2> HIDE DEF buf
  <2> QED BY <1>3, ValueFromBufferReads
<1> SUFFICES AreValues(p.ret) /\ p.blocks = DeleteAll(p.ret)
  OBVIOUS
<1> HIDE DEF p, r
<1>5. CASE r.status # SUCCESS
  <2>1. p = Result(BAD_RESPONSE, <<>>, r.blocks) /\ r.blocks = 0
    BY <1>1, <1>4, <1>5 DEF ValueReads
  <2> QED BY <2>1, DeleteNothing DEF Result
<1>6. CASE r.status = SUCCESS
  <2>1. IsValue(r.v) /\ r.blocks = ValueBlocks(r.v) /\ ValueBlocks(r.v) \in Int
    BY <1>4, <1>6, ValueBlocksType DEF ValueReads
  <2>2. CASE r.v.type # RespType
    <3>1. p = Result(BAD_RESPONSE, <<>>, r.blocks - ValueBlocks(r.v))
      BY <1>1, <1>6, <2>2
    <3>2. r.blocks - ValueBlocks(r.v) = 0
      BY <2>1
    <3> QED BY <3>1, <3>2, DeleteNothing DEF Result
  <2>3. CASE r.v.type = RespType
    <3>1. p = ReturnedValue(r)
      BY <1>1, <1>6, <2>3
    <3> QED BY <2>1, <2>3, <3>1, BufferSizes, ReturnedValueIs
  <2> QED BY <2>2, <2>3
<1> QED BY <1>5, <1>6

LEMMA ReceiveResponseKeeps == ASSUME IInv, ReceiveResponse PROVE IInv'
<1> DEFINE p == ParseResponse
<1>1. BuffersAre /\ ClientOwns /\ ServerOwns
  BY DEF IInv
<1>2. /\ stage = "response" /\ result' = [status |-> p.status, ret |-> p.ret]
      /\ cheap' = cheap + p.blocks - DeleteAll(Args)
      /\ cbuf' = Over(msg, cbuf) /\ stage' = "idle" /\ msg' = <<>>
      /\ sbuf' = sbuf /\ sheap' = sheap
  BY DEF ReceiveResponse
<1>3. AreValues(p.ret) /\ p.blocks = DeleteAll(p.ret)
  BY <1>1, ParseResponseIs
<1>4. Args \in Seq(Built) /\ cheap = DeleteAll(Args)
  BY <1>1, <1>2 DEF ClientOwns
<1> HIDE DEF p
<1>5. DeleteAll(Args) \in Int /\ DeleteAll(p.ret) \in Int
  BY <1>3, <1>4, BuiltBlocks, DeleteAllType
<1>6. cheap' = DeleteAll(p.ret)
  BY <1>2, <1>3, <1>4, <1>5
<1>7. BuffersAre'
  BY <1>1, <1>2, ClientWrites DEF BuffersAre
<1>8. result'.ret = p.ret /\ result' = [status |-> result'.status, ret |-> result'.ret]
  BY <1>2
<1>9. ClientOwns'
  <2>1. AreValues(result.ret)' /\ (cheap = DeleteAll(result.ret))'
    BY <1>3, <1>6, <1>8 DEF AreValues
  <2> QED BY <1>2, <1>8, <2>1 DEF ClientOwns
<1>10. ServerOwns'
  BY <1>1, <1>2 DEF ServerOwns
<1> QED BY <1>7, <1>9, <1>10 DEF IInv

LEMMA DisconnectedKeeps == ASSUME IInv, Disconnected PROVE IInv'
<1>1. BuffersAre /\ ClientOwns /\ ServerOwns
  BY DEF IInv
<1>2. /\ stage = "closed" /\ result' = [status |-> CHANNEL_ERROR, ret |-> <<>>]
      /\ cheap' = cheap - DeleteAll(Args) /\ stage' = "over"
      /\ UNCHANGED <<cbuf, sbuf, msg, sheap>>
  BY DEF Disconnected
<1>3. Args \in Seq(Built) /\ cheap = DeleteAll(Args)
  BY <1>1, <1>2 DEF ClientOwns
<1>4. DeleteAll(Args) \in Int
  BY <1>3, BuiltBlocks, DeleteAllType
<1>5. cheap' = 0
  BY <1>2, <1>3, <1>4
<1>6. BuffersAre'
  BY <1>1, <1>2, ServerWrites DEF BuffersAre
<1>7. result'.ret = <<>> /\ result' = [status |-> result'.status, ret |-> result'.ret]
  BY <1>2
<1>8. ClientOwns'
  BY <1>2, <1>5, <1>7, DeleteNothing DEF ClientOwns
<1>9. ServerOwns'
  BY <1>1, <1>2 DEF ServerOwns
<1> QED BY <1>6, <1>8, <1>9 DEF IInv

LEMMA IInvNext == IInv /\ [Next]_vars => IInv'
<1> SUFFICES ASSUME IInv, [Next]_vars PROVE IInv'
  OBVIOUS
<1>1. ASSUME NEW c \in Calls, SendRequest(c) PROVE IInv'
  BY <1>1, SendRequestKeeps
<1>2. ASSUME NEW raw \in RawMessages, SendRaw(raw) PROVE IInv'
  BY <1>2, SendRawKeeps
<1>3. CASE PollChannel
  BY <1>3, PollChannelKeeps
<1>4. CASE HandleRequest
  BY <1>4, HandleRequestKeeps
<1>5. ASSUME NEW ret \in Lookup(Name).returns, Respond(ret) PROVE IInv'
  BY <1>5, RespondKeeps
<1>6. CASE ReceiveResponse
  BY <1>6, ReceiveResponseKeeps
<1>7. CASE Disconnected
  BY <1>7, DisconnectedKeeps
<1>8. CASE UNCHANGED vars
  BY <1>8 DEF vars, IInv, BuffersAre, InsideBuffers, ClientOwns, ServerOwns, Args, Lookup, Name
<1> QED BY <1>1, <1>2, <1>3, <1>4, <1>5, <1>6, <1>7, <1>8 DEF Next

-----------------------------------------------------------------------------
(* Nothing is written behind the end of a buffer: neither by the client     *)
(* that serialises a request with chrpc_value_to_buffer until it does not   *)
(* fit, nor by the server that writes a response over the request.          *)
THEOREM BuffersHold == Spec => []InsideBuffers
<1>1. Init => IInv
  BY IInvInit
<1>2. IInv /\ [Next]_vars => IInv'
  BY IInvNext
<1>3. IInv => InsideBuffers
  BY IInvHolds
<1> QED BY <1>1, <1>2, <1>3, PTL DEF Spec

(* Whatever part of a message is no type, no value or no argument, what was *)
(* allocated to parse it is freed again: when a call is over the client     *)
(* owns just the value it wanted, and the server nothing.                   *)
THEOREM NoLeaks == Spec => []NothingLeaks
<1>1. Init => IInv
  BY IInvInit
<1>2. IInv /\ [Next]_vars => IInv'
  BY IInvNext
<1>3. IInv => NothingLeaks
  BY IInvHolds
<1> QED BY <1>1, <1>2, <1>3, PTL DEF Spec

-----------------------------------------------------------------------------
(* What is written and what is read.  A writer writes a code if there is    *)
(* room for it, and fails if there is not; a reader that finds the code in  *)
(* front of a buffer reads just that, as one of some values.                *)
Writes(w, e) == \A room \in Nat :
    IF Len(e) <= room THEN w[room] = Written(e) ELSE w[room].status = BUFFER_TOO_SMALL

ReadsBack(reader, e, V) == \A rest \in Seq(Byte) : e \o rest \in Buffers =>
    LET r == reader[e \o rest] IN r.status = SUCCESS /\ r.readden = Len(e) /\ r.v \in V

(* Codes one after the other.                                               *)
JoinedFrom(f, es, n) == f = [i \in 0..n |-> IF i = 0 THEN <<>> ELSE (f[i - 1] \o es[i])]

LEMMA JoinedExists ==
    ASSUME NEW es, NEW N \in Nat
    PROVE  \E f : JoinedFrom(f, es, N)
<1> DEFINE G == {n \in Nat : \E f : JoinedFrom(f, es, n)}
<1>1. 0 \in G
  <2>1. JoinedFrom([i \in 0..0 |-> <<>>], es, 0)
    BY DEF JoinedFrom
  <2> QED BY <2>1
<1>2. ASSUME NEW n \in Nat, n \in G PROVE n + 1 \in G
  <2>1. PICK f : JoinedFrom(f, es, n)
    BY <1>2
  <2> DEFINE g == [i \in 0..(n + 1) |-> IF i = 0 THEN <<>> ELSE (f[i - 1] \o es[i])]
  <2>2. \A i \in 0..n : i \in 0..(n + 1) /\ g[i] = f[i]
    BY <2>1 DEF JoinedFrom
  <2>3. \A i \in 0..(n + 1) : i # 0 => i - 1 \in 0..n
    OBVIOUS
  <2>4. \A i \in 0..(n + 1) : g[i] = IF i = 0 THEN <<>> ELSE (f[i - 1] \o es[i])
    OBVIOUS
  <2>5. g = [i \in 0..(n + 1) |-> g[i]]
    OBVIOUS
  <2> HIDE DEF g
  <2>6. \A i \in 0..(n + 1) : g[i] = IF i = 0 THEN <<>> ELSE (g[i - 1] \o es[i])
    BY <2>2, <2>3, <2>4
  <2>7. JoinedFrom(g, es, n + 1)
    BY <2>5, <2>6 DEF JoinedFrom
  <2> QED BY <2>7
<1>3. N \in G
  <2> HIDE DEF G
  <2> QED BY <1>1, <1>2, Induction
<1> QED BY <1>3

IsJoined(f, es, n) == f[0] = <<>> /\ \A i \in 1..n : f[i] = f[i - 1] \o es[i]

LEMMA JoinedIs ==
    ASSUME NEW es, NEW n \in Nat
    PROVE  \E f : IsJoined(f, es, n)
<1>1. PICK f : JoinedFrom(f, es, n)
  BY JoinedExists
<1>2. IsJoined(f, es, n)
  BY <1>1 DEF JoinedFrom, IsJoined
<1> QED BY <1>2

AreParts(n, es, f) == n \in Nat /\ (\A i \in 1..n : es[i] \in Seq(Byte)) /\ IsJoined(f, es, n)

LEMMA JoinedTypes ==
    ASSUME NEW n \in Nat, NEW es, NEW f, AreParts(n, es, f)
    PROVE  /\ \A i \in 0..n : f[i] \in Seq(Byte) /\ Len(f[i]) \in Nat
           /\ \A i \in 1..n : Len(es[i]) \in Nat /\ Len(f[i]) = Len(f[i - 1]) + Len(es[i])
<1>a. n \in Nat
  BY DEF AreParts
<1>b. \A i \in 1..n : es[i] \in Seq(Byte)
  BY DEF AreParts
<1>c. IsJoined(f, es, n)
  BY DEF AreParts
<1> USE <1>a, <1>b, <1>c
<1> DEFINE G == {i \in Nat : i <= n => f[i] \in Seq(Byte)}
<1>1. 0 \in G
  BY EmptySeq DEF IsJoined
<1>2. ASSUME NEW i \in 0..(n - 1), i \in G PROVE i + 1 \in G
  <2>1. i + 1 \in 1..n /\ (i + 1) - 1 = i /\ i <= n
    OBVIOUS
  <2>2. f[i] \in Seq(Byte) /\ es[i + 1] \in Seq(Byte) /\ f[i + 1] = f[i] \o es[i + 1]
    BY <1>2, <2>1 DEF IsJoined
  <2>3. f[i] \o es[i + 1] \in Seq(Byte)
    BY <2>2, ConcatProperties
  <2>4. f[i + 1] \in Seq(Byte) /\ i + 1 \in Nat
    BY <2>2, <2>3
  <2> QED BY <2>4
<1>3. \A i \in 0..n : i \in G
  <2> HIDE DEF G
  <2> QED BY <1>1, <1>2, Induction
<1>4. \A i \in 0..n : f[i] \in Seq(Byte) /\ Len(f[i]) \in Nat
  BY <1>3, LenProperties
<1>5. ASSUME NEW i \in 1..n PROVE Len(es[i]) \in Nat /\ Len(f[i]) = Len(f[i - 1]) + Len(es[i])
  <2>1. i - 1 \in 0..n
    OBVIOUS
  <2>2. f[i - 1] \in Seq(Byte) /\ es[i] \in Seq(Byte) /\ f[i] = f[i - 1] \o es[i]
    BY <1>4, <2>1 DEF IsJoined
  <2> QED BY <2>2, ConcatProperties, LenProperties
<1> QED BY <1>4, <1>5

(* The length of the codes together.                                        *)
LEMMA JoinedLength ==
    ASSUME NEW n \in Nat, NEW es, NEW f, AreParts(n, es, f),
           NEW s, Len(s) = n, \A i \in 1..n : s[i] = Len(es[i])
    PROVE  Len(f[n]) = Sum(s)
<1>j. /\ \A i \in 0..n : f[i] \in Seq(Byte) /\ Len(f[i]) \in Nat
      /\ \A i \in 1..n : Len(es[i]) \in Nat /\ Len(f[i]) = Len(f[i - 1]) + Len(es[i])
  BY JoinedTypes, ZenonT(60)
<1>a. n \in Nat
  BY DEF AreParts
<1>b. \A i \in 1..n : es[i] \in Seq(Byte)
  BY DEF AreParts
<1>c. IsJoined(f, es, n)
  BY DEF AreParts
<1> USE <1>a, <1>b, <1>c
<1>1. PICK g : IsTotal(g, s, n) /\ Sum(s) = g[n]
  BY SumIs
<1>2. \A i \in 1..n : Len(f[i]) = Len(f[i - 1]) + s[i]
  <2>1. \A i \in 1..n : Len(f[i]) = Len(f[i - 1]) + Len(es[i])
    BY <1>j
  <2> QED BY <2>1
<1> DEFINE G == {i \in Nat : i <= n => Len(f[i]) = g[i]}
<1>3. 0 \in G
  BY <1>1, EmptySeq DEF IsJoined, IsTotal
<1>4. ASSUME NEW i \in 0..(n - 1), i \in G PROVE i + 1 \in G
  <2>1. i + 1 \in 1..n /\ (i + 1) - 1 = i /\ i <= n
    OBVIOUS
  <2>2. Len(f[i]) = g[i] /\ Len(f[i + 1]) = Len(f[i]) + s[i + 1] /\ g[i + 1] = g[i] + s[i + 1]
    BY <1>1, <1>2, <1>4, <2>1 DEF IsTotal
  <2> QED BY <2>2
<1>5. \A i \in 0..n : i \in G
  <2> HIDE DEF G
  <2> QED BY <1>3, <1>4, Induction
<1> QED BY <1>1, <1>5

(* Items that are not empty: they are no more than their bytes.             *)
LEMMA JoinedCount ==
    ASSUME NEW n \in Nat, NEW es, NEW f, AreParts(n, es, f), \A i \in 1..n : Len(es[i]) >= 1
    PROVE  n <= Len(f[n])
<1>j. /\ \A i \in 0..n : f[i] \in Seq(Byte) /\ Len(f[i]) \in Nat
      /\ \A i \in 1..n : Len(es[i]) \in Nat /\ Len(f[i]) = Len(f[i - 1]) + Len(es[i])
  BY JoinedTypes
<1>a. n \in Nat
  BY DEF AreParts
<1>b. \A i \in 1..n : es[i] \in Seq(Byte)
  BY DEF AreParts
<1>c. IsJoined(f, es, n)
  BY DEF AreParts
<1> USE <1>a, <1>b, <1>c
<1>1. /\ \A i \in 0..n : Len(f[i]) \in Nat
      /\ \A i \in 1..n : Len(es[i]) \in Nat /\ Len(f[i]) = Len(f[i - 1]) + Len(es[i])
  BY <1>j
<1> DEFINE G == {i \in Nat : i <= n => i <= Len(f[i])}
<1>2. 0 \in G
  BY <1>1
<1>3. ASSUME NEW i \in 0..(n - 1), i \in G PROVE i + 1 \in G
  <2>1. i + 1 \in 1..n /\ (i + 1) - 1 = i /\ i <= n /\ i \in 0..n
    OBVIOUS
  <2>2. i <= Len(f[i]) /\ Len(f[i + 1]) = Len(f[i]) + Len(es[i + 1]) /\ Len(es[i + 1]) >= 1
        /\ Len(f[i]) \in Nat /\ Len(es[i + 1]) \in Nat
    BY <1>1, <1>3, <2>1
  <2> DEFINE a == Len(f[i])
             b == Len(es[i + 1])
             c == Len(f[i + 1])
  <2>3. i <= a /\ c = a + b /\ b >= 1 /\ a \in Nat /\ b \in Nat
    BY <2>2
  <2> HIDE DEF a, b, c
  <2>4. i + 1 <= c
    BY <2>3
  <2> QED BY <2>4 DEF c
<1>4. \A i \in 0..n : i \in G
  <2> HIDE DEF G
  <2> QED BY <1>2, <1>3, Induction
<1> QED BY <1>4

LEMMA ConcatThree == \A a, b, c \in Seq(Byte) : (a \o b) \o c = a \o (b \o c)
<1> SUFFICES ASSUME NEW a \in Seq(Byte), NEW b \in Seq(Byte), NEW c \in Seq(Byte)
             PROVE (a \o b) \o c = a \o (b \o c)
  OBVIOUS
<1> QED BY ConcatAssociative

(* WriteEach writes the codes of its writers behind the start.              *)
WritesEach(n, es, f, ws) ==
    /\ AreParts(n, es, f)
    /\ Len(ws) = n /\ \A i \in 1..n : Writes(ws[i], es[i])

LEMMA WriteEachWrites ==
    ASSUME NEW n \in Nat, NEW es, NEW f, NEW ws, WritesEach(n, es, f, ws),
           NEW start \in Seq(Byte), NEW room \in Nat, Len(start) <= room
    PROVE  IF Len(start \o f[n]) <= room THEN WriteEach(start, ws, room) = Written(start \o f[n])
           ELSE WriteEach(start, ws, room).status = BUFFER_TOO_SMALL
<1>p. AreParts(n, es, f)
  BY DEF WritesEach
<1>j. /\ \A i \in 0..n : f[i] \in Seq(Byte) /\ Len(f[i]) \in Nat
      /\ \A i \in 1..n : Len(es[i]) \in Nat /\ Len(f[i]) = Len(f[i - 1]) + Len(es[i])
  BY <1>p, JoinedTypes, ZenonT(60)
<1>a. n \in Nat
  BY <1>p DEF AreParts
<1>b. \A i \in 1..n : es[i] \in Seq(Byte)
  BY <1>p DEF AreParts
<1>c. IsJoined(f, es, n)
  BY <1>p DEF AreParts
<1>d. Len(ws) = n
  BY DEF WritesEach
<1>e. \A i \in 1..n : Writes(ws[i], es[i])
  BY DEF WritesEach
<1> USE <1>p, <1>a, <1>b, <1>c, <1>d, <1>e
<1>1. PICK g : IsWriteEach(g, start, ws, room, n) /\ WriteEach(start, ws, room) = g[n]
  BY WriteEachIs
<1>2. /\ \A i \in 0..n : f[i] \in Seq(Byte) /\ Len(f[i]) \in Nat
      /\ \A i \in 1..n : Len(es[i]) \in Nat /\ Len(f[i]) = Len(f[i - 1]) + Len(es[i])
  BY <1>j
<1>3. Len(start) \in Nat /\ \A i \in 0..n : start \o f[i] \in Seq(Byte)
                                            /\ Len(start \o f[i]) = Len(start) + Len(f[i])
  BY <1>2, ConcatProperties, LenProperties
<1> DEFINE l == Len(start)
           Done(i) == IF l + Len(f[i]) <= room THEN g[i] = Written(start \o f[i])
                      ELSE g[i].status = BUFFER_TOO_SMALL
           G == {i \in Nat : i <= n => Done(i)}
<1>4. 0 \in G
  <2>1. f[0] = <<>> /\ g[0] = Written(start) /\ start \o <<>> = start /\ Len(<<>>) = 0
    BY <1>1, ConcatEmptySeq, EmptySeq DEF IsWriteEach, IsJoined
  <2>2. l + Len(f[0]) <= room
    BY <1>3, <2>1
  <2> QED BY <2>1, <2>2
<1>5. ASSUME NEW i \in 0..(n - 1), i \in G PROVE i + 1 \in G
  <2> DEFINE k == i + 1
             e == es[k]
             a == Len(f[i])
             b == Len(e)
             acc == g[i]
  <2>1. k \in 1..n /\ k - 1 = i /\ i <= n /\ i \in 0..n /\ k \in 0..n /\ k \in Nat
    OBVIOUS
  <2>2. Done(i)
    BY <1>5, <2>1
  <2>3. g[k] = WriteStep(acc, ws[k], room)
    <3>1. g[k] = WriteStep(g[k - 1], ws[k], room)
      <4> HIDE DEF k
      <4> QED BY <1>1, <2>1 DEF IsWriteEach
    <3> QED BY <2>1, <3>1
  <2>4. f[k] = f[i] \o e /\ Len(f[k]) = a + b /\ a \in Nat /\ b \in Nat /\ e \in Seq(Byte)
    <3>1. f[k] = f[k - 1] \o es[k] /\ Len(f[k]) = Len(f[k - 1]) + Len(es[k])
      <4> HIDE DEF k
      <4> QED BY <1>2, <2>1 DEF IsJoined
    <3>2. Len(f[i]) \in Nat /\ Len(es[k]) \in Nat /\ es[k] \in Seq(Byte)
      <4> HIDE DEF k
      <4> QED BY <1>2, <2>1
    <3> QED BY <2>1, <3>1, <3>2
  <2>5. Writes(ws[k], e)
    <3> HIDE DEF k
    <3> QED BY <2>1
  <2>6. l \in Nat /\ room \in Nat /\ Len(start \o f[i]) = l + a
    BY <1>3, <2>1
  <2>7. start \o f[k] = (start \o f[i]) \o e
    <3>1. f[i] \in Seq(Byte) /\ start \in Seq(Byte) /\ e \in Seq(Byte)
      BY <1>2, <2>1, <2>4
    <3>2. (start \o f[i]) \o e = start \o (f[i] \o e)
      BY <3>1, ConcatThree
    <3> QED BY <2>4, <3>2
  <2> HIDE DEF k, e, a, b, acc, l
  <2>8. CASE ~(l + a <= room)
    <3>1. acc.status = BUFFER_TOO_SMALL
      BY <2>2, <2>8 DEF a, acc
    <3>2. g[k].status = BUFFER_TOO_SMALL
      BY <2>3, <3>1 DEF WriteStep, BUFFER_TOO_SMALL, SUCCESS
    <3>3. ~(l + Len(f[k]) <= room)
      BY <2>4, <2>6, <2>8
    <3> QED BY <2>1, <3>2, <3>3 DEF k
  <2>9. CASE l + a <= room
    <3> DEFINE r == room - (l + a)
    <3>1. r \in Nat /\ (b <= r <=> l + (a + b) <= room)
      BY <2>4, <2>6, <2>9
    <3>2. acc = Written(start \o f[i])
      BY <2>2, <2>9 DEF a, acc
    <3>3. acc.status = SUCCESS /\ acc.out = start \o f[i]
      BY <3>2 DEF Written
    <3>4. g[k] = WriteNext(acc, ws[k][r])
      BY <2>3, <2>6, <3>3 DEF WriteStep
    <3>5. IF b <= r THEN ws[k][r] = Written(e) ELSE ws[k][r].status = BUFFER_TOO_SMALL
      <4> HIDE DEF r
      <4> QED BY <2>5, <3>1 DEF Writes, b
    <3> HIDE DEF r
    <3>6. CASE b <= r
      <4>0. ws[k][r].status = SUCCESS /\ ws[k][r].out = e
        BY <3>5, <3>6 DEF Written
      <4>1. g[k] = Written(start \o f[k])
        <5>1. g[k] = [status |-> SUCCESS, out |-> (start \o f[i]) \o e]
          BY <3>3, <3>4, <4>0 DEF WriteNext
        <5> QED BY <2>7, <5>1 DEF Written
      <4>2. l + Len(f[k]) <= room
        BY <2>4, <3>1, <3>6
      <4> QED BY <2>1, <4>1, <4>2 DEF k
    <3>7. CASE ~(b <= r)
      <4>1. g[k].status = BUFFER_TOO_SMALL
        BY <3>4, <3>5, <3>7 DEF WriteNext
      <4>2. ~(l + Len(f[k]) <= room)
        BY <2>4, <3>1, <3>7
      <4> QED BY <2>1, <4>1, <4>2 DEF k
    <3> QED BY <3>6, <3>7
  <2> QED BY <2>8, <2>9
<1>6. \A i \in 0..n : i \in G
  <2> HIDE DEF G
  <2> QED BY <1>4, <1>5, Induction
<1>7. Done(n)
  BY <1>6
<1> QED BY <1>1, <1>3, <1>7

LEMMA AfterConcat ==
    ASSUME NEW a \in Seq(Byte), NEW b \in Seq(Byte)
    PROVE  After(a \o b, Len(a)) = b
<1> DEFINE c == a \o b
           m == Len(a)
           l == Len(b)
           d == After(c, m)
<1>1. m \in Nat /\ l \in Nat /\ c \in Seq(Byte) /\ Len(c) = m + l
      /\ \A i \in 1..(m + l) : c[i] = IF i <= m THEN a[i] ELSE b[i - m]
  BY ConcatProperties, LenProperties
<1> HIDE DEF c, m
<1>2. d = SubSeq(c, m + 1, m + l)
  BY <1>1 DEF After
<1>3. \A i \in (m + 1)..(m + l) : c[i] \in Byte
  BY <1>1, ElementOfSeq
<1>4. /\ d \in Seq(Byte) /\ Len(d) = IF m + 1 <= m + l THEN (m + l) - (m + 1) + 1 ELSE 0
      /\ \A i \in 1..((m + l) - (m + 1) + 1) : d[i] = c[(m + 1) + i - 1]
  <2> HIDE DEF d, l
  <2>1. m + 1 \in Int /\ m + l \in Int
    BY <1>1
  <2> QED BY <1>2, <1>3, <2>1, SubSeqProperties
<1> HIDE DEF d
<1>5. Len(d) = Len(b)
  <2> HIDE DEF l
  <2>1. Len(d) = l
    BY <1>1, <1>4
  <2> QED BY <2>1 DEF l
<1>6. ASSUME NEW i \in 1..Len(b) PROVE d[i] = b[i]
  <2>1. i \in 1..l
    BY DEF l
  <2> HIDE DEF l
  <2>2. i \in 1..((m + l) - (m + 1) + 1) /\ (m + 1) + i - 1 = m + i /\ m + i \in 1..(m + l)
        /\ ~(m + i <= m) /\ (m + i) - m = i
    BY <1>1, <2>1
  <2> QED BY <1>1, <1>4, <2>2
<1> QED BY <1>4, <1>5, <1>6, SeqEqual DEF c, m, d

(* A suffix of a buffer is one.                                             *)
LEMMA SuffixIsBuffer ==
    ASSUME NEW a \in Seq(Byte), NEW b \in Seq(Byte), a \o b \in Buffers
    PROVE  b \in Buffers /\ a \in Buffers /\ Len(a \o b) = Len(a) + Len(b) /\ Len(a) + Len(b) <= MaxSize
<1>1. Len(a) \in Nat /\ Len(b) \in Nat /\ Len(a \o b) = Len(a) + Len(b)
  BY ConcatProperties, LenProperties
<1>2. Len(a \o b) <= MaxSize
  BY DEF Buffers, BytesUpTo
<1>3. Len(b) <= MaxSize /\ Len(a) <= MaxSize
  BY <1>1, <1>2, MaxSizeType
<1> QED BY <1>1, <1>2, <1>3 DEF Buffers, BytesUpTo

(* ReadEach reads what is written one after the other.                      *)
AllBack(acc, k, n, V, size) ==
    /\ acc.status = SUCCESS /\ acc.readden = size
    /\ acc.v \in Seq(UNION {V[i] : i \in 1..n}) /\ Len(acc.v) = k
    /\ \A i \in 1..k : acc.v[i] \in V[i]

ReadsEachBack(n, es, f, readers, V) ==
    /\ AreParts(n, es, f)
    /\ Len(readers) = n /\ \A i \in 1..n : ReadsBack(readers[i], es[i], V[i])

LEMMA ReadEachBack ==
    ASSUME NEW n \in Nat, NEW es, NEW f, NEW readers, NEW V, ReadsEachBack(n, es, f, readers, V), NEW frees,
           NEW rest \in Seq(Byte), f[n] \o rest \in Buffers
    PROVE  AllBack(ReadEach(readers, frees, f[n] \o rest), n, n, V, Len(f[n]))
<1>p. AreParts(n, es, f)
  BY DEF ReadsEachBack
<1>j. /\ \A i \in 0..n : f[i] \in Seq(Byte) /\ Len(f[i]) \in Nat
      /\ \A i \in 1..n : Len(es[i]) \in Nat /\ Len(f[i]) = Len(f[i - 1]) + Len(es[i])
  BY <1>p, JoinedTypes
<1>a. n \in Nat
  BY <1>p DEF AreParts
<1>b. \A i \in 1..n : es[i] \in Seq(Byte)
  BY <1>p DEF AreParts
<1>c. IsJoined(f, es, n)
  BY <1>p DEF AreParts
<1>d. Len(readers) = n
  BY DEF ReadsEachBack
<1>e. \A i \in 1..n : ReadsBack(readers[i], es[i], V[i])
  BY DEF ReadsEachBack
<1> USE <1>p, <1>a, <1>b, <1>c, <1>d, <1>e
<1> DEFINE bytes == f[n] \o rest
           S == UNION {V[i] : i \in 1..n}
<1>1. PICK g : IsReadEach(g, readers, frees, bytes, n, n) /\ ReadEach(readers, frees, bytes) = g[n]
  <2> HIDE DEF bytes
  <2> QED BY ReadEachIs
<1>2. /\ \A i \in 0..n : f[i] \in Seq(Byte) /\ Len(f[i]) \in Nat
      /\ \A i \in 1..n : Len(es[i]) \in Nat /\ Len(f[i]) = Len(f[i - 1]) + Len(es[i])
  BY <1>j
<1> DEFINE Done(i) == \A tail \in Seq(Byte) :
               bytes = f[i] \o tail => AllBack(g[i], i, n, V, Len(f[i]))
           G == {i \in Nat : i <= n => Done(i)}
<1>3. 0 \in G
  <2>1. g[0] = Read(<<>>, 0, Allocated(n)) /\ f[0] = <<>> /\ Len(<<>>) = 0 /\ <<>> \in Seq(S)
    BY <1>1, EmptySeq DEF IsReadEach, IsJoined
  <2>2. g[0].status = SUCCESS /\ g[0].readden = 0 /\ g[0].v = <<>>
    BY <2>1 DEF Read
  <2>3. AllBack(g[0], 0, n, V, Len(f[0]))
    <3>1. Len(g[0].v) = 0 /\ g[0].v \in Seq(S)
      BY <2>1, <2>2
    <3>2. Len(f[0]) = 0
      BY <2>1
    <3> HIDE DEF S
    <3>3. \A i \in 1..0 : g[0].v[i] \in V[i]
      OBVIOUS
    <3> QED BY <2>2, <3>1, <3>2, <3>3 DEF AllBack, S
  <2> QED BY <2>3
<1>4. ASSUME NEW i \in 0..(n - 1), i \in G PROVE i + 1 \in G
  <2> DEFINE k == i + 1
             e == es[k]
             acc == g[i]
  <2>1. k \in 1..n /\ k - 1 = i /\ i <= n /\ i \in 0..n /\ k \in 0..n /\ k \in Nat
    OBVIOUS
  <2>2. Done(i)
    BY <1>4, <2>1
  <2>3. g[k] = ReadStep(acc, readers[k], frees, bytes)
    <3>1. g[k] = ReadStep(g[k - 1], readers[k], frees, bytes)
      <4> HIDE DEF k
      <4> QED BY <1>1, <2>1 DEF IsReadEach
    <3> QED BY <2>1, <3>1
  <2>4. f[k] = f[i] \o e /\ Len(f[k]) = Len(f[i]) + Len(e) /\ e \in Seq(Byte) /\ f[i] \in Seq(Byte)
    <3>1. f[k] = f[k - 1] \o es[k] /\ Len(f[k]) = Len(f[k - 1]) + Len(es[k])
      <4> HIDE DEF k
      <4> QED BY <1>2, <2>1 DEF IsJoined
    <3>2. es[k] \in Seq(Byte) /\ f[i] \in Seq(Byte)
      <4> HIDE DEF k
      <4> QED BY <1>2, <2>1
    <3> QED BY <2>1, <3>1, <3>2
  <2>5. ReadsBack(readers[k], e, V[k])
    <3> HIDE DEF k
    <3> QED BY <2>1
  <2> HIDE DEF k, e, acc
  <2>6. ASSUME NEW tail \in Seq(Byte), bytes = f[k] \o tail PROVE AllBack(g[k], k, n, V, Len(f[k]))
    <3> DEFINE left == e \o tail
               r == readers[k][left]
    <3>1. left \in Seq(Byte) /\ bytes = f[i] \o left
      <4>1. left \in Seq(Byte)
        BY <2>4, ConcatProperties
      <4>2. bytes = (f[i] \o e) \o tail
        BY <2>4, <2>6
      <4> HIDE DEF bytes
      <4> QED BY <2>4, <4>1, <4>2, ConcatThree
    <3>2. AllBack(acc, i, n, V, Len(f[i]))
      <4> HIDE DEF left
      <4> QED BY <2>2, <3>1 DEF acc
    <3>3. left \in Buffers
      <4> HIDE DEF left
      <4>1. f[i] \o left \in Buffers
        BY <3>1
      <4> QED BY <2>4, <3>1, <4>1, SuffixIsBuffer
    <3>4. r.status = SUCCESS /\ r.readden = Len(e) /\ r.v \in V[k]
      BY <2>5, <3>3 DEF ReadsBack
    <3>5. After(bytes, acc.readden) = left
      <4>1. acc.readden = Len(f[i])
        BY <3>2 DEF AllBack
      <4> HIDE DEF left, bytes
      <4> QED BY <2>4, <3>1, <4>1, AfterConcat
    <3>6. g[k] = ReadNext(acc, r, frees)
      BY <2>3, <3>2, <3>5 DEF ReadStep, AllBack
    <3> HIDE DEF left, r
    <3> DEFINE x == r.v
               v == acc.v
               w == Append(v, x)
    <3>7. /\ g[k].status = SUCCESS /\ g[k].readden = acc.readden + r.readden /\ g[k].v = w
      BY <3>4, <3>6 DEF ReadNext, Read
    <3>8. v \in Seq(S) /\ Len(v) = i /\ x \in S /\ x \in V[k] /\ \A j \in 1..i : v[j] \in V[j]
      BY <2>1, <3>2, <3>4 DEF AllBack
    <3> HIDE DEF x, v, S
    <3>9. w \in Seq(S) /\ Len(w) = i + 1 /\ w[i + 1] = x /\ \A j \in 1..i : w[j] = v[j]
      BY <3>8, AppendProperties
    <3> HIDE DEF w
    <3>10. \A j \in 1..k : w[j] \in V[j]
      <4>1. \A j \in 1..k : j = k \/ j \in 1..i
        BY <2>1
      <4> QED BY <2>1, <3>8, <3>9, <4>1 DEF k
    <3>11. g[k].readden = Len(f[k])
      BY <2>4, <3>2, <3>4, <3>7 DEF AllBack
    <3>12. Len(w) = k
      BY <3>9 DEF k
    <3> QED BY <3>7, <3>9, <3>10, <3>11, <3>12 DEF AllBack, S
  <2> QED BY <2>1, <2>6 DEF k
<1>5. \A i \in 0..n : i \in G
  <2> HIDE DEF G
  <2> QED BY <1>3, <1>4, Induction
<1>6. AllBack(g[n], n, n, V, Len(f[n]))
  <2>1. n \in G
    <3> HIDE DEF G
    <3> QED BY <1>5
  <2>2. Done(n)
    BY <2>1
  <2> QED BY <2>2
<1> QED BY <1>1, <1>6

-----------------------------------------------------------------------------
(* The sizes that serial_type.h gives.                                      *)
TypeSizeOf(f, t) ==
    IF IsPrimitive(t) THEN 1
    ELSE IF t.tid = ARRAY_TID THEN 1 + f[t.cell]
    ELSE 2 + Sum([i \in DOMAIN t.fields |-> f[t.fields[i]]])

LEMMA TypeSizeAgree ==
    ASSUME NEW t \in Types, NEW f, NEW g, \A m \in Members(t) : f[m] = g[m]
    PROVE  TypeSizeOf(f, t) = TypeSizeOf(g, t)
<1>1. CASE IsPrimitive(t)
  BY <1>1 DEF TypeSizeOf
<1>2. CASE ~IsPrimitive(t) /\ t.tid = ARRAY_TID
  BY <1>2, CellAgrees DEF TypeSizeOf
<1>3. CASE ~IsPrimitive(t) /\ t.tid = STRUCT_TID /\ t.tid # ARRAY_TID
  BY <1>3, FieldsAgree DEF TypeSizeOf
<1> QED BY <1>1, <1>2, <1>3, TypeCases

LEMMA TypeSizeExists ==
    \A d \in 0..(MaxSize + 1) : \E f : f = [t \in Below(d) |-> TypeSizeOf(f, t)]
<1> DEFINE Solves(f, d) == f = [t \in Below(d) |-> TypeSizeOf(f, t)]
           G == {d \in Nat : d <= MaxSize + 1 => \E f : Solves(f, d)}
<1>1. 0 \in G
  <2>1. Solves([t \in {} |-> 0], 0)
    BY DEF Below
  <2> HIDE DEF Solves
  <2> QED BY <2>1
<1>2. ASSUME NEW d \in 0..MaxSize, d \in G PROVE d + 1 \in G
  <2>1. d <= MaxSize + 1 /\ d + 1 \in 0..(MaxSize + 1) /\ d + 1 \in Nat
    BY MaxSizeType
  <2>2. PICK f : Solves(f, d)
    BY <1>2, <2>1
  <2>3. \A t \in Below(d) : f[t] = TypeSizeOf(f, t)
    BY <2>2
  <2> DEFINE g == [t \in Below(d + 1) |-> TypeSizeOf(f, t)]
  <2>4. \A t \in Below(d + 1) : g[t] = TypeSizeOf(f, t)
    OBVIOUS
  <2>5. g = [t \in Below(d + 1) |-> g[t]]
    OBVIOUS
  <2> HIDE DEF g
  <2>6. \A t \in Below(d) : g[t] = f[t]
    BY <2>3, <2>4, BelowGrows
  <2>7. ASSUME NEW t \in Below(d + 1) PROVE g[t] = TypeSizeOf(g, t)
    <3>1. t \in Types
      BY <2>1, BelowAll
    <3>2. \A m \in Members(t) : f[m] = g[m]
      BY <2>6, MembersBelow
    <3>3. TypeSizeOf(f, t) = TypeSizeOf(g, t)
      BY <3>1, <3>2, TypeSizeAgree
    <3> QED BY <2>4, <3>3
  <2>8. Solves(g, d + 1)
    BY <2>5, <2>7
  <2> HIDE DEF Solves
  <2> QED BY <2>1, <2>8
<1>3. \A d \in 0..(MaxSize + 1) : d \in G
  <2>1. MaxSize = (MaxSize + 1) - 1
    BY MaxSizeType
  <2> HIDE DEF G
  <2> QED BY <1>1, <1>2, <2>1, MaxSizeType, Induction
<1> QED BY <1>3

LEMMA TypeSizeUnfold == \A t \in Types : TypeSize[t] = TypeSizeOf(TypeSize, t)
<1> DEFINE Whole(f) == f = [t \in Types |-> TypeSizeOf(f, t)]
<1>1. TypeSize = CHOOSE f : Whole(f)
  BY DEF TypeSize, TypeSizeOf
<1>2. Whole(TypeSize)
  <2>1. \E f : Whole(f)
    <3>1. MaxSize + 1 \in 0..(MaxSize + 1)
      BY MaxSizeType
    <3> QED BY <3>1, TypeSizeExists, BelowAll
  <2> HIDE DEF Whole
  <2> QED BY <1>1, <2>1
<1> QED BY <1>2

InnerSizeOf(f, t) == [iv \in InnerOf[t] |->
    (IF HasLength(t) THEN 4 ELSE 0)
        + IF IsBlockable(t) THEN Len(Block(t, iv))
          ELSE Sum([i \in DOMAIN iv.members |->
                      f[MemberType(t, i)][iv.members[i]]])]

LEMMA InnerSizeAgree ==
    ASSUME NEW t \in Types, NEW f, NEW g, \A m \in Members(t) : f[m] = g[m]
    PROVE  InnerSizeOf(f, t) = InnerSizeOf(g, t)
<1> DEFINE Items(h, iv) == [i \in DOMAIN iv.members |-> h[MemberType(t, i)][iv.members[i]]]
           Of(h, iv) == (IF HasLength(t) THEN 4 ELSE 0)
                        + IF IsBlockable(t) THEN Len(Block(t, iv)) ELSE Sum(Items(h, iv))
<1>1. ASSUME NEW iv \in InnerOf[t], ~IsBlockable(t) PROVE Items(f, iv) = Items(g, iv)
  <2>1. AreMembersOf(iv.members, t)
    BY <1>1, InnerShape
  <2>2. \A i \in DOMAIN iv.members : f[MemberType(t, i)] = g[MemberType(t, i)]
    BY <2>1 DEF AreMembersOf
  <2> QED BY <2>2
<1>2. \A iv \in InnerOf[t] : Of(f, iv) = Of(g, iv)
  <2> HIDE DEF Items
  <2> QED BY <1>1
<1>3. InnerSizeOf(f, t) = [iv \in InnerOf[t] |-> Of(f, iv)]
      /\ InnerSizeOf(g, t) = [iv \in InnerOf[t] |-> Of(g, iv)]
  BY DEF InnerSizeOf
<1> HIDE DEF Of
<1> QED BY <1>2, <1>3

LEMMA InnerSizeExists ==
    \A d \in 0..(MaxSize + 1) : \E f : f = [t \in Below(d) |-> InnerSizeOf(f, t)]
<1> DEFINE Solves(f, d) == f = [t \in Below(d) |-> InnerSizeOf(f, t)]
           G == {d \in Nat : d <= MaxSize + 1 => \E f : Solves(f, d)}
<1>1. 0 \in G
  <2>1. Solves([t \in {} |-> 0], 0)
    BY DEF Below
  <2> HIDE DEF Solves
  <2> QED BY <2>1
<1>2. ASSUME NEW d \in 0..MaxSize, d \in G PROVE d + 1 \in G
  <2>1. d <= MaxSize + 1 /\ d + 1 \in 0..(MaxSize + 1) /\ d + 1 \in Nat
    BY MaxSizeType
  <2>2. PICK f : Solves(f, d)
    BY <1>2, <2>1
  <2>3. \A t \in Below(d) : f[t] = InnerSizeOf(f, t)
    BY <2>2
  <2> DEFINE g == [t \in Below(d + 1) |-> InnerSizeOf(f, t)]
  <2>4. \A t \in Below(d + 1) : g[t] = InnerSizeOf(f, t)
    OBVIOUS
  <2>5. g = [t \in Below(d + 1) |-> g[t]]
    OBVIOUS
  <2> HIDE DEF g
  <2>6. \A t \in Below(d) : g[t] = f[t]
    BY <2>3, <2>4, BelowGrows
  <2>7. ASSUME NEW t \in Below(d + 1) PROVE g[t] = InnerSizeOf(g, t)
    <3>1. t \in Types
      BY <2>1, BelowAll
    <3>2. \A m \in Members(t) : f[m] = g[m]
      BY <2>6, MembersBelow
    <3>3. InnerSizeOf(f, t) = InnerSizeOf(g, t)
      BY <3>1, <3>2, InnerSizeAgree
    <3> QED BY <2>4, <3>3
  <2>8. Solves(g, d + 1)
    BY <2>5, <2>7
  <2> HIDE DEF Solves
  <2> QED BY <2>1, <2>8
<1>3. \A d \in 0..(MaxSize + 1) : d \in G
  <2>1. MaxSize = (MaxSize + 1) - 1
    BY MaxSizeType
  <2> HIDE DEF G
  <2> QED BY <1>1, <1>2, <2>1, MaxSizeType, Induction
<1> QED BY <1>3

LEMMA InnerSizeUnfold == \A t \in Types : InnerSize[t] = InnerSizeOf(InnerSize, t)
<1> DEFINE Whole(f) == f = [t \in Types |-> InnerSizeOf(f, t)]
<1>1. InnerSize = CHOOSE f : Whole(f)
  BY DEF InnerSize, InnerSizeOf
<1>2. Whole(InnerSize)
  <2>1. \E f : Whole(f)
    <3>1. MaxSize + 1 \in 0..(MaxSize + 1)
      BY MaxSizeType
    <3> QED BY <3>1, InnerSizeExists, BelowAll
  <2> HIDE DEF Whole
  <2> QED BY <1>1, <2>1
<1> QED BY <1>2

InnerEqualsOf(f, t) == [a \in InnerOf[t] |-> [b \in InnerOf[t] |->
    IF IsBlockable(t) THEN Block(t, a) = Block(t, b)
    ELSE /\ Len(a.members) = Len(b.members)
         /\ \A i \in DOMAIN a.members :
                f[MemberType(t, i)][a.members[i]][b.members[i]]]]

LEMMA InnerEqualsAgree ==
    ASSUME NEW t \in Types, NEW f, NEW g, \A m \in Members(t) : f[m] = g[m]
    PROVE  InnerEqualsOf(f, t) = InnerEqualsOf(g, t)
<1> DEFINE Each(h, a, b) == \A i \in DOMAIN a.members :
               h[MemberType(t, i)][a.members[i]][b.members[i]]
           Of(h, a, b) == IF IsBlockable(t) THEN Block(t, a) = Block(t, b)
                          ELSE Len(a.members) = Len(b.members) /\ Each(h, a, b)
<1>1. ASSUME NEW a \in InnerOf[t], NEW b \in InnerOf[t], ~IsBlockable(t)
      PROVE  Each(f, a, b) = Each(g, a, b)
  <2>1. AreMembersOf(a.members, t)
    BY <1>1, InnerShape
  <2>2. \A i \in DOMAIN a.members : f[MemberType(t, i)] = g[MemberType(t, i)]
    BY <2>1 DEF AreMembersOf
  <2> QED BY <2>2
<1>2. \A a, b \in InnerOf[t] : Of(f, a, b) = Of(g, a, b)
  <2> HIDE DEF Each
  <2> QED BY <1>1
<1>3. InnerEqualsOf(f, t) = [a \in InnerOf[t] |-> [b \in InnerOf[t] |-> Of(f, a, b)]]
      /\ InnerEqualsOf(g, t) = [a \in InnerOf[t] |-> [b \in InnerOf[t] |-> Of(g, a, b)]]
  BY DEF InnerEqualsOf
<1> HIDE DEF Of
<1>4. \A a \in InnerOf[t] : [b \in InnerOf[t] |-> Of(f, a, b)] = [b \in InnerOf[t] |-> Of(g, a, b)]
  BY <1>2
<1> QED BY <1>3, <1>4

LEMMA InnerEqualsExists ==
    \A d \in 0..(MaxSize + 1) : \E f : f = [t \in Below(d) |-> InnerEqualsOf(f, t)]
<1> DEFINE Solves(f, d) == f = [t \in Below(d) |-> InnerEqualsOf(f, t)]
           G == {d \in Nat : d <= MaxSize + 1 => \E f : Solves(f, d)}
<1>1. 0 \in G
  <2>1. Solves([t \in {} |-> 0], 0)
    BY DEF Below
  <2> HIDE DEF Solves
  <2> QED BY <2>1
<1>2. ASSUME NEW d \in 0..MaxSize, d \in G PROVE d + 1 \in G
  <2>1. d <= MaxSize + 1 /\ d + 1 \in 0..(MaxSize + 1) /\ d + 1 \in Nat
    BY MaxSizeType
  <2>2. PICK f : Solves(f, d)
    BY <1>2, <2>1
  <2>3. \A t \in Below(d) : f[t] = InnerEqualsOf(f, t)
    BY <2>2
  <2> DEFINE g == [t \in Below(d + 1) |-> InnerEqualsOf(f, t)]
  <2>4. \A t \in Below(d + 1) : g[t] = InnerEqualsOf(f, t)
    OBVIOUS
  <2>5. g = [t \in Below(d + 1) |-> g[t]]
    OBVIOUS
  <2> HIDE DEF g
  <2>6. \A t \in Below(d) : g[t] = f[t]
    BY <2>3, <2>4, BelowGrows
  <2>7. ASSUME NEW t \in Below(d + 1) PROVE g[t] = InnerEqualsOf(g, t)
    <3>1. t \in Types
      BY <2>1, BelowAll
    <3>2. \A m \in Members(t) : f[m] = g[m]
      BY <2>6, MembersBelow
    <3>3. InnerEqualsOf(f, t) = InnerEqualsOf(g, t)
      BY <3>1, <3>2, InnerEqualsAgree
    <3> QED BY <2>4, <3>3
  <2>8. Solves(g, d + 1)
    BY <2>5, <2>7
  <2> HIDE DEF Solves
  <2> QED BY <2>1, <2>8
<1>3. \A d \in 0..(MaxSize + 1) : d \in G
  <2>1. MaxSize = (MaxSize + 1) - 1
    BY MaxSizeType
  <2> HIDE DEF G
  <2> QED BY <1>1, <1>2, <2>1, MaxSizeType, Induction
<1> QED BY <1>3

LEMMA InnerEqualsUnfold == \A t \in Types : InnerEquals[t] = InnerEqualsOf(InnerEquals, t)
<1> DEFINE Whole(f) == f = [t \in Types |-> InnerEqualsOf(f, t)]
<1>1. InnerEquals = CHOOSE f : Whole(f)
  BY DEF InnerEquals, InnerEqualsOf
<1>2. Whole(InnerEquals)
  <2>1. \E f : Whole(f)
    <3>1. MaxSize + 1 \in 0..(MaxSize + 1)
      BY MaxSizeType
    <3> QED BY <3>1, InnerEqualsExists, BelowAll
  <2> HIDE DEF Whole
  <2> QED BY <1>1, <2>1
<1> QED BY <1>2

-----------------------------------------------------------------------------
(* The code of a type.                                                      *)
LEMMA CodeHead ==
    ASSUME NEW a \in Seq(Byte), NEW b \in Seq(Byte), NEW c \in Seq(Byte)
    PROVE  /\ After((a \o b) \o c, Len(a)) = b \o c
           /\ \A i \in 1..Len(a) : ((a \o b) \o c)[i] = a[i]
           /\ Len(a) \in Nat /\ Len(b) \in Nat /\ Len(c) \in Nat
           /\ a \o b \in Seq(Byte) /\ Len(a \o b) = Len(a) + Len(b)
           /\ (a \o b) \o c \in Seq(Byte) /\ Len((a \o b) \o c) = Len(a) + Len(b) + Len(c)
           /\ b \o c \in Seq(Byte) /\ Len(b \o c) = Len(b) + Len(c)
           /\ (a \o b) \o c \in Buffers => b \o c \in Buffers
<1>1. (a \o b) \o c = a \o (b \o c)
  BY ConcatThree
<1>2. b \o c \in Seq(Byte) /\ Len(b \o c) = Len(b) + Len(c)
  BY ConcatProperties
<1>3. a \o b \in Seq(Byte) /\ Len(a \o b) = Len(a) + Len(b)
  BY ConcatProperties
<1>4. Len(a) \in Nat /\ Len(b) \in Nat /\ Len(c) \in Nat
  BY LenProperties
<1> DEFINE d == b \o c
<1>5. d \in Seq(Byte) /\ Len(d) = Len(b) + Len(c)
  BY <1>2
<1> HIDE DEF d
<1>6. /\ a \o d \in Seq(Byte) /\ Len(a \o d) = Len(a) + Len(d)
      /\ \A i \in 1..Len(a) : (a \o d)[i] = a[i]
  <2> DEFINE m == Len(a)
             l == Len(d)
             g == a \o d
  <2>1. m \in Nat /\ l \in Nat /\ g \in Seq(Byte) /\ Len(g) = m + l
        /\ \A i \in 1..(m + l) : g[i] = IF i <= m THEN a[i] ELSE d[i - m]
    BY <1>5, ConcatProperties, LenProperties, ZenonT(60)
  <2> HIDE DEF m, l, g
  <2>2. \A i \in 1..m : i \in 1..(m + l) /\ i <= m
    BY <2>1
  <2>3. \A i \in 1..m : g[i] = a[i]
    BY <2>1, <2>2
  <2> QED BY <2>1, <2>3 DEF m, l, g
<1>7. After(a \o d, Len(a)) = d
  BY <1>5, AfterConcat
<1>8. a \o d \in Buffers => d \in Buffers
  BY <1>5, SuffixIsBuffer
<1>9. Len(a) + Len(d) = Len(a) + Len(b) + Len(c)
  BY <1>4, <1>5
<1> QED BY <1>1, <1>2, <1>3, <1>4, <1>6, <1>7, <1>8, <1>9 DEF d

LEMMA WriteOne ==
    ASSUME NEW start \in Seq(Byte), NEW room \in Nat, Len(start) <= room,
           NEW e \in Seq(Byte), NEW w, Writes(w, e)
    PROVE  IF Len(start \o e) <= room THEN WriteEach(start, <<w>>, room) = Written(start \o e)
           ELSE WriteEach(start, <<w>>, room).status = BUFFER_TOO_SMALL
<1> DEFINE es == <<e>>
           ws == <<w>>
<1>1. PICK f : IsJoined(f, es, 1)
  BY JoinedIs
<1>2. f[1] = e
  <2>1. f[0] = <<>> /\ f[1] = f[1 - 1] \o es[1]
    BY <1>1 DEF IsJoined
  <2>2. f[1] = <<>> \o e
    BY <2>1
  <2> QED BY <2>2, ConcatEmptySeq
<1>3. Len(ws) = 1 /\ (\A i \in 1..1 : es[i] \in Seq(Byte)) /\ \A i \in 1..1 : Writes(ws[i], es[i])
  OBVIOUS
<1> HIDE DEF es, ws
<1> DEFINE n == 1
<1>5. WritesEach(n, es, f, ws)
  BY <1>1, <1>3 DEF WritesEach, AreParts
<1>7. n \in Nat
  OBVIOUS
<1> HIDE DEF n
<1>6. IF Len(start \o f[n]) <= room THEN WriteEach(start, ws, room) = Written(start \o f[n])
      ELSE WriteEach(start, ws, room).status = BUFFER_TOO_SMALL
  BY <1>5, <1>7, WriteEachWrites
<1> QED BY <1>2, <1>6 DEF ws, n

LEMMA TypeIs ==
    \A t \in Types :
        /\ IsPrimitive(t) => t = Primitive(t.tid)
        /\ ~IsPrimitive(t) /\ t.tid = ARRAY_TID => t = ArrayOf(t.cell)
        /\ ~IsPrimitive(t) /\ t.tid = STRUCT_TID => t = StructOf(t.fields)
<1> SUFFICES ASSUME NEW t \in Types
             PROVE  /\ IsPrimitive(t) => t = Primitive(t.tid)
                    /\ ~IsPrimitive(t) /\ t.tid = ARRAY_TID => t = ArrayOf(t.cell)
                    /\ ~IsPrimitive(t) /\ t.tid = STRUCT_TID => t = StructOf(t.fields)
  OBVIOUS
<1>1. t \in Around(Below(MaxSize))
  BY BelowAll, BelowNext, MaxSizeType
<1>2. CASE t \in Basic
  <2>1. t.tid \in 0..STRING_TID /\ t = [tid |-> t.tid]
    BY <1>2 DEF Basic
  <2> QED BY <2>1 DEF Primitive, IsPrimitive
<1>3. CASE t \in [tid : {ARRAY_TID}, cell : Below(MaxSize)]
  <2>1. t.tid = ARRAY_TID /\ t = [tid |-> ARRAY_TID, cell |-> t.cell]
    BY <1>3
  <2> QED BY <2>1 DEF ArrayOf, IsPrimitive, ARRAY_TID, STRING_TID, STRUCT_TID
<1>4. CASE t \in [tid : {STRUCT_TID}, fields : {s \in Seq(Below(MaxSize)) : Len(s) \in 1..MaxFields}]
  <2>1. t.tid = STRUCT_TID /\ t = [tid |-> STRUCT_TID, fields |-> t.fields]
    BY <1>4
  <2> QED BY <2>1 DEF StructOf, IsPrimitive, ARRAY_TID, STRING_TID, STRUCT_TID
<1> QED BY <1>1, <1>2, <1>3, <1>4 DEF Around

IsTypeCode(t, e) ==
    /\ e \in Seq(Byte) /\ Len(e) \in Nat /\ Len(e) >= 1 /\ Len(e) = TypeSize[t]
    /\ Writes(TypeToBuffer[t], e)
    /\ ReadsBack(TypeFromBuffer, e, {t})

LEMMA PrimitiveCode ==
    ASSUME NEW t \in Types, IsPrimitive(t)
    PROVE  IsTypeCode(t, <<t.tid>>)
<1> DEFINE e == <<t.tid>>
<1>1. t.tid \in 0..STRING_TID /\ t.tid \in Byte /\ t.tid # STRUCT_TID /\ t.tid <= STRING_TID
  BY TypeCases DEF Byte, STRING_TID, STRUCT_TID
<1>2. e \in Seq(Byte) /\ Len(e) = 1 /\ e[1] = t.tid
  BY <1>1, OneByte
<1>3. TypeSize[t] = 1
  BY TypeSizeUnfold DEF TypeSizeOf
<1>4. Writes(TypeToBuffer[t], e)
  <2> SUFFICES ASSUME NEW room \in Nat
               PROVE  IF Len(e) <= room THEN TypeToBuffer[t][room] = Written(e)
                      ELSE TypeToBuffer[t][room].status = BUFFER_TOO_SMALL
    BY DEF Writes
  <2>1. TypeToBuffer[t] = TypeToBufferOf(TypeToBuffer, t)
    BY TypeToBufferUnfold
  <2>2. TypeToBuffer[t][room] = IF room < 1 THEN TooSmall(<<>>) ELSE Written(e)
    BY <1>1, <2>1 DEF TypeToBufferOf
  <2> HIDE DEF e
  <2> QED BY <1>2, <2>2 DEF TooSmall
<1>5. ReadsBack(TypeFromBuffer, e, {t})
  <2> SUFFICES ASSUME NEW rest \in Seq(Byte), e \o rest \in Buffers
               PROVE  LET r == TypeFromBuffer[e \o rest]
                      IN  r.status = SUCCESS /\ r.readden = Len(e) /\ r.v \in {t}
    BY DEF ReadsBack
  <2> DEFINE b == e \o rest
  <2>1. b[1] = t.tid /\ Len(b) = 1 + Len(rest) /\ Len(rest) \in Nat
    <3> DEFINE l == Len(rest)
    <3>1. l \in Nat /\ Len(b) = Len(e) + l
          /\ \A i \in 1..(Len(e) + l) : b[i] = IF i <= Len(e) THEN e[i] ELSE rest[i - Len(e)]
      <4> HIDE DEF e
      <4> QED BY <1>2, ConcatProperties, LenProperties
    <3> HIDE DEF b, e, l
    <3>2. 1 \in 1..(Len(e) + l) /\ 1 <= Len(e) /\ Len(b) = 1 + l
      BY <1>2, <3>1
    <3> QED BY <1>2, <3>1, <3>2 DEF l
  <2>2. TypeFromBuffer[b] = TypeReadOf(TypeFromBuffer, b)
    BY TypeFromBufferUnfold
  <2> HIDE DEF b
  <2>3. TypeFromBuffer[b] = Read(Primitive(t.tid), 1, 0)
    BY <1>1, <2>1, <2>2 DEF TypeReadOf
  <2>4. Primitive(t.tid) = t
    BY TypeIs
  <2> QED BY <1>2, <2>3, <2>4 DEF Read, b
<1> HIDE DEF e
<1>6. Len(e) \in Nat /\ Len(e) >= 1
  BY <1>2
<1> QED BY <1>2, <1>3, <1>4, <1>5, <1>6 DEF IsTypeCode, e

LEMMA ArrayTypeCode ==
    ASSUME NEW t \in Types, ~IsPrimitive(t), t.tid = ARRAY_TID, NEW c, IsTypeCode(t.cell, c)
    PROVE  IsTypeCode(t, <<ARRAY_TID>> \o c)
<1> DEFINE a == <<ARRAY_TID>>
           e == a \o c
<1>1. /\ c \in Seq(Byte) /\ Len(c) \in Nat /\ Len(c) >= 1 /\ Len(c) = TypeSize[t.cell]
      /\ Writes(TypeToBuffer[t.cell], c) /\ ReadsBack(TypeFromBuffer, c, {t.cell})
  BY DEF IsTypeCode
<1>2. a \in Seq(Byte) /\ Len(a) = 1 /\ a[1] = ARRAY_TID
  BY OneByte DEF ARRAY_TID, Byte
<1>3. e \in Seq(Byte) /\ Len(e) = 1 + Len(c)
  BY <1>1, <1>2, ConcatProperties
<1>4. TypeSize[t] = 1 + TypeSize[t.cell]
  BY TypeSizeUnfold DEF TypeSizeOf
<1>5. Writes(TypeToBuffer[t], e)
  <2> SUFFICES ASSUME NEW room \in Nat
               PROVE  IF Len(e) <= room THEN TypeToBuffer[t][room] = Written(e)
                      ELSE TypeToBuffer[t][room].status = BUFFER_TOO_SMALL
    BY DEF Writes
  <2> DEFINE w == WriteEach(a, <<TypeToBuffer[t.cell]>>, room)
  <2>1. TypeToBuffer[t] = TypeToBufferOf(TypeToBuffer, t)
    BY TypeToBufferUnfold
  <2>2. TypeToBuffer[t][room] = IF room < 1 THEN TooSmall(<<>>) ELSE w
    BY <2>1 DEF TypeToBufferOf, ARRAY_TID, STRUCT_TID
  <2>3. room >= 1 => IF Len(e) <= room THEN w = Written(e) ELSE w.status = BUFFER_TOO_SMALL
    <3> HIDE DEF a
    <3> QED BY <1>1, <1>2, WriteOne
  <2> HIDE DEF e, w
  <2>4. room < 1 => ~(Len(e) <= room)
    BY <1>1, <1>3
  <2> QED BY <2>2, <2>3, <2>4 DEF TooSmall
<1>6. ReadsBack(TypeFromBuffer, e, {t})
  <2> SUFFICES ASSUME NEW rest \in Seq(Byte), e \o rest \in Buffers
               PROVE  LET r == TypeFromBuffer[e \o rest]
                      IN  r.status = SUCCESS /\ r.readden = Len(e) /\ r.v \in {t}
    BY DEF ReadsBack
  <2> DEFINE b == e \o rest
             left == c \o rest
             r == TypeFromBuffer[left]
  <2>1. b[1] = ARRAY_TID /\ Len(b) >= 1 /\ After(b, 1) = left /\ left \in Buffers
    <3> HIDE DEF a
    <3>1. /\ After((a \o c) \o rest, Len(a)) = c \o rest
          /\ \A i \in 1..Len(a) : ((a \o c) \o rest)[i] = a[i]
          /\ Len(a) \in Nat /\ Len(c) \in Nat /\ Len(rest) \in Nat
          /\ Len((a \o c) \o rest) = Len(a) + Len(c) + Len(rest)
          /\ (a \o c) \o rest \in Buffers => c \o rest \in Buffers
      BY <1>1, <1>2, CodeHead, ZenonT(60)
    <3>2. Len(b) >= 1
      <4>1. Len(b) = 1 + Len(c) + Len(rest)
        BY <1>2, <3>1
      <4> QED BY <3>1, <4>1
    <3> QED BY <1>2, <3>1, <3>2
  <2>2. TypeFromBuffer[b] = TypeReadOf(TypeFromBuffer, b)
    BY TypeFromBufferUnfold
  <2>3. r.status = SUCCESS /\ r.readden = Len(c) /\ r.v = t.cell
    BY <1>1, <2>1 DEF ReadsBack
  <2> HIDE DEF b, r, left
  <2>4. TypeReadOf(TypeFromBuffer, b) = Read(ArrayOf(t.cell), 1 + Len(c), r.blocks + 1)
    <3>1. ~(Len(b) < 1)
      <4> DEFINE l == Len(b)
      <4>1. l >= 1 /\ l \in Nat
        BY <2>1, LenProperties DEF b, Buffers, BytesUpTo
      <4> HIDE DEF l
      <4>2. ~(l < 1)
        BY <4>1
      <4> QED BY <4>2 DEF l
    <3>2. ~(ARRAY_TID <= STRING_TID)
      BY DEF ARRAY_TID, STRING_TID
    <3> QED BY <2>1, <2>3, <3>1, <3>2 DEF TypeReadOf, r
  <2>5. ArrayOf(t.cell) = t
    BY TypeIs
  <2> QED BY <1>3, <2>2, <2>4, <2>5 DEF Read, b
<1> HIDE DEF e
<1>7. Len(e) \in Nat /\ Len(e) >= 1 /\ Len(e) = TypeSize[t]
  BY <1>1, <1>3, <1>4
<1> QED BY <1>3, <1>5, <1>6, <1>7 DEF IsTypeCode, e, a

TwoBytes(x, y) == <<x, y>>

LEMMA TwoBytesAre ==
    \A x, y \in Byte : /\ TwoBytes(x, y) \in Seq(Byte) /\ Len(TwoBytes(x, y)) = 2
                       /\ TwoBytes(x, y)[1] = x /\ TwoBytes(x, y)[2] = y
BY DEF TwoBytes

LEMMA ConstantReaders ==
    ASSUME NEW n \in Nat, NEW x
    PROVE  Len([i \in 1..n |-> x]) = n /\ \A i \in 1..n : [j \in 1..n |-> x][i] = x
<1> DEFINE f == [i \in 1..n |-> x]
<1>1. DOMAIN f = 1..n /\ f = [i \in DOMAIN f |-> f[i]] /\ \A i \in 1..n : f[i] = x
  OBVIOUS
<1> HIDE DEF f
<1>2. Len(f) = n
  BY <1>1, LenOf
<1> QED BY <1>1, <1>2 DEF f

LEMMA StructTypeCode ==
    ASSUME NEW t \in Types, ~IsPrimitive(t), t.tid = STRUCT_TID,
           NEW n \in Nat, n = Len(t.fields), NEW es, \A i \in 1..n : IsTypeCode(t.fields[i], es[i]),
           NEW f, IsJoined(f, es, n)
    PROVE  IsTypeCode(t, TwoBytes(STRUCT_TID, n) \o f[n])
<1> DEFINE a == TwoBytes(STRUCT_TID, n)
           c == f[n]
           e == a \o c
           ws == [i \in DOMAIN t.fields |-> TypeToBuffer[t.fields[i]]]
<1>1. /\ n \in 1..MaxFields /\ n \in Nat /\ n \in Byte /\ t.fields \in Seq(Types)
      /\ DOMAIN t.fields = 1..n /\ t.tid # ARRAY_TID
  <2>1. t.fields \in Seq(Types) /\ Len(t.fields) \in 1..MaxFields /\ t.tid # ARRAY_TID
    BY TypeCases DEF ARRAY_TID, STRUCT_TID
  <2>2. n \in Nat /\ n <= 255
    BY <2>1, Bounds
  <2>3. DOMAIN t.fields = 1..Len(t.fields)
    BY <2>1, LenProperties
  <2>4. n \in 1..MaxFields /\ DOMAIN t.fields = 1..n
    BY <2>1, <2>3
  <2>5. n \in Byte
    <3>1. \A m \in Nat : m <= 255 => m \in Byte
      BY DEF Byte
    <3>2. n <= 255
      BY <2>2
    <3> QED BY <3>1, <3>2
  <2> QED BY <2>1, <2>2, <2>4, <2>5
<1>2. a \in Seq(Byte) /\ Len(a) = 2 /\ a[1] = STRUCT_TID /\ a[2] = n
  <2>1. STRUCT_TID \in Byte
    BY DEF STRUCT_TID, Byte
  <2> QED BY <1>1, <2>1, TwoBytesAre
<1>3. \A i \in 1..n : es[i] \in Seq(Byte) /\ Len(es[i]) = TypeSize[t.fields[i]]
                      /\ Writes(TypeToBuffer[t.fields[i]], es[i])
                      /\ ReadsBack(TypeFromBuffer, es[i], {t.fields[i]})
  BY DEF IsTypeCode
<1>p. AreParts(n, es, f)
  BY <1>1, <1>3 DEF AreParts
<1>4. c \in Seq(Byte) /\ Len(c) \in Nat
  <2>1. n \in 0..n
    BY <1>1
  <2> QED BY <1>p, <2>1, JoinedTypes
<1>5. /\ Len(ws) = n /\ \A i \in 1..n : ws[i] = TypeToBuffer[t.fields[i]]
  <2>1. DOMAIN ws = 1..n /\ ws = [i \in DOMAIN ws |-> ws[i]]
        /\ \A i \in 1..n : ws[i] = TypeToBuffer[t.fields[i]]
    BY <1>1
  <2> HIDE DEF ws
  <2> QED BY <1>1, <2>1, LenOf
<1>6. e \in Seq(Byte) /\ Len(e) = 2 + Len(c)
  <2> HIDE DEF a, c
  <2>1. a \o c \in Seq(Byte) /\ Len(a \o c) = Len(a) + Len(c)
    BY <1>2, <1>4, ConcatProperties
  <2> QED BY <1>2, <2>1
<1>7. Len(e) = TypeSize[t]
  <2> DEFINE s == [i \in DOMAIN t.fields |-> TypeSize[t.fields[i]]]
  <2>1. TypeSize[t] = 2 + Sum(s)
    BY <1>1, TypeSizeUnfold DEF TypeSizeOf
  <2>2. DOMAIN s = 1..n /\ s = [i \in DOMAIN s |-> s[i]] /\ \A i \in 1..n : s[i] = Len(es[i])
    BY <1>1, <1>3
  <2> HIDE DEF s
  <2>3. Len(s) = n
    BY <1>1, <2>2, LenOf
  <2>4. Len(f[n]) = Sum(s)
    BY <1>p, <2>2, <2>3, JoinedLength
  <2> HIDE DEF e
  <2> QED BY <1>6, <2>1, <2>4
<1>8. Writes(TypeToBuffer[t], e)
  <2> SUFFICES ASSUME NEW room \in Nat
               PROVE  IF Len(e) <= room THEN TypeToBuffer[t][room] = Written(e)
                      ELSE TypeToBuffer[t][room].status = BUFFER_TOO_SMALL
    BY DEF Writes
  <2> DEFINE w == WriteEach(a, ws, room)
  <2>1. TypeToBuffer[t] = TypeToBufferOf(TypeToBuffer, t)
    BY TypeToBufferUnfold
  <2>2. TypeToBuffer[t][room] = IF room < 2 THEN TooSmall(<<>>) ELSE w
    <3>1. TypeToBuffer[t][room] = IF room < 1 \/ room < 2 THEN TooSmall(<<>>) ELSE w
      BY <1>1, <2>1 DEF TypeToBufferOf, TwoBytes
    <3>2. room < 1 \/ room < 2 <=> room < 2
      OBVIOUS
    <3> QED BY <3>1, <3>2
  <2>3. room >= 2 => IF Len(e) <= room THEN w = Written(e) ELSE w.status = BUFFER_TOO_SMALL
    <3>1. WritesEach(n, es, f, ws)
      <4> HIDE DEF ws
      <4> QED BY <1>p, <1>3, <1>5 DEF WritesEach
    <3> HIDE DEF a, ws
    <3> QED BY <1>2, <3>1, WriteEachWrites
  <2> HIDE DEF e, w
  <2>4. room < 2 => ~(Len(e) <= room)
    BY <1>4, <1>6
  <2> QED BY <2>2, <2>3, <2>4 DEF TooSmall
<1>9. ReadsBack(TypeFromBuffer, e, {t})
  <2> SUFFICES ASSUME NEW rest \in Seq(Byte), e \o rest \in Buffers
               PROVE  LET r == TypeFromBuffer[e \o rest]
                      IN  r.status = SUCCESS /\ r.readden = Len(e) /\ r.v \in {t}
    BY DEF ReadsBack
  <2> DEFINE b == e \o rest
             left == c \o rest
             readers == [i \in 1..n |-> TypeFromBuffer]
             frees == [i \in 1..n |-> TypeBlocks]
             V == [i \in 1..n |-> {t.fields[i]}]
             r == ReadEach(readers, frees, left)
  <2>1. /\ b[1] = STRUCT_TID /\ b[2] = n /\ Len(b) >= 2 /\ Len(b) \in Nat
        /\ After(b, 2) = left /\ left \in Buffers
    <3> HIDE DEF a, c
    <3>1. /\ After((a \o c) \o rest, Len(a)) = c \o rest
          /\ \A i \in 1..Len(a) : ((a \o c) \o rest)[i] = a[i]
          /\ Len(a) \in Nat /\ Len(c) \in Nat /\ Len(rest) \in Nat
          /\ Len((a \o c) \o rest) = Len(a) + Len(c) + Len(rest)
          /\ (a \o c) \o rest \in Buffers => c \o rest \in Buffers
      BY <1>2, <1>4, CodeHead, ZenonT(60)
    <3>2. Len(b) >= 2 /\ Len(b) \in Nat
      <4>1. Len(b) = 2 + Len(c) + Len(rest)
        BY <1>2, <3>1
      <4> QED BY <3>1, <4>1
    <3>3. 1 \in 1..Len(a) /\ 2 \in 1..Len(a)
      BY <1>2
    <3> QED BY <1>2, <3>1, <3>2, <3>3
  <2>2. TypeFromBuffer[b] = TypeReadOf(TypeFromBuffer, b)
    BY TypeFromBufferUnfold
  <2>3. ReadsEachBack(n, es, f, readers, V)
    <3>1. Len(readers) = n /\ \A i \in 1..n : readers[i] = TypeFromBuffer
      BY <1>1, ConstantReaders
    <3>2. \A i \in 1..n : V[i] = {t.fields[i]}
      OBVIOUS
    <3> HIDE DEF readers, V
    <3> QED BY <1>p, <1>3, <3>1, <3>2 DEF ReadsEachBack
  <2>4. AllBack(r, n, n, V, Len(c))
    <3> HIDE DEF readers, V, frees
    <3> QED BY <2>1, <2>3, ReadEachBack
  <2>5. r.v = t.fields
    <3> DEFINE v == r.v
               S == UNION {V[i] : i \in 1..n}
    <3>1. v \in Seq(S) /\ Len(v) = n /\ \A i \in 1..n : v[i] \in V[i]
      BY <2>4 DEF AllBack
    <3>2. \A i \in 1..n : V[i] = {t.fields[i]}
      OBVIOUS
    <3>3. \A i \in 1..n : v[i] = t.fields[i]
      <4> HIDE DEF V, v
      <4> QED BY <3>1, <3>2
    <3>4. t.fields \in Seq(Types) /\ Len(t.fields) = n
      BY <1>1
    <3>5. v \in Seq(Types)
      <4>1. DOMAIN v = 1..n /\ v = [i \in 1..n |-> v[i]]
        <5> HIDE DEF S, v
        <5> QED BY <3>1, LenProperties
      <4>2. \A i \in 1..n : t.fields[i] \in Types
        BY <3>4, ElementOfSeq
      <4> HIDE DEF v
      <4> QED BY <1>1, <3>3, <4>1, <4>2, LenOf
    <3> HIDE DEF v, S
    <3>6. v = t.fields
      BY <3>1, <3>3, <3>4, <3>5, SeqEqual
    <3> QED BY <3>6 DEF v
  <2>6. r.status = SUCCESS /\ r.readden = Len(c)
    BY <2>4 DEF AllBack
  <2> HIDE DEF left
  <2>7. TypeReadOf(TypeFromBuffer, b) = Read(StructOf(t.fields), 2 + Len(c), r.blocks + 2)
    <3> DEFINE l == Len(b)
    <3>1. l >= 2 /\ l \in Nat
      BY <2>1
    <3> HIDE DEF b, l
    <3>2. ~(l < 1) /\ ~(l < 2)
      BY <3>1
    <3>3. ~(Len(b) < 1) /\ ~(Len(b) < 2)
      BY <3>2 DEF l
    <3>4. ~(STRUCT_TID <= STRING_TID) /\ STRUCT_TID # ARRAY_TID /\ ~(n < 1) /\ ~(n > MaxFields)
      BY <1>1, Bounds DEF ARRAY_TID, STRING_TID, STRUCT_TID
    <3> DEFINE fields == ReadEach([i \in 1..b[2] |-> TypeFromBuffer],
                                  [i \in 1..b[2] |-> TypeBlocks], After(b, 2))
    <3>5. fields = r
      BY <2>1
    <3>6. TypeReadOf(TypeFromBuffer, b) =
              IF fields.status # SUCCESS THEN fields
              ELSE Read(StructOf(fields.v), 2 + fields.readden, fields.blocks + 2)
      <4> HIDE DEF readers, frees, r
      <4> QED BY <2>1, <3>3, <3>4 DEF TypeReadOf
    <3> HIDE DEF fields, r
    <3> QED BY <2>5, <2>6, <3>5, <3>6
  <2>8. StructOf(t.fields) = t
    BY TypeIs
  <2> HIDE DEF b, r, e
  <2> QED BY <1>6, <2>2, <2>7, <2>8 DEF Read, b
<1> HIDE DEF e, c
<1>10. Len(e) \in Nat /\ Len(e) >= 1
  BY <1>4, <1>6
<1> QED BY <1>6, <1>7, <1>8, <1>9, <1>10 DEF IsTypeCode, e, c, a

(* Every type has a code: what is written of it, if there is room, and what *)
(* is read back as the type, whatever follows it.                           *)
LEMMA TypeCodes == \A t \in Types : \E e : IsTypeCode(t, e)
<1> DEFINE G == {t \in Types : \E e : IsTypeCode(t, e)}
<1>1. ASSUME NEW t \in Types, Members(t) \subseteq G PROVE t \in G
  <2>1. CASE IsPrimitive(t)
    BY <2>1, PrimitiveCode
  <2>2. CASE ~IsPrimitive(t) /\ t.tid = ARRAY_TID
    <3>1. t.cell \in Members(t)
      BY <2>2 DEF Members
    <3>2. PICK c : IsTypeCode(t.cell, c)
      BY <1>1, <3>1
    <3> QED BY <2>2, <3>2, ArrayTypeCode
  <2>3. CASE ~IsPrimitive(t) /\ t.tid = STRUCT_TID /\ t.tid # ARRAY_TID
    <3> DEFINE n == Len(t.fields)
               es == [i \in 1..n |-> CHOOSE e : IsTypeCode(t.fields[i], e)]
    <3>1. n \in Nat /\ DOMAIN t.fields = 1..n
      BY <2>3, TypeCases, LenProperties
    <3>2. \A i \in 1..n : t.fields[i] \in Members(t)
      BY <2>3, <3>1 DEF Members
    <3>3. \A i \in 1..n : IsTypeCode(t.fields[i], es[i])
      BY <1>1, <3>2
    <3> HIDE DEF n, es
    <3>4. PICK f : IsJoined(f, es, n)
      BY <3>1, JoinedIs
    <3>5. n = Len(t.fields)
      BY DEF n
    <3>6. IsTypeCode(t, TwoBytes(STRUCT_TID, n) \o f[n])
      BY <2>3, <3>1, <3>3, <3>4, <3>5, StructTypeCode
    <3> QED BY <3>6
  <2> QED BY <2>1, <2>2, <2>3, TypeCases
<1>2. Types \subseteq G
  <2> HIDE DEF G
  <2> QED BY <1>1, TypeInduction
<1> QED BY <1>2

-----------------------------------------------------------------------------
(* The code of a length: 32 bits, which are enough for what a buffer holds. *)
LEMMA Digits ==
    \A n \in Nat : n \div 16777216 < 256 =>
        (n % 256) + 256 * ((n \div 256) % 256) + 65536 * ((n \div 65536) % 256)
            + 16777216 * ((n \div 16777216) % 256) = n
<1> SUFFICES ASSUME NEW n \in Nat, n \div 16777216 < 256
             PROVE  (n % 256) + 256 * ((n \div 256) % 256) + 65536 * ((n \div 65536) % 256)
                        + 16777216 * ((n \div 16777216) % 256) = n
  BY SMT
<1> DEFINE p == n \div 256
           q == n \div 65536
           r == n \div 16777216
<1>1. p \in Nat /\ q \in Nat /\ r \in Nat
  BY SMT
<1>2. 256 * p <= n /\ n < 256 * p + 256
  BY SMT
<1>3. 256 * q <= p /\ p < 256 * q + 256
  BY SMT
<1>4. 256 * r <= q /\ q < 256 * r + 256
  BY SMT
<1>5. r < 256
  BY SMT
<1> HIDE DEF p, q, r
<1>a. n % 256 = n - 256 * p
  BY SMT, <1>1, <1>2
<1>6. p % 256 = p - 256 * q
  BY SMT, <1>1, <1>3
<1>7. q % 256 = q - 256 * r
  BY SMT, <1>1, <1>4
<1>8. r % 256 = r
  BY SMT, <1>1, <1>5
<1>9. (n - 256 * p) + 256 * (p - 256 * q) + 65536 * (q - 256 * r) + 16777216 * r = n
  BY SMT, <1>1
<1>10. (n % 256) + 256 * (p % 256) + 65536 * (q % 256) + 16777216 * (r % 256) = n
  <2> DEFINE a == n % 256
             b == p % 256
             c == q % 256
             d == r % 256
  <2>1. a = n - 256 * p /\ b = p - 256 * q /\ c = q - 256 * r /\ d = r
    BY <1>a, <1>6, <1>7, <1>8
  <2> HIDE DEF a, b, c, d
  <2>2. a + 256 * b + 65536 * c + 16777216 * d = n
    BY SMT, <1>1, <2>1
  <2> QED BY <2>2 DEF a, b, c, d
<1> QED BY <1>10 DEF p, q, r

LEMMA LengthRead ==
    ASSUME NEW n \in Nat, n <= MaxSize, NEW rest \in Seq(Byte)
    PROVE  FromBytes(ToBytes(n) \o rest) = n
<1>1. n \div 16777216 < 256
  <2> DEFINE a == n \div 16777216
             b == MaxSize \div 16777216
  <2>1. a <= b
    BY SMT, MaxSizeType
  <2>2. b < 256 /\ a \in Nat /\ b \in Nat
    BY SMT, MaxSizeType, LengthsFit
  <2> HIDE DEF a, b
  <2>3. a < 256
    BY <2>1, <2>2
  <2> QED BY <2>3 DEF a
<1> DEFINE e == ToBytes(n)
           d == e \o rest
<1>2. e \in Seq(Byte) /\ Len(e) = 4
  BY ToBytesIs DEF LengthBytes
<1>3. e[1] = n % 256 /\ e[2] = (n \div 256) % 256 /\ e[3] = (n \div 65536) % 256
      /\ e[4] = (n \div 16777216) % 256
  BY DEF ToBytes
<1> HIDE DEF e
<1>4. \A i \in 1..4 : d[i] = e[i]
  <2> DEFINE l == Len(rest)
             k == Len(e)
  <2>1. l \in Nat /\ \A i \in 1..(k + l) : d[i] = IF i <= k THEN e[i] ELSE rest[i - k]
    BY <1>2, ConcatProperties, LenProperties
  <2> HIDE DEF l, d
  <2>2. k = 4
    BY <1>2
  <2> HIDE DEF k
  <2>3. \A i \in 1..4 : i \in 1..(k + l) /\ i <= k
    BY <2>1, <2>2
  <2> QED BY <2>1, <2>3
<1>5. d[1] = e[1] /\ d[2] = e[2] /\ d[3] = e[3] /\ d[4] = e[4]
  <2>1. 1 \in 1..4 /\ 2 \in 1..4 /\ 3 \in 1..4 /\ 4 \in 1..4
    OBVIOUS
  <2> HIDE DEF d
  <2> QED BY <1>4, <2>1
<1> HIDE DEF d
<1>6. FromBytes(d) = (n % 256) + 256 * ((n \div 256) % 256) + 65536 * ((n \div 65536) % 256)
                     + 16777216 * ((n \div 16777216) % 256)
  BY SMT, <1>3, <1>5 DEF FromBytes
<1>7. (n % 256) + 256 * ((n \div 256) % 256) + 65536 * ((n \div 65536) % 256)
          + 16777216 * ((n \div 16777216) % 256) = n
  BY SMT, <1>1, Digits
<1> QED BY SMT, <1>6, <1>7 DEF d, e

LEMMA FirstConcat ==
    ASSUME NEW a \in Seq(Byte), NEW b \in Seq(Byte)
    PROVE  First(a \o b, Len(a)) = a
<1> DEFINE c == a \o b
           m == Len(a)
           l == Len(b)
           d == First(c, m)
<1>1. m \in Nat /\ l \in Nat /\ c \in Seq(Byte) /\ Len(c) = m + l
      /\ \A i \in 1..(m + l) : c[i] = IF i <= m THEN a[i] ELSE b[i - m]
  BY ConcatProperties, LenProperties
<1> HIDE DEF c
<1>2. d = SubSeq(c, 1, m)
  BY DEF First
<1>3. \A i \in 1..m : c[i] \in Byte /\ c[i] = a[i]
  <2>1. \A i \in 1..m : i \in 1..(m + l) /\ i <= m
    <3> HIDE DEF m, l
    <3> QED BY <1>1
  <2>2. \A i \in 1..m : a[i] \in Byte
    BY ElementOfSeq
  <2> HIDE DEF m, l
  <2> QED BY <1>1, <2>1, <2>2
<1> HIDE DEF d, m
<1>4. /\ d \in Seq(Byte) /\ Len(d) = IF 1 <= m THEN m - 1 + 1 ELSE 0
      /\ \A i \in 1..(m - 1 + 1) : d[i] = c[1 + i - 1]
  <2>1. 1 \in Int /\ m \in Int
    BY <1>1
  <2> QED BY <1>2, <1>3, <2>1, SubSeqProperties
<1>5. Len(d) = m
  BY <1>1, <1>4
<1>6. \A i \in 1..m : d[i] = a[i]
  <2>1. \A i \in 1..m : i \in 1..(m - 1 + 1) /\ 1 + i - 1 = i
    BY <1>1
  <2> QED BY <1>3, <1>4, <2>1
<1>7. Len(d) = Len(a) /\ \A i \in 1..Len(d) : d[i] = a[i]
  BY <1>5, <1>6 DEF m
<1>8. d = a
  BY <1>4, <1>7, SeqEqual
<1> QED BY <1>8 DEF d, c, m

(* A string that is a string already is what it is.                         *)
Ends(b) == {n \in DOMAIN b : b[n] = 0}

LEMMA StringEnds ==
    ASSUME NEW b \in Seq(Byte), Ends(b) # {}
    PROVE  \E k \in 1..Len(b) : /\ k \in Ends(b) /\ (\A m \in Ends(b) : k <= m)
                                /\ String(b) = SubSeq(b, 1, k)
<1> DEFINE ends == Ends(b)
           k == CHOOSE n \in ends : \A m \in ends : n <= m
<1>1. Len(b) \in Nat /\ DOMAIN b = 1..Len(b)
  BY LenProperties
<1>2. ends \subseteq 1..Len(b) /\ ends \subseteq Nat
  BY <1>1 DEF Ends
<1>3. \E n \in ends : \A m \in ends : n <= m
  <2> DEFINE R == OpToRel(<, Nat)
  <2>1. \A i, j \in Nat : j < i => <<j, i>> \in R
    BY DEF OpToRel
  <2>2. IsWellFoundedOn(R, Nat)
    BY NatLessThanWellFounded
  <2> HIDE DEF R, ends
  <2>3. ends # {}
    BY DEF ends
  <2>4. \E n \in ends : \A m \in ends : ~(<<m, n>> \in R)
    BY <1>2, <2>2, <2>3, WFMin
  <2>5. PICK n \in ends : \A m \in ends : ~(<<m, n>> \in R)
    BY <2>4
  <2>6. ASSUME NEW m \in ends PROVE n <= m
    <3>1. n \in Nat /\ m \in Nat /\ ~(<<m, n>> \in R)
      BY <1>2, <2>5
    <3>2. ~(m < n)
      BY <2>1, <3>1
    <3> QED BY <3>1, <3>2
  <2> QED BY <2>6
<1>4. k \in ends /\ \A m \in ends : k <= m
  <2> HIDE DEF ends
  <2> QED BY <1>3
<1>5. String(b) = SubSeq(b, 1, k)
  BY DEF String, Ends
<1> HIDE DEF k
<1> QED BY <1>2, <1>4, <1>5

LEMMA StringTwice == \A b \in Seq(Byte) : String(String(b)) = String(b)
<1> SUFFICES ASSUME NEW b \in Seq(Byte) PROVE String(String(b)) = String(b)
  OBVIOUS
<1>1. CASE Ends(b) = {}
  <2>1. String(b) = b
    BY <1>1 DEF Ends, String
  <2> QED BY <2>1
<1>2. CASE Ends(b) # {}
  <2>1. PICK k \in 1..Len(b) : /\ k \in Ends(b) /\ (\A m \in Ends(b) : k <= m)
                               /\ String(b) = SubSeq(b, 1, k)
    BY <1>2, StringEnds
  <2> DEFINE c == SubSeq(b, 1, k)
             l == Len(b)
  <2>2. l \in Nat /\ DOMAIN b = 1..l /\ \A i \in 1..l : b[i] \in Byte
    BY LenProperties, ElementOfSeq
  <2>3. k \in Nat /\ k >= 1 /\ k <= l /\ \A i \in 1..k : i \in 1..l
    <3> HIDE DEF c
    <3> QED BY <2>1, <2>2
  <2> HIDE DEF l
  <2>4. c \in Seq(Byte) /\ Len(c) = k /\ \A i \in 1..k : c[i] = b[i]
    <3>1. /\ c \in Seq(Byte) /\ Len(c) = IF 1 <= k THEN k - 1 + 1 ELSE 0
          /\ \A i \in 1..(k - 1 + 1) : c[i] = b[1 + i - 1]
      BY <2>2, <2>3, SubSeqProperties
    <3> HIDE DEF c
    <3>2. Len(c) = k
      BY <2>3, <3>1
    <3>3. \A i \in 1..k : i \in 1..(k - 1 + 1) /\ 1 + i - 1 = i
      BY <2>3
    <3> QED BY <3>1, <3>2, <3>3
  <2> HIDE DEF c
  <2>5. DOMAIN c = 1..k
    BY <2>4, LenProperties
  <2>6. k \in Ends(c)
    <3>1. b[k] = 0 /\ c[k] = b[k] /\ k \in 1..k
      BY <2>1, <2>3, <2>4 DEF Ends
    <3> QED BY <2>5, <3>1 DEF Ends
  <2>7. PICK j \in 1..Len(c) : /\ j \in Ends(c) /\ (\A m \in Ends(c) : j <= m)
                               /\ String(c) = SubSeq(c, 1, j)
    BY <2>4, <2>6, StringEnds
  <2>8. j \in Ends(b)
    <3>1. j \in 1..k /\ c[j] = 0
      BY <2>5, <2>7 DEF Ends
    <3> QED BY <2>2, <2>3, <2>4, <3>1 DEF Ends
  <2>9. j = k
    <3>1. k <= j /\ j <= k /\ j \in Nat
      BY <2>1, <2>4, <2>7, <2>8
    <3> QED BY <2>3, <3>1
  <2>10. SubSeq(c, 1, k) = c
    <3>0. \A i \in 1..k : c[i] \in Byte
      BY <2>2, <2>3, <2>4
    <3> DEFINE d == SubSeq(c, 1, k)
    <3>1. /\ d \in Seq(Byte) /\ Len(d) = IF 1 <= k THEN k - 1 + 1 ELSE 0
          /\ \A i \in 1..(k - 1 + 1) : d[i] = c[1 + i - 1]
      BY <2>3, <3>0, SubSeqProperties
    <3> HIDE DEF d
    <3>2. Len(d) = k
      BY <2>3, <3>1
    <3>3. \A i \in 1..k : i \in 1..(k - 1 + 1) /\ 1 + i - 1 = i
      BY <2>3
    <3>4. Len(d) = Len(c) /\ \A i \in 1..Len(d) : d[i] = c[i]
      BY <2>4, <3>1, <3>2, <3>3
    <3>5. d = c
      BY <2>4, <3>1, <3>4, SeqEqual
    <3> QED BY <3>5 DEF d
  <2> QED BY <2>1, <2>7, <2>9, <2>10 DEF c
<1> QED BY <1>1, <1>2

-----------------------------------------------------------------------------
(* The code of a value without its type.                                    *)
Equals(t, iv) == {x \in InnerOf[t] : InnerEquals[t][x][iv]}

IsInnerCode(t, iv, e) ==
    /\ e \in Seq(Byte) /\ Len(e) \in Nat /\ Len(e) >= 1 /\ Len(e) = InnerSize[t][iv]
    /\ Writes(InnerToBuffer[t][iv], e)
    /\ ReadsBack(InnerFromBuffer[t], e, Equals(t, iv))
    /\ t = STRING_T => ReadsBack(StringFromBuffer, e, Equals(t, iv))

LEMMA DenseEquals ==
    ASSUME NEW t \in Types, IsBlockable(t), NEW iv \in InnerOf[t]
    PROVE  Dense(Block(t, iv)) \in Equals(t, iv)
<1> DEFINE b == Block(t, iv)
           x == Dense(b)
<1>1. IsBlockOf(iv.block, t)
  BY InnerShape
<1>2. x.block = b
  BY DEF Dense
<1>3. IsBlockOf(b, t) /\ Block(t, x) = b
  <2>1. CASE t.tid = STRING_TID
    <3>1. b = String(iv.block) /\ Block(t, x) = String(b)
      BY <1>2, <2>1 DEF Block
    <3>2. HasLength(t) /\ CellSize(t) = 1
      BY <2>1 DEF HasLength, CellSize, IsPrimitive, STRING_TID
    <3> HIDE DEF b, x
    <3>3. b \in Seq(Byte) /\ Len(b) \in Nat /\ Len(b) <= Len(iv.block) /\ Len(iv.block) \in 0..MaxSize
      BY <1>1, <3>1, StringIs DEF IsBlockOf
    <3>4. Len(b) \in 0..MaxSize /\ Len(b) % 1 = 0
      BY <3>3, MaxSizeType
    <3>5. String(b) = b
      BY <1>1, <3>1, StringTwice DEF IsBlockOf
    <3> QED BY <3>1, <3>2, <3>3, <3>4, <3>5 DEF IsBlockOf
  <2>2. CASE t.tid # STRING_TID
    <3>1. b = iv.block /\ Block(t, x) = b
      BY <1>2, <2>2 DEF Block
    <3> HIDE DEF b, x
    <3> QED BY <1>1, <3>1
  <2> QED BY <2>1, <2>2
<1>4. x \in InnerOf[t]
  <2> HIDE DEF b
  <2> QED BY <1>3, MakeDense
<1> HIDE DEF x
<1>5. InnerEquals[t][x][iv]
  <2>1. InnerEquals[t] = InnerEqualsOf(InnerEquals, t)
    BY InnerEqualsUnfold
  <2>2. InnerEqualsOf(InnerEquals, t)[x][iv] = (Block(t, x) = Block(t, iv))
    BY <1>4 DEF InnerEqualsOf
  <2> QED BY <1>3, <2>1, <2>2
<1> QED BY <1>4, <1>5 DEF Equals, x, b

(* Numbers: their bytes.                                                    *)
LEMMA NumberCode ==
    ASSUME NEW t \in Types, IsBlockable(t), ~HasLength(t), NEW iv \in InnerOf[t]
    PROVE  IsInnerCode(t, iv, Block(t, iv))
<1> DEFINE e == Block(t, iv)
           c == CellSize(t)
<1>1. t.tid # STRING_TID /\ t # STRING_T
  BY DEF HasLength, STRING_T, Primitive
<1>2. e = iv.block /\ IsBlockOf(iv.block, t)
  BY <1>1, InnerShape DEF Block
<1>3. e \in Seq(Byte) /\ Len(e) = c /\ c \in {1, 2, 4, 8}
  BY <1>2, CellSizes DEF IsBlockOf
<1>4. Len(e) \in Nat /\ Len(e) >= 1
  <2> HIDE DEF e, c
  <2> QED BY <1>3
<1>5. Len(e) = InnerSize[t][iv]
  <2>1. InnerSize[t] = InnerSizeOf(InnerSize, t)
    BY InnerSizeUnfold
  <2>2. InnerSizeOf(InnerSize, t)[iv] = 0 + Len(e)
    BY DEF InnerSizeOf
  <2> HIDE DEF e
  <2> QED BY <1>4, <2>1, <2>2
<1>6. Writes(InnerToBuffer[t][iv], e)
  <2> SUFFICES ASSUME NEW room \in Nat
               PROVE  IF Len(e) <= room THEN InnerToBuffer[t][iv][room] = Written(e)
                      ELSE InnerToBuffer[t][iv][room].status = BUFFER_TOO_SMALL
    BY DEF Writes
  <2>1. InnerToBuffer[t] = InnerToBufferOf(InnerToBuffer, t)
    BY InnerToBufferUnfold
  <2>2. InnerToBufferOf(InnerToBuffer, t)[iv][room] = BlockToBuffer(t, e, room)
    BY DEF InnerToBufferOf
  <2> HIDE DEF e
  <2>3. <<>> \o e = e /\ Len(<<>>) = 0 /\ ~(room < 0) /\ 0 + Len(e) = Len(e)
    BY <1>3, <1>4, ConcatEmptySeq, EmptySeq
  <2>4. BlockToBuffer(t, e, room) = IF Len(e) <= room THEN Written(e) ELSE TooSmall(<<>>)
    BY <2>3 DEF BlockToBuffer, BlockRoom
  <2> QED BY <2>1, <2>2, <2>4 DEF TooSmall
<1>7. ReadsBack(InnerFromBuffer[t], e, Equals(t, iv))
  <2> SUFFICES ASSUME NEW rest \in Seq(Byte), e \o rest \in Buffers
               PROVE  LET r == InnerFromBuffer[t][e \o rest]
                      IN  r.status = SUCCESS /\ r.readden = Len(e) /\ r.v \in Equals(t, iv)
    BY DEF ReadsBack
  <2> DEFINE b == e \o rest
  <2>1. b \in Seq(Byte) /\ ~(Len(b) < c) /\ First(b, c) = e
    <3> HIDE DEF e, c
    <3>1. b \in Seq(Byte) /\ Len(b) = Len(e) + Len(rest) /\ Len(rest) \in Nat
      BY <1>3, ConcatProperties, LenProperties
    <3>2. First(b, Len(e)) = e
      BY <1>3, FirstConcat
    <3>3. ~(Len(b) < Len(e))
      BY <1>4, <3>1
    <3> QED BY <1>3, <3>1, <3>2, <3>3
  <2>2. InnerFromBuffer[t] = InnerReadOf(InnerFromBuffer, t)
    BY InnerFromBufferUnfold
  <2> HIDE DEF b, e, c
  <2>3. InnerReadOf(InnerFromBuffer, t)[b] = NumberFromBuffer(t, b)
    BY <2>1 DEF InnerReadOf
  <2>4. NumberFromBuffer(t, b) = Read(Dense(e), c, 1)
    BY <2>1 DEF NumberFromBuffer, c
  <2>5. Dense(e) \in Equals(t, iv)
    BY DenseEquals DEF e
  <2> QED BY <1>3, <2>2, <2>3, <2>4, <2>5 DEF Read, b
<1> HIDE DEF e
<1> QED BY <1>1, <1>3, <1>4, <1>5, <1>6, <1>7 DEF IsInnerCode, e

LEMMA Cells ==
    \A c \in {1, 2, 4, 8} : \A l \in Nat : l % c = 0 =>
        l \div c \in Nat /\ l \div c <= l /\ c * (l \div c) = l
BY SMT

(* Strings and arrays of numbers: the number of cells and the block.        *)
LEMMA BlockBack ==
    ASSUME NEW t \in Types, IsBlockable(t), HasLength(t), NEW iv \in InnerOf[t],
           NEW e, e = ToBytes(Len(Block(t, iv)) \div CellSize(t)) \o Block(t, iv)
    PROVE  /\ e \in Seq(Byte) /\ Len(e) = 4 + Len(Block(t, iv)) /\ Len(Block(t, iv)) \in Nat
           /\ \A rest \in Seq(Byte) : e \o rest \in Buffers =>
                  /\ BlockFromBuffer(t, e \o rest).status = SUCCESS
                  /\ BlockFromBuffer(t, e \o rest).readden = Len(e)
                  /\ BlockFromBuffer(t, e \o rest).v = Dense(Block(t, iv))
<1> DEFINE b == Block(t, iv)
           l == Len(b)
           c == CellSize(t)
           n == l \div c
           a == ToBytes(n)
<1>1. b \in Seq(Byte) /\ l \in 0..MaxSize /\ l \in Nat /\ l % c = 0 /\ c \in {1, 2, 4, 8}
  <2>1. Dense(b) \in InnerOf[t]
    BY DenseEquals DEF Equals
  <2>2. IsBlockOf(Dense(b).block, t)
    BY <2>1, InnerShape
  <2>3. IsBlockOf(b, t)
    BY <2>2 DEF Dense
  <2> QED BY <2>3, CellSizes, LenProperties DEF IsBlockOf
<1>2. n \in Nat /\ n <= MaxSize /\ c * n = l
  <2> HIDE DEF c, l
  <2>1. n \in Nat /\ n <= l /\ c * n = l
    BY <1>1, Cells
  <2> QED BY <1>1, <2>1, MaxSizeType
<1>3. a \in Seq(Byte) /\ Len(a) = 4
  <2> HIDE DEF n
  <2> QED BY <1>2, ToBytesIs DEF LengthBytes
<1> HIDE DEF b, c, n, a
<1>4. e = a \o b
  BY DEF a, b, n, l, c
<1>5. e \in Seq(Byte) /\ Len(e) = 4 + l
  <2>1. a \o b \in Seq(Byte) /\ Len(a \o b) = Len(a) + Len(b)
    BY <1>1, <1>3, ConcatProperties
  <2> QED BY <1>3, <1>4, <2>1
<1>6. ASSUME NEW rest \in Seq(Byte), e \o rest \in Buffers
      PROVE  BlockFromBuffer(t, e \o rest) = Read(Dense(b), 4 + l, Allocated(l))
  <2> DEFINE d == e \o rest
             left == b \o rest
  <2>1. d = a \o left /\ left \in Seq(Byte)
    <3>1. (a \o b) \o rest = a \o (b \o rest)
      BY <1>1, <1>3, ConcatThree
    <3>2. b \o rest \in Seq(Byte)
      BY <1>1, ConcatProperties
    <3> QED BY <1>4, <3>1, <3>2
  <2>2. /\ After(d, 4) = left /\ Len(d) = 4 + l + Len(rest) /\ Len(rest) \in Nat
    <3>1. /\ After((a \o b) \o rest, Len(a)) = b \o rest
          /\ Len((a \o b) \o rest) = Len(a) + Len(b) + Len(rest) /\ Len(rest) \in Nat
      BY <1>1, <1>3, CodeHead, ZenonT(60)
    <3> QED BY <1>3, <1>4, <3>1
  <2>3. FromBytes(d) = n
    <3> HIDE DEF left, d
    <3>1. FromBytes(a \o left) = n
      BY <1>2, <2>1, LengthRead DEF a
    <3> QED BY <2>1, <3>1
  <2>4. First(left, l) = b
    BY <1>1, FirstConcat
  <2> HIDE DEF d, left, l
  <2>5. ~(Len(d) < 4 \/ Len(d) - 4 < l)
    <3> DEFINE k == Len(d)
               m == Len(rest)
    <3>1. k = 4 + l + m /\ m \in Nat
      BY <2>2
    <3> HIDE DEF k, m
    <3>2. ~(k < 4 \/ k - 4 < l)
      BY <1>1, <3>1
    <3> QED BY <3>2 DEF k
  <2>6. CellSize(t) * FromBytes(d) = l
    BY <1>2, <2>3 DEF c
  <2>7. BlockFromBuffer(t, d) = Read(Dense(b), 4 + l, Allocated(l))
    BY <2>2, <2>4, <2>5, <2>6 DEF BlockFromBuffer, LengthBytes
  <2> QED BY <2>7 DEF d
<1>7. \A rest \in Seq(Byte) : e \o rest \in Buffers =>
          /\ BlockFromBuffer(t, e \o rest).status = SUCCESS
          /\ BlockFromBuffer(t, e \o rest).readden = Len(e)
          /\ BlockFromBuffer(t, e \o rest).v = Dense(b)
  BY <1>5, <1>6 DEF Read
<1> QED BY <1>1, <1>5, <1>7 DEF b, l

LEMMA BlockCode ==
    ASSUME NEW t \in Types, IsBlockable(t), HasLength(t), NEW iv \in InnerOf[t]
    PROVE  IsInnerCode(t, iv, ToBytes(Len(Block(t, iv)) \div CellSize(t)) \o Block(t, iv))
<1> DEFINE b == Block(t, iv)
           l == Len(b)
           a == ToBytes(l \div CellSize(t))
           e == a \o b
<1>1. /\ e \in Seq(Byte) /\ Len(e) = 4 + l /\ l \in Nat
      /\ \A rest \in Seq(Byte) : e \o rest \in Buffers =>
             /\ BlockFromBuffer(t, e \o rest).status = SUCCESS
             /\ BlockFromBuffer(t, e \o rest).readden = Len(e)
             /\ BlockFromBuffer(t, e \o rest).v = Dense(b)
  BY BlockBack
<1>2. Len(e) \in Nat /\ Len(e) >= 1
  <2> HIDE DEF e, l
  <2> QED BY <1>1
<1>3. Len(a) = 4
  <2>1. CellSize(t) \in {1, 2, 4, 8}
    BY CellSizes
  <2> DEFINE c == CellSize(t)
             k == l \div c
  <2> HIDE DEF l, c
  <2>2. k \in Nat
    BY <1>1, <2>1 DEF c
  <2> HIDE DEF k
  <2>3. Len(ToBytes(k)) = 4
    BY <2>2, ToBytesIs DEF LengthBytes
  <2> QED BY <2>3 DEF k, c
<1>4. Len(e) = InnerSize[t][iv]
  <2>1. InnerSize[t] = InnerSizeOf(InnerSize, t)
    BY InnerSizeUnfold
  <2>2. InnerSizeOf(InnerSize, t)[iv] = 4 + l
    BY DEF InnerSizeOf
  <2> HIDE DEF e
  <2> QED BY <1>1, <2>1, <2>2
<1>5. Writes(InnerToBuffer[t][iv], e)
  <2> SUFFICES ASSUME NEW room \in Nat
               PROVE  IF Len(e) <= room THEN InnerToBuffer[t][iv][room] = Written(e)
                      ELSE InnerToBuffer[t][iv][room].status = BUFFER_TOO_SMALL
    BY DEF Writes
  <2>1. InnerToBuffer[t] = InnerToBufferOf(InnerToBuffer, t)
    BY InnerToBufferUnfold
  <2>2. InnerToBufferOf(InnerToBuffer, t)[iv][room] = BlockToBuffer(t, b, room)
    BY DEF InnerToBufferOf
  <2>3. BlockToBuffer(t, b, room) =
            IF room < Len(a) THEN TooSmall(<<>>)
            ELSE IF Len(a) + l <= room THEN Written(e) ELSE TooSmall(a)
    BY DEF BlockToBuffer, BlockRoom
  <2> HIDE DEF e, a, b, l
  <2>4. room < Len(a) => ~(Len(e) <= room)
    BY <1>1, <1>3
  <2> QED BY <1>1, <1>3, <2>1, <2>2, <2>3, <2>4 DEF TooSmall
<1>6. Dense(b) \in Equals(t, iv)
  BY DenseEquals
<1>7. ReadsBack(InnerFromBuffer[t], e, Equals(t, iv))
  <2> SUFFICES ASSUME NEW rest \in Seq(Byte), e \o rest \in Buffers
               PROVE  LET r == InnerFromBuffer[t][e \o rest]
                      IN  r.status = SUCCESS /\ r.readden = Len(e) /\ r.v \in Equals(t, iv)
    BY DEF ReadsBack
  <2> DEFINE d == e \o rest
             block == BlockFromBuffer(t, d)
  <2>1. block.status = SUCCESS /\ block.readden = Len(e) /\ block.v = Dense(b)
    BY <1>1
  <2>2. InnerFromBuffer[t] = InnerReadOf(InnerFromBuffer, t)
    BY InnerFromBufferUnfold
  <2>3. d \in Seq(Byte)
    BY DEF Buffers, BytesUpTo
  <2>4. InnerReadOf(InnerFromBuffer, t)[d] = NewInner(block, block.v, 0)
    <3> HIDE DEF e, d
    <3> QED BY <2>3 DEF InnerReadOf
  <2> HIDE DEF b, block, e, d
  <2>5. NewInner(block, block.v, 0) = Read(Dense(b), 0 + Len(e), block.blocks + 1)
    BY <2>1 DEF NewInner
  <2>6. 0 + Len(e) = Len(e)
    BY <1>2
  <2> QED BY <1>6, <2>2, <2>4, <2>5, <2>6 DEF Read, d
<1>8. t = STRING_T => ReadsBack(StringFromBuffer, e, Equals(t, iv))
  <2> SUFFICES ASSUME t = STRING_T, NEW rest \in Seq(Byte), e \o rest \in Buffers
               PROVE  LET r == StringFromBuffer[e \o rest]
                      IN  r.status = SUCCESS /\ r.readden = Len(e) /\ r.v \in Equals(t, iv)
    BY DEF ReadsBack
  <2> DEFINE d == e \o rest
  <2>1. d \in Seq(Byte)
    BY DEF Buffers, BytesUpTo
  <2>2. /\ BlockFromBuffer(t, d).status = SUCCESS /\ BlockFromBuffer(t, d).readden = Len(e)
        /\ BlockFromBuffer(t, d).v = Dense(b)
    BY <1>1
  <2> HIDE DEF b, e, d
  <2>3. StringFromBuffer[d] = BlockFromBuffer(t, d)
    BY <2>1 DEF StringFromBuffer
  <2> QED BY <1>6, <2>2, <2>3 DEF d
<1> HIDE DEF e
<1>9. IsInnerCode(t, iv, e)
  BY <1>1, <1>2, <1>4, <1>5, <1>7, <1>8 DEF IsInnerCode
<1> QED BY <1>9 DEF e, a, b, l

(* Structs and arrays of values: the codes of their members, and in front   *)
(* of those of an array their number.                                       *)
MemberCodes(t, iv, es) ==
    \A i \in 1..Len(iv.members) : IsInnerCode(MemberType(t, i), iv.members[i], es[i])

Prefix(t, iv) == IF t.tid = STRUCT_TID THEN <<>> ELSE ToBytes(Len(iv.members))

LEMMA PrefixIs ==
    ASSUME NEW t \in Types, ~IsBlockable(t), NEW iv \in InnerOf[t]
    PROVE  /\ Prefix(t, iv) \in Seq(Byte)
           /\ Len(Prefix(t, iv)) = IF HasLength(t) THEN 4 ELSE 0
<1>1. Len(iv.members) \in Nat
  BY InnerShape DEF AreMembersOf
<1>2. CASE t.tid = STRUCT_TID
  BY <1>2, EmptySeq DEF Prefix, HasLength, STRUCT_TID, STRING_TID, ARRAY_TID
<1>3. CASE t.tid # STRUCT_TID
  <2>1. HasLength(t)
    BY <1>3, ComposedCases DEF HasLength
  <2>2. Prefix(t, iv) = ToBytes(Len(iv.members))
    BY <1>3 DEF Prefix
  <2> QED BY <1>1, <2>1, <2>2, ToBytesIs DEF LengthBytes
<1> QED BY <1>2, <1>3

(* What the codes of members have in common.                                *)
LEMMA MemberParts ==
    ASSUME NEW t \in Types, ~IsBlockable(t), NEW iv \in InnerOf[t],
           NEW es, MemberCodes(t, iv, es), NEW f, IsJoined(f, es, Len(iv.members))
    PROVE  /\ Len(iv.members) \in Nat /\ AreParts(Len(iv.members), es, f)
           /\ f[Len(iv.members)] \in Seq(Byte) /\ Len(f[Len(iv.members)]) \in Nat
           /\ Len(iv.members) <= Len(f[Len(iv.members)])
<1> DEFINE n == Len(iv.members)
<1>1. n \in Nat
  BY InnerShape DEF AreMembersOf
<1>2. \A i \in 1..n : es[i] \in Seq(Byte) /\ Len(es[i]) >= 1
  BY DEF MemberCodes, IsInnerCode
<1>3. IsJoined(f, es, n)
  OBVIOUS
<1> HIDE DEF n
<1>4. AreParts(n, es, f)
  BY <1>1, <1>2, <1>3 DEF AreParts
<1>5. f[n] \in Seq(Byte) /\ Len(f[n]) \in Nat
  <2>1. n \in 0..n
    BY <1>1
  <2> QED BY <1>1, <1>4, <2>1, JoinedTypes
<1>6. n <= Len(f[n])
  BY <1>1, <1>2, <1>4, JoinedCount
<1> QED BY <1>1, <1>4, <1>5, <1>6 DEF n

LEMMA ComposedSize ==
    ASSUME NEW t \in Types, ~IsBlockable(t), NEW iv \in InnerOf[t],
           NEW es, MemberCodes(t, iv, es), NEW f, IsJoined(f, es, Len(iv.members))
    PROVE  InnerSize[t][iv] = Len(Prefix(t, iv)) + Len(f[Len(iv.members)])
<1> DEFINE n == Len(iv.members)
           s == [i \in DOMAIN iv.members |-> InnerSize[MemberType(t, i)][iv.members[i]]]
<1>1. n \in Nat /\ AreParts(n, es, f) /\ DOMAIN iv.members = 1..n
  BY MemberParts, InnerShape DEF AreMembersOf
<1>2. InnerSize[t] = InnerSizeOf(InnerSize, t)
  BY InnerSizeUnfold
<1>3. InnerSizeOf(InnerSize, t)[iv] = (IF HasLength(t) THEN 4 ELSE 0) + Sum(s)
  BY DEF InnerSizeOf
<1>4. DOMAIN s = 1..n /\ s = [i \in DOMAIN s |-> s[i]] /\ \A i \in 1..n : s[i] = Len(es[i])
  BY <1>1 DEF MemberCodes, IsInnerCode
<1> HIDE DEF s, n
<1>5. Len(s) = n
  BY <1>1, <1>4, LenOf
<1>6. Len(f[n]) = Sum(s)
  BY <1>1, <1>4, <1>5, JoinedLength
<1> QED BY <1>2, <1>3, <1>6, PrefixIs DEF n

LEMMA ComposedWrites ==
    ASSUME NEW t \in Types, ~IsBlockable(t), NEW iv \in InnerOf[t],
           NEW es, MemberCodes(t, iv, es), NEW f, IsJoined(f, es, Len(iv.members))
    PROVE  Writes(InnerToBuffer[t][iv], Prefix(t, iv) \o f[Len(iv.members)])
<1> DEFINE n == Len(iv.members)
           a == Prefix(t, iv)
           c == f[n]
           e == a \o c
           ws == [i \in 1..n |-> InnerToBuffer[MemberType(t, i)][iv.members[i]]]
<1>1. n \in Nat /\ AreParts(n, es, f) /\ c \in Seq(Byte) /\ Len(c) \in Nat
  BY MemberParts
<1>2. a \in Seq(Byte) /\ Len(a) = IF HasLength(t) THEN 4 ELSE 0
  BY PrefixIs
<1>3. Len(e) = Len(a) + Len(c)
  <2> HIDE DEF a, c
  <2> QED BY <1>1, <1>2, ConcatProperties
<1>4. Len(ws) = n /\ \A i \in 1..n : Writes(ws[i], es[i])
  <2>1. DOMAIN ws = 1..n /\ ws = [i \in DOMAIN ws |-> ws[i]]
        /\ \A i \in 1..n : Writes(ws[i], es[i])
    BY DEF MemberCodes, IsInnerCode
  <2> HIDE DEF ws, n
  <2> QED BY <1>1, <2>1, LenOf
<1> SUFFICES ASSUME NEW room \in Nat
             PROVE  IF Len(e) <= room THEN InnerToBuffer[t][iv][room] = Written(e)
                    ELSE InnerToBuffer[t][iv][room].status = BUFFER_TOO_SMALL
  BY DEF Writes
<1> DEFINE w == WriteEach(a, ws, room)
<1>5. InnerToBuffer[t] = InnerToBufferOf(InnerToBuffer, t)
  BY InnerToBufferUnfold
<1>6. InnerToBufferOf(InnerToBuffer, t)[iv][room] =
          IF room < Len(a) THEN TooSmall(<<>>) ELSE w
  <2>1. CASE t.tid = STRUCT_TID
    <3>1. Len(a) = 0 /\ a = <<>>
      BY <1>2, <2>1 DEF HasLength, Prefix, STRUCT_TID, STRING_TID, ARRAY_TID
    <3>2. ~(room < Len(a))
      BY <3>1
    <3>3. InnerToBufferOf(InnerToBuffer, t)[iv][room] = WriteEach(<<>>, ws, room)
      BY <2>1 DEF InnerToBufferOf
    <3> HIDE DEF a, ws
    <3> QED BY <3>1, <3>2, <3>3
  <2>2. CASE t.tid # STRUCT_TID
    <3>1. Len(a) = LengthBytes /\ a = ToBytes(n)
      BY <1>2, <2>2, ComposedCases DEF HasLength, Prefix, LengthBytes
    <3>3. InnerToBufferOf(InnerToBuffer, t)[iv][room] =
              IF room < LengthBytes THEN TooSmall(<<>>) ELSE WriteEach(ToBytes(n), ws, room)
      BY <2>2 DEF InnerToBufferOf
    <3> HIDE DEF a, ws
    <3> QED BY <3>1, <3>3
  <2> QED BY <2>1, <2>2
<1>7. Len(a) <= room => IF Len(e) <= room THEN w = Written(e) ELSE w.status = BUFFER_TOO_SMALL
  <2>1. WritesEach(n, es, f, ws)
    <3> HIDE DEF ws, n
    <3> QED BY <1>1, <1>4 DEF WritesEach
  <2> HIDE DEF a, ws, n
  <2> QED BY <1>1, <1>2, <2>1, WriteEachWrites
<1> HIDE DEF a, c, e, w
<1>8. Len(a) \in Nat
  BY <1>2
<1>9. room < Len(a) => ~(Len(e) <= room)
  BY <1>1, <1>3, <1>8
<1>10. ~(room < Len(a)) => Len(a) <= room
  BY <1>8
<1> QED BY <1>5, <1>6, <1>7, <1>9, <1>10 DEF TooSmall

MemberEquals(t, iv) ==
    [i \in 1..Len(iv.members) |-> Equals(MemberType(t, i), iv.members[i])]

LEMMA ItemsBack ==
    ASSUME NEW t \in Types, ~IsBlockable(t), NEW iv \in InnerOf[t],
           NEW es, MemberCodes(t, iv, es), NEW f, IsJoined(f, es, Len(iv.members))
    PROVE  ReadsEachBack(Len(iv.members), es, f, ItemReaders(t, Len(iv.members)), MemberEquals(t, iv))
<1> DEFINE n == Len(iv.members)
           R == ItemReaders(t, n)
           V == MemberEquals(t, iv)
<1>1. n \in Nat /\ AreParts(n, es, f)
  BY MemberParts
<1>2. DOMAIN R = 1..n /\ R = [i \in DOMAIN R |-> R[i]]
  BY DEF ItemReaders
<1>3. Len(R) = n
  <2> HIDE DEF R, n
  <2> QED BY <1>1, <1>2, LenOf
<1>4. ASSUME NEW i \in 1..n PROVE ReadsBack(R[i], es[i], V[i])
  <2> DEFINE m == MemberType(t, i)
             x == iv.members[i]
  <2>1. IsInnerCode(m, x, es[i])
    BY DEF MemberCodes
  <2>2. V[i] = Equals(m, x) /\ R[i] = IF IsStringArray(t) THEN StringFromBuffer ELSE InnerFromBuffer[m]
    BY DEF MemberEquals, ItemReaders
  <2>3. IsStringArray(t) => m = STRING_T
    BY StringArrayCell
  <2> HIDE DEF m, x, V, R
  <2> QED BY <2>1, <2>2, <2>3 DEF IsInnerCode
<1> HIDE DEF n, R, V
<1>5. ReadsEachBack(n, es, f, R, V)
  BY <1>1, <1>3, <1>4 DEF ReadsEachBack
<1> QED BY <1>5 DEF n, R, V

LEMMA ComposedEquals ==
    ASSUME NEW t \in Types, ~IsBlockable(t), NEW iv \in InnerOf[t],
           NEW ms, NEW n \in Nat, n = Len(iv.members), Len(ms) = n, ms = [i \in 1..n |-> ms[i]],
           \A i \in 1..n : ms[i] \in Equals(MemberType(t, i), iv.members[i])
    PROVE  Composed(ms) \in Equals(t, iv)
<1> DEFINE x == Composed(ms)
<1>1. AreMembersOf(iv.members, t)
  BY InnerShape
<1>2. t.tid = STRUCT_TID => n = Len(t.fields)
  BY <1>1 DEF AreMembersOf
<1>3. \A i \in 1..n : ms[i] \in InnerOf[MemberType(t, i)]
                      /\ InnerEquals[MemberType(t, i)][ms[i]][iv.members[i]]
  BY DEF Equals
<1>4. x \in InnerOf[t]
  BY <1>2, <1>3, MakeComposed
<1>5. x.members = ms /\ DOMAIN ms = 1..n
  BY DEF Composed
<1> HIDE DEF x
<1>6. InnerEqualsOf(InnerEquals, t)[x][iv] =
          (/\ Len(x.members) = Len(iv.members)
           /\ \A i \in DOMAIN x.members :
                  InnerEquals[MemberType(t, i)][x.members[i]][iv.members[i]])
  BY <1>4 DEF InnerEqualsOf
<1>7. InnerEqualsOf(InnerEquals, t)[x][iv]
  BY <1>3, <1>5, <1>6
<1>8. InnerEquals[t][x][iv]
  BY <1>7, InnerEqualsUnfold
<1> QED BY <1>4, <1>8 DEF Equals, x

LEMMA AllBackEquals ==
    ASSUME NEW t \in Types, ~IsBlockable(t), NEW iv \in InnerOf[t], NEW r, NEW size,
           AllBack(r, Len(iv.members), Len(iv.members), MemberEquals(t, iv), size)
    PROVE  Composed(r.v) \in Equals(t, iv)
<1> DEFINE n == Len(iv.members)
           V == MemberEquals(t, iv)
           S == UNION {V[i] : i \in 1..n}
           ms == r.v
<1>1. n \in Nat
  BY InnerShape DEF AreMembersOf
<1>2. ms \in Seq(S) /\ Len(ms) = n /\ \A i \in 1..n : ms[i] \in V[i]
  BY DEF AllBack
<1>3. \A i \in 1..n : V[i] = Equals(MemberType(t, i), iv.members[i])
  BY DEF MemberEquals
<1> HIDE DEF S, V, ms
<1>4. ms = [i \in 1..n |-> ms[i]]
  <2>1. DOMAIN ms = 1..Len(ms) /\ ms = [i \in DOMAIN ms |-> ms[i]]
    BY <1>2, LenProperties
  <2> QED BY <1>2, <2>1
<1>5. n = Len(iv.members)
  OBVIOUS
<1> HIDE DEF n
<1>6. Composed(ms) \in Equals(t, iv)
  BY <1>1, <1>2, <1>3, <1>4, <1>5, ComposedEquals
<1> QED BY <1>6 DEF ms

LEMMA StructBack ==
    ASSUME NEW t \in Types, ~IsBlockable(t), t.tid = STRUCT_TID, NEW iv \in InnerOf[t],
           NEW es, MemberCodes(t, iv, es), NEW f, IsJoined(f, es, Len(iv.members)),
           NEW rest \in Seq(Byte), f[Len(iv.members)] \o rest \in Buffers
    PROVE  LET r == InnerFromBuffer[t][f[Len(iv.members)] \o rest]
           IN  /\ r.status = SUCCESS /\ r.readden = Len(f[Len(iv.members)])
               /\ r.v \in Equals(t, iv)
<1> DEFINE n == Len(iv.members)
           c == f[n]
           bytes == c \o rest
           R == ItemReaders(t, n)
           F == ItemFrees(t, n)
           V == MemberEquals(t, iv)
           fields == ReadEach(R, F, bytes)
           r == InnerFromBuffer[t][bytes]
<1>1. /\ n \in Nat /\ n = Len(t.fields) /\ DOMAIN t.fields = 1..n /\ ~IsStringArray(t)
      /\ \A i \in 1..n : MemberType(t, i) = t.fields[i]
  <2>1. AreMembersOf(iv.members, t)
    BY InnerShape
  <2>2. n \in Nat /\ n = Len(t.fields)
    BY <2>1 DEF AreMembersOf
  <2>3. /\ DOMAIN t.fields = 1..Len(t.fields) /\ t.tid # ARRAY_TID
        /\ \A i \in 1..Len(t.fields) : MemberType(t, i) = t.fields[i]
    BY ComposedCases
  <2> QED BY <2>2, <2>3 DEF IsStringArray
<1>2. R = [i \in DOMAIN t.fields |-> InnerFromBuffer[t.fields[i]]]
      /\ F = [i \in DOMAIN t.fields |-> InnerBlocks[t.fields[i]]]
  BY <1>1 DEF ItemReaders, ItemFrees, ItemBlocks
<1>3. r = NewInner(fields, Composed(fields.v), 0)
  <2> DEFINE P == [i \in DOMAIN t.fields |-> InnerFromBuffer[t.fields[i]]]
             Q == [i \in DOMAIN t.fields |-> InnerBlocks[t.fields[i]]]
             these == ReadEach(P, Q, bytes)
  <2>1. bytes \in Seq(Byte) /\ r = InnerReadOf(InnerFromBuffer, t)[bytes]
    BY InnerFromBufferUnfold DEF Buffers, BytesUpTo
  <2>2. r = NewInner(these, Composed(these.v), 0)
    <3> HIDE DEF bytes
    <3> QED BY <2>1 DEF InnerReadOf
  <2>3. these = fields
    BY <1>2
  <2> HIDE DEF these, fields, r
  <2> QED BY <2>2, <2>3
<1>4. ReadsEachBack(n, es, f, R, V)
  BY ItemsBack
<1>5. AllBack(fields, n, n, V, Len(c))
  <2>1. c \o rest \in Buffers
    OBVIOUS
  <2> HIDE DEF R, V, F, n
  <2> QED BY <1>1, <1>4, <2>1, ReadEachBack
<1>6. Composed(fields.v) \in Equals(t, iv)
  <2> HIDE DEF fields
  <2> QED BY <1>5, AllBackEquals
<1>7. Len(c) \in Nat
  BY MemberParts
<1> HIDE DEF r, fields, c
<1>8. fields.status = SUCCESS /\ fields.readden = Len(c) /\ 0 + Len(c) = Len(c)
  BY <1>5, <1>7 DEF AllBack
<1>9. r.status = SUCCESS /\ r.readden = Len(c) /\ r.v = Composed(fields.v)
  BY <1>3, <1>8 DEF NewInner, Read
<1> QED BY <1>6, <1>9 DEF r, c

LEMMA ArrayBack ==
    ASSUME NEW t \in Types, ~IsBlockable(t), t.tid # STRUCT_TID, NEW iv \in InnerOf[t],
           NEW es, MemberCodes(t, iv, es), NEW f, IsJoined(f, es, Len(iv.members)),
           NEW e, e = ToBytes(Len(iv.members)) \o f[Len(iv.members)],
           NEW rest \in Seq(Byte), e \o rest \in Buffers
    PROVE  LET r == InnerFromBuffer[t][e \o rest]
           IN  /\ r.status = SUCCESS /\ r.readden = 4 + Len(f[Len(iv.members)])
               /\ r.v \in Equals(t, iv)
<1> DEFINE n == Len(iv.members)
           a == ToBytes(n)
           c == f[n]
           left == c \o rest
           bytes == e \o rest
           R == ItemReaders(t, n)
           F == ItemFrees(t, n)
           V == MemberEquals(t, iv)
           array == ReadEach(R, F, left)
           r == InnerFromBuffer[t][bytes]
<1>1. n \in Nat /\ c \in Seq(Byte) /\ Len(c) \in Nat /\ n <= Len(c)
  BY MemberParts
<1>2. a \in Seq(Byte) /\ Len(a) = LengthBytes
  <2> HIDE DEF n
  <2> QED BY <1>1, ToBytesIs
<1>3. /\ After(bytes, LengthBytes) = left /\ left \in Buffers /\ bytes = a \o left
      /\ Len(bytes) = LengthBytes + Len(c) + Len(rest) /\ Len(rest) \in Nat
      /\ Len(left) = Len(c) + Len(rest)
  <2> HIDE DEF a, c, n, array, r
  <2>1. e = a \o c
    BY DEF a, c, n
  <2>2. /\ After((a \o c) \o rest, Len(a)) = c \o rest
        /\ Len((a \o c) \o rest) = Len(a) + Len(c) + Len(rest) /\ Len(rest) \in Nat
        /\ (a \o c) \o rest \in Buffers => c \o rest \in Buffers
        /\ Len(c \o rest) = Len(c) + Len(rest)
    BY <1>1, <1>2, CodeHead, ZenonT(60)
  <2>3. (a \o c) \o rest = a \o (c \o rest)
    BY <1>1, <1>2, ConcatThree
  <2> QED BY <1>2, <2>1, <2>2, <2>3
<1>4. bytes \in Seq(Byte) /\ Len(left) <= MaxSize /\ left \in Seq(Byte)
  BY <1>3 DEF Buffers, BytesUpTo
<1>5. n <= MaxSize /\ ~(Len(bytes) < LengthBytes)
  <2> DEFINE p == Len(c)
             q == Len(rest)
             l == Len(bytes)
             m == Len(left)
  <2>1. p \in Nat /\ q \in Nat /\ l = LengthBytes + p + q /\ m = p + q /\ m <= MaxSize /\ n <= p
    BY <1>1, <1>3, <1>4
  <2> HIDE DEF p, q, l, m, n
  <2>2. n \in Nat
    BY <1>1 DEF n
  <2>3. n <= MaxSize /\ ~(l < LengthBytes)
    BY <2>1, <2>2, MaxSizeType DEF LengthBytes
  <2> QED BY <2>3 DEF l
<1>6. FromBytes(bytes) = n
  <2> HIDE DEF left, n
  <2>1. FromBytes(a \o left) = n
    BY <1>1, <1>4, <1>5, LengthRead
  <2> QED BY <1>3, <2>1
<1>7. \A i : MemberType(t, i) = t.cell
  BY ComposedCases
<1>8. R = [i \in 1..n |-> IF IsStringArray(t) THEN StringFromBuffer ELSE InnerFromBuffer[t.cell]]
      /\ F = [i \in 1..n |-> IF IsStringArray(t) THEN StringBlocks ELSE InnerBlocks[t.cell]]
  BY <1>7 DEF ItemReaders, ItemFrees, ItemBlocks
<1>9. r = NewInner(array, Composed(array.v), LengthBytes)
  <2> DEFINE strings == ReadEach([i \in 1..n |-> StringFromBuffer], [i \in 1..n |-> StringBlocks],
                                 left)
             entries == ReadEach([i \in 1..n |-> InnerFromBuffer[t.cell]],
                                 [i \in 1..n |-> InnerBlocks[t.cell]], left)
             these == IF IsStringArray(t) THEN strings ELSE entries
  <2>1. r = InnerReadOf(InnerFromBuffer, t)[bytes]
    BY InnerFromBufferUnfold
  <2>2. r = NewInner(these, Composed(these.v), LengthBytes)
    <3>1. FromBytes(bytes) = n /\ After(bytes, LengthBytes) = left
      BY <1>3, <1>6
    <3> HIDE DEF bytes, left, n
    <3> QED BY <1>4, <1>5, <2>1, <3>1 DEF InnerReadOf
  <2>3. these = array
    <3>1. CASE IsStringArray(t)
      <4>1. R = [i \in 1..n |-> StringFromBuffer] /\ F = [i \in 1..n |-> StringBlocks]
        BY <1>8, <3>1
      <4> QED BY <3>1, <4>1
    <3>2. CASE ~IsStringArray(t)
      <4>1. R = [i \in 1..n |-> InnerFromBuffer[t.cell]] /\ F = [i \in 1..n |-> InnerBlocks[t.cell]]
        BY <1>8, <3>2
      <4> QED BY <3>2, <4>1
    <3> QED BY <3>1, <3>2
  <2> HIDE DEF these, array, r
  <2> QED BY <2>2, <2>3
<1>10. ReadsEachBack(n, es, f, R, V)
  BY ItemsBack
<1>11. AllBack(array, n, n, V, Len(c))
  <2> HIDE DEF R, V, F, n
  <2> QED BY <1>1, <1>3, <1>10, ReadEachBack
<1>12. Composed(array.v) \in Equals(t, iv)
  <2> HIDE DEF array
  <2> QED BY <1>11, AllBackEquals
<1> HIDE DEF r, array, c
<1>13. array.status = SUCCESS /\ array.readden = Len(c)
  BY <1>11 DEF AllBack
<1>14. r.status = SUCCESS /\ r.readden = LengthBytes + Len(c) /\ r.v = Composed(array.v)
  BY <1>9, <1>13 DEF NewInner, Read
<1> QED BY <1>12, <1>14 DEF r, c, LengthBytes

LEMMA ComposedCode ==
    ASSUME NEW t \in Types, ~IsBlockable(t), NEW iv \in InnerOf[t],
           NEW es, MemberCodes(t, iv, es), NEW f, IsJoined(f, es, Len(iv.members))
    PROVE  IsInnerCode(t, iv, Prefix(t, iv) \o f[Len(iv.members)])
<1> DEFINE n == Len(iv.members)
           a == Prefix(t, iv)
           c == f[n]
           e == a \o c
<1>1. n \in Nat /\ c \in Seq(Byte) /\ Len(c) \in Nat /\ n <= Len(c)
  BY MemberParts
<1>2. a \in Seq(Byte) /\ Len(a) = IF HasLength(t) THEN 4 ELSE 0
  BY PrefixIs
<1>3. e \in Seq(Byte) /\ Len(e) = Len(a) + Len(c)
  <2> HIDE DEF a, c
  <2> QED BY <1>1, <1>2, ConcatProperties
<1>4. Len(e) = InnerSize[t][iv]
  <2>1. InnerSize[t][iv] = Len(a) + Len(c)
    BY ComposedSize
  <2> HIDE DEF e, a, c
  <2> QED BY <1>3, <2>1
<1>5. Writes(InnerToBuffer[t][iv], e)
  BY ComposedWrites
<1>6. t # STRING_T
  BY StringType
<1>7. CASE t.tid = STRUCT_TID
  <2>1. a = <<>> /\ e = c
    <3>1. a = <<>>
      BY <1>7 DEF Prefix
    <3> HIDE DEF a, c
    <3> QED BY <1>1, <3>1, ConcatEmptySeq
  <2>2. ReadsBack(InnerFromBuffer[t], c, Equals(t, iv))
    <3> SUFFICES ASSUME NEW rest \in Seq(Byte), c \o rest \in Buffers
                 PROVE  LET r == InnerFromBuffer[t][c \o rest]
                        IN  r.status = SUCCESS /\ r.readden = Len(c) /\ r.v \in Equals(t, iv)
      BY DEF ReadsBack
    <3> QED BY <1>7, StructBack
  <2>3. Len(c) >= 1
    <3>1. n = Len(t.fields) /\ Len(t.fields) >= 1
      <4>1. AreMembersOf(iv.members, t) /\ Len(t.fields) \in 1..MaxFields
        BY <1>7, InnerShape, ComposedCases
      <4>2. Len(t.fields) >= 1
        BY <4>1, Bounds
      <4> QED BY <1>7, <4>1, <4>2 DEF AreMembersOf
    <3> HIDE DEF n, c
    <3> QED BY <1>1, <3>1
  <2> HIDE DEF e, c, a
  <2>4. IsInnerCode(t, iv, e)
    BY <1>1, <1>4, <1>5, <1>6, <2>1, <2>2, <2>3 DEF IsInnerCode
  <2> QED BY <2>4 DEF e, c, a
<1>8. CASE t.tid # STRUCT_TID
  <2>1. a = ToBytes(n)
    BY <1>8 DEF Prefix
  <2>2. Len(a) = 4
    BY <1>1, <2>1, ToBytesIs DEF LengthBytes
  <2>3. ReadsBack(InnerFromBuffer[t], e, Equals(t, iv))
    <3> SUFFICES ASSUME NEW rest \in Seq(Byte), e \o rest \in Buffers
                 PROVE  LET r == InnerFromBuffer[t][e \o rest]
                        IN  r.status = SUCCESS /\ r.readden = Len(e) /\ r.v \in Equals(t, iv)
      BY DEF ReadsBack
    <3>1. e = ToBytes(Len(iv.members)) \o f[Len(iv.members)]
      BY <2>1
    <3> DEFINE r == InnerFromBuffer[t][e \o rest]
    <3>2. e \o rest \in Buffers
      OBVIOUS
    <3> HIDE DEF e
    <3>3. r.status = SUCCESS /\ r.readden = 4 + Len(c) /\ r.v \in Equals(t, iv)
      BY <1>8, <3>1, <3>2, ArrayBack
    <3> HIDE DEF a, c, r
    <3>4. r.readden = Len(e)
      BY <1>3, <2>2, <3>3
    <3> QED BY <3>3, <3>4 DEF r
  <2> HIDE DEF e, c, a
  <2>4. Len(e) \in Nat /\ Len(e) >= 1
    BY <1>1, <1>3, <2>2
  <2>5. IsInnerCode(t, iv, e)
    BY <1>3, <1>4, <1>5, <1>6, <2>3, <2>4 DEF IsInnerCode
  <2> QED BY <2>5 DEF e, c, a
<1> QED BY <1>7, <1>8

(* Every value has a code.                                                  *)
LEMMA InnerCodes ==
    \A t \in Types : \A iv \in InnerOf[t] : \E e : IsInnerCode(t, iv, e)
<1> DEFINE G == {t \in Types : \A iv \in InnerOf[t] : \E e : IsInnerCode(t, iv, e)}
<1>1. ASSUME NEW t \in Types, Members(t) \subseteq G, NEW iv \in InnerOf[t]
      PROVE  \E e : IsInnerCode(t, iv, e)
  <2>1. CASE IsBlockable(t) /\ ~HasLength(t)
    BY <2>1, NumberCode
  <2>2. CASE IsBlockable(t) /\ HasLength(t)
    BY <2>2, BlockCode
  <2>3. CASE ~IsBlockable(t)
    <3> DEFINE n == Len(iv.members)
               es == [i \in 1..n |-> CHOOSE e : IsInnerCode(MemberType(t, i), iv.members[i], e)]
    <3>1. n \in Nat /\ \A i \in 1..n : /\ MemberType(t, i) \in G
                                      /\ iv.members[i] \in InnerOf[MemberType(t, i)]
      BY <1>1, <2>3, InnerShape DEF AreMembersOf
    <3>2. \A i \in 1..n : IsInnerCode(MemberType(t, i), iv.members[i], es[i])
      BY <3>1
    <3>3. MemberCodes(t, iv, es)
      <4> HIDE DEF es
      <4> QED BY <3>2 DEF MemberCodes
    <3> HIDE DEF es
    <3>4. PICK f : IsJoined(f, es, n)
      <4> HIDE DEF n
      <4> QED BY <3>1, JoinedIs
    <3>5. IsInnerCode(t, iv, Prefix(t, iv) \o f[n])
      BY <2>3, <3>3, <3>4, ComposedCode
    <3> QED BY <3>5
  <2> QED BY <2>1, <2>2, <2>3
<1>2. Types \subseteq G
  <2>1. ASSUME NEW t \in Types, Members(t) \subseteq G PROVE t \in G
    <3>1. \A iv \in InnerOf[t] : \E e : IsInnerCode(t, iv, e)
      <4> HIDE DEF G
      <4> QED BY <1>1, <2>1
    <3> QED BY <3>1
  <2> HIDE DEF G
  <2> QED BY <2>1, TypeInduction
<1> QED BY <1>2

(* The code of a value with its type in front.                              *)
Alike(v) == {u \in [type : {v.type}, iv : InnerOf[v.type]] : ValueEquals(u, v)}
ValueWriter(v) == [room \in Int |-> ValueToBuffer(v, room)]
ValueReader == [bytes \in Seq(Byte) |-> ValueFromBuffer(bytes)]

IsValueCode(v, e) ==
    /\ e \in Seq(Byte) /\ Len(e) \in Nat /\ Len(e) >= 1 /\ Len(e) = ValueSize(v)
    /\ Writes(ValueWriter(v), e)
    /\ ReadsBack(ValueReader, e, Alike(v))

LEMMA WriteTwo ==
    ASSUME NEW start \in Seq(Byte), NEW room \in Nat, Len(start) <= room,
           NEW e1 \in Seq(Byte), NEW e2 \in Seq(Byte), NEW w1, NEW w2,
           Writes(w1, e1), Writes(w2, e2)
    PROVE  IF Len(start \o (e1 \o e2)) <= room
           THEN WriteEach(start, <<w1, w2>>, room) = Written(start \o (e1 \o e2))
           ELSE WriteEach(start, <<w1, w2>>, room).status = BUFFER_TOO_SMALL
<1> DEFINE es == <<e1, e2>>
           ws == <<w1, w2>>
           n == 2
<1>1. PICK f : IsJoined(f, es, n)
  BY JoinedIs
<1>2. f[n] = e1 \o e2
  <2>0. es[1] = e1 /\ es[2] = e2
    OBVIOUS
  <2>1. f[0] = <<>> /\ f[1] = f[0] \o es[1] /\ f[2] = f[1] \o es[2]
    <3> HIDE DEF es
    <3>1. f[0] = <<>> /\ \A i \in 1..2 : f[i] = f[i - 1] \o es[i]
      BY <1>1 DEF IsJoined
    <3>2. 1 \in 1..2 /\ 2 \in 1..2 /\ 1 - 1 = 0 /\ 2 - 1 = 1
      OBVIOUS
    <3>3. f[1] = f[1 - 1] \o es[1] /\ f[2] = f[2 - 1] \o es[2]
      BY <3>1, <3>2
    <3> QED BY <3>1, <3>2, <3>3
  <2>2. f[1] = <<>> \o e1 /\ f[2] = f[1] \o e2
    BY <2>0, <2>1
  <2>3. <<>> \o e1 = e1
    BY ConcatEmptySeq
  <2> QED BY <2>2, <2>3
<1>3. /\ Len(ws) = n /\ (\A i \in 1..n : es[i] \in Seq(Byte))
      /\ (\A i \in 1..n : Writes(ws[i], es[i])) /\ n \in Nat
  <2>1. \A i \in 1..2 : i = 1 \/ i = 2
    OBVIOUS
  <2>2. es[1] = e1 /\ es[2] = e2 /\ ws[1] = w1 /\ ws[2] = w2 /\ Len(ws) = 2
    OBVIOUS
  <2> HIDE DEF es, ws
  <2> QED BY <2>1, <2>2
<1> HIDE DEF es, ws, n
<1>4. WritesEach(n, es, f, ws)
  BY <1>1, <1>3 DEF WritesEach, AreParts
<1>5. n \in Nat
  BY <1>3
<1>6. IF Len(start \o f[n]) <= room THEN WriteEach(start, ws, room) = Written(start \o f[n])
      ELSE WriteEach(start, ws, room).status = BUFFER_TOO_SMALL
  BY <1>4, <1>5, WriteEachWrites
<1> QED BY <1>2, <1>6 DEF ws

LEMMA ValueCode ==
    ASSUME NEW v, IsValue(v), NEW a, IsTypeCode(v.type, a), NEW b, IsInnerCode(v.type, v.iv, b)
    PROVE  IsValueCode(v, a \o b)
<1> DEFINE t == v.type
           iv == v.iv
<1>1. t \in Types /\ iv \in InnerOf[t]
  BY DEF IsValue
<1>2. IsTypeCode(t, a)
  OBVIOUS
<1>3. IsInnerCode(t, iv, b)
  OBVIOUS
<1> HIDE DEF t, iv
<1>4. /\ a \in Seq(Byte) /\ Len(a) \in Nat /\ Len(a) >= 1 /\ Len(a) = TypeSize[t]
      /\ Writes(TypeToBuffer[t], a) /\ ReadsBack(TypeFromBuffer, a, {t})
  BY <1>2 DEF IsTypeCode
<1>5. /\ b \in Seq(Byte) /\ Len(b) \in Nat /\ Len(b) >= 1 /\ Len(b) = InnerSize[t][iv]
      /\ Writes(InnerToBuffer[t][iv], b) /\ ReadsBack(InnerFromBuffer[t], b, Equals(t, iv))
  BY <1>3 DEF IsInnerCode
<1> DEFINE e == a \o b
<1>6. e \in Seq(Byte) /\ Len(e) = Len(a) + Len(b)
  BY <1>4, <1>5, ConcatProperties
<1> HIDE DEF e
<1>7. Len(e) \in Nat /\ Len(e) >= 1
  BY <1>4, <1>5, <1>6
<1>8. Len(e) = ValueSize(v)
  BY <1>4, <1>5, <1>6 DEF ValueSize, t, iv
<1>9. Writes(ValueWriter(v), e)
  <2> SUFFICES ASSUME NEW room \in Nat
               PROVE  IF Len(e) <= room THEN ValueWriter(v)[room] = Written(e)
                      ELSE ValueWriter(v)[room].status = BUFFER_TOO_SMALL
    BY DEF Writes
  <2> DEFINE w == WriteEach(<<>>, <<TypeToBuffer[t], InnerToBuffer[t][iv]>>, room)
  <2>1. ValueWriter(v)[room] = w
    <3>1. room \in Int
      OBVIOUS
    <3> QED BY <3>1 DEF ValueWriter, ValueToBuffer, t, iv
  <2>2. <<>> \in Seq(Byte) /\ Len(<<>>) <= room /\ <<>> \o (a \o b) = e
    BY <1>6, EmptySeq, ConcatEmptySeq DEF e
  <2>3. IF Len(<<>> \o (a \o b)) <= room THEN w = Written(<<>> \o (a \o b))
        ELSE w.status = BUFFER_TOO_SMALL
    <3> DEFINE start == <<>>
               w1 == TypeToBuffer[t]
               w2 == InnerToBuffer[t][iv]
    <3>1. start \in Seq(Byte) /\ Len(start) <= room
      BY <2>2
    <3>2. a \in Seq(Byte) /\ b \in Seq(Byte)
      BY <1>4, <1>5
    <3>3. Writes(w1, a) /\ Writes(w2, b)
      BY <1>4, <1>5
    <3> HIDE DEF start, w1, w2
    <3>4. IF Len(start \o (a \o b)) <= room
          THEN WriteEach(start, <<w1, w2>>, room) = Written(start \o (a \o b))
          ELSE WriteEach(start, <<w1, w2>>, room).status = BUFFER_TOO_SMALL
      BY <3>1, <3>2, <3>3, WriteTwo
    <3> QED BY <3>4 DEF start, w1, w2
  <2> HIDE DEF w
  <2> QED BY <2>1, <2>2, <2>3
<1>10. ReadsBack(ValueReader, e, Alike(v))
  <2> SUFFICES ASSUME NEW rest \in Seq(Byte), e \o rest \in Buffers
               PROVE  LET r == ValueReader[e \o rest]
                      IN  r.status = SUCCESS /\ r.readden = Len(e) /\ r.v \in Alike(v)
    BY DEF ReadsBack
  <2> DEFINE bytes == e \o rest
             left == b \o rest
             tr == TypeFromBuffer[bytes]
             ir == InnerFromBuffer[t][left]
             u == [type |-> t, iv |-> ir.v]
  <2>1. /\ After(bytes, Len(a)) = left /\ left \in Buffers /\ bytes = a \o left
        /\ left \in Seq(Byte)
    <3>0. a \in Seq(Byte) /\ b \in Seq(Byte)
      BY <1>4, <1>5
    <3>1. /\ After((a \o b) \o rest, Len(a)) = b \o rest /\ b \o rest \in Seq(Byte)
          /\ (a \o b) \o rest \in Buffers => b \o rest \in Buffers
      BY <3>0, CodeHead
    <3>2. (a \o b) \o rest = a \o (b \o rest)
      BY <1>4, <1>5, ConcatThree
    <3> QED BY <3>1, <3>2 DEF e
  <2>2. tr.status = SUCCESS /\ tr.readden = Len(a) /\ tr.v = t
    <3>1. a \o left \in Buffers
      BY <2>1
    <3> HIDE DEF left
    <3>2. TypeFromBuffer[a \o left].status = SUCCESS /\ TypeFromBuffer[a \o left].readden = Len(a)
          /\ TypeFromBuffer[a \o left].v \in {t}
      BY <1>4, <2>1, <3>1 DEF ReadsBack
    <3> QED BY <2>1, <3>2
  <2>3. ir.status = SUCCESS /\ ir.readden = Len(b) /\ ir.v \in Equals(t, iv)
    BY <1>5, <2>1 DEF ReadsBack
  <2>4. bytes \in Seq(Byte)
    BY DEF Buffers, BytesUpTo
  <2>5. ValueReader[bytes] = ValueFromBuffer(bytes)
    <3> HIDE DEF bytes
    <3> QED BY <2>4 DEF ValueReader
  <2>6. ValueFromBuffer(bytes) = Read(u, Len(a) + Len(b), tr.blocks + ir.blocks + 1)
    <3>1. InnerFromBuffer[tr.v][After(bytes, tr.readden)] = ir
      BY <2>1, <2>2
    <3> HIDE DEF bytes, left, ir
    <3> QED BY <2>2, <2>3, <3>1 DEF ValueFromBuffer
  <2> HIDE DEF bytes, left, tr, ir
  <2>7. u \in Alike(v)
    <3>1. ir.v \in InnerOf[t] /\ InnerEquals[t][ir.v][iv]
      BY <2>3 DEF Equals
    <3> QED BY <3>1 DEF Alike, ValueEquals, TypeEquals, t, iv
  <2> QED BY <1>6, <2>5, <2>6, <2>7 DEF Read, bytes
<1>11. IsValueCode(v, e)
  BY <1>6, <1>7, <1>8, <1>9, <1>10 DEF IsValueCode
<1> QED BY <1>11 DEF e

LEMMA ValueCodes == \A v : IsValue(v) => \E e : IsValueCode(v, e)
<1> SUFFICES ASSUME NEW v, IsValue(v) PROVE \E e : IsValueCode(v, e)
  OBVIOUS
<1>1. v.type \in Types /\ v.iv \in InnerOf[v.type]
  BY DEF IsValue
<1>2. PICK a : IsTypeCode(v.type, a)
  BY <1>1, TypeCodes
<1>3. PICK b : IsInnerCode(v.type, v.iv, b)
  BY <1>1, InnerCodes
<1> QED BY <1>2, <1>3, ValueCode

(* serial_value.c writes and reads back: a value is written if there is     *)
(* room for as many bytes as the grammar of serial_type.h:8-22 gives it,    *)
(* and refused if there is not; and whatever follows them in a buffer, the  *)
(* bytes are read as a value that equals it, and no byte more is used.      *)
THEOREM ValueReadsBack ==
    ASSUME NEW v, IsValue(v), NEW room \in Nat
    PROVE  LET w == ValueToBuffer(v, room)
           IN IF ValueSize(v) <= room
              THEN /\ w.status = SUCCESS /\ w.out \in Seq(Byte) /\ Len(w.out) = ValueSize(v)
                   /\ \A rest \in Seq(Byte) : w.out \o rest \in Buffers =>
                        LET r == ValueFromBuffer(w.out \o rest)
                        IN r.status = SUCCESS /\ r.readden = Len(w.out)
                           /\ IsValue(r.v) /\ ValueEquals(r.v, v)
              ELSE w.status = BUFFER_TOO_SMALL
<1> DEFINE w == ValueToBuffer(v, room)
<1>1. PICK e : IsValueCode(v, e)
  BY ValueCodes
<1>2. e \in Seq(Byte) /\ Len(e) = ValueSize(v)
  BY <1>1 DEF IsValueCode
<1>3. IF ValueSize(v) <= room THEN w = Written(e) ELSE w.status = BUFFER_TOO_SMALL
  <2>1. room \in Int
    OBVIOUS
  <2>2. ValueWriter(v)[room] = w
    BY <2>1 DEF ValueWriter
  <2> HIDE DEF w
  <2> QED BY <1>1, <1>2, <2>2 DEF IsValueCode, Writes
<1>4. ASSUME NEW rest \in Seq(Byte), e \o rest \in Buffers
      PROVE  LET r == ValueFromBuffer(e \o rest)
             IN r.status = SUCCESS /\ r.readden = Len(e) /\ IsValue(r.v) /\ ValueEquals(r.v, v)
  <2> DEFINE bytes == e \o rest
             r == ValueFromBuffer(bytes)
  <2>1. bytes \in Seq(Byte)
    BY <1>4 DEF Buffers, BytesUpTo
  <2>2. ValueReader[bytes] = r
    <3> HIDE DEF bytes
    <3> QED BY <2>1 DEF ValueReader
  <2> HIDE DEF r
  <2>3. r.status = SUCCESS /\ r.readden = Len(e) /\ r.v \in Alike(v)
    BY <1>1, <1>4, <2>2 DEF IsValueCode, ReadsBack
  <2>4. IsValue(r.v) /\ ValueEquals(r.v, v)
    BY <2>3 DEF Alike, IsValue
  <2> QED BY <2>3, <2>4 DEF r
<1> HIDE DEF w
<1>5. CASE ValueSize(v) <= room
  <2>1. w.status = SUCCESS /\ w.out = e
    BY <1>3, <1>5 DEF Written
  <2> QED BY <1>2, <1>4, <1>5, <2>1 DEF w
<1>6. CASE ~(ValueSize(v) <= room)
  BY <1>3, <1>6 DEF w
<1> QED BY <1>5, <1>6

-----------------------------------------------------------------------------
(* A request and a response are pairs.                                      *)
IsPairType(t, u1, u2) ==
    /\ t \in Types /\ ~IsBlockable(t) /\ t.tid = STRUCT_TID
    /\ u1 \in Types /\ u2 \in Types /\ t.fields = <<u1, u2>>

Pair(x, y) == Composed(<<x, y>>)

LEMMA PairIs ==
    ASSUME NEW t, NEW u1, NEW u2, IsPairType(t, u1, u2), NEW x \in InnerOf[u1], NEW y \in InnerOf[u2]
    PROVE  /\ Pair(x, y) \in InnerOf[t] /\ Len(Pair(x, y).members) = 2
           /\ Pair(x, y).members[1] = x /\ Pair(x, y).members[2] = y
           /\ MemberType(t, 1) = u1 /\ MemberType(t, 2) = u2
<1> DEFINE ms == <<x, y>>
           n == 2
<1>1. t \in Types /\ ~IsBlockable(t) /\ t.tid = STRUCT_TID /\ t.fields = <<u1, u2>>
  BY DEF IsPairType
<1>2. Len(ms) = n /\ ms = [i \in 1..n |-> ms[i]] /\ ms[1] = x /\ ms[2] = y /\ n \in Nat
  OBVIOUS
<1>3. Len(t.fields) = n /\ MemberType(t, 1) = u1 /\ MemberType(t, 2) = u2
  BY <1>1 DEF MemberType
<1>4. \A i \in 1..n : i = 1 \/ i = 2
  OBVIOUS
<1>5. Composed(ms).members = ms
  BY DEF Composed
<1> HIDE DEF ms, n
<1>6. \A i \in 1..n : ms[i] \in InnerOf[MemberType(t, i)]
  BY <1>2, <1>3, <1>4
<1>7. Composed(ms) \in InnerOf[t]
  BY <1>1, <1>2, <1>3, <1>6, MakeComposed
<1> QED BY <1>2, <1>3, <1>5, <1>7 DEF ms, n, Pair

LEMMA PairCode ==
    ASSUME NEW t, NEW u1, NEW u2, IsPairType(t, u1, u2), NEW x \in InnerOf[u1], NEW y \in InnerOf[u2],
           NEW a, IsInnerCode(u1, x, a), NEW b, IsInnerCode(u2, y, b)
    PROVE  IsInnerCode(t, Pair(x, y), a \o b)
<1> DEFINE iv == Pair(x, y)
           es == <<a, b>>
           n == Len(iv.members)
<1>1. t \in Types /\ ~IsBlockable(t) /\ t.tid = STRUCT_TID
  BY DEF IsPairType
<1>2. /\ iv \in InnerOf[t] /\ n = 2 /\ iv.members[1] = x /\ iv.members[2] = y
      /\ MemberType(t, 1) = u1 /\ MemberType(t, 2) = u2
  BY PairIs
<1>3. es[1] = a /\ es[2] = b
  OBVIOUS
<1>4. PICK f : IsJoined(f, es, n)
  BY <1>2, JoinedIs
<1> HIDE DEF es, iv, n
<1>5. MemberCodes(t, iv, es)
  <2>1. \A i \in 1..2 : i = 1 \/ i = 2
    OBVIOUS
  <2> QED BY <1>2, <1>3, <2>1 DEF MemberCodes, n
<1>6. IsInnerCode(t, iv, Prefix(t, iv) \o f[n])
  BY <1>1, <1>2, <1>4, <1>5, ComposedCode DEF n
<1>7. Prefix(t, iv) = <<>>
  BY <1>1 DEF Prefix
<1>8. a \in Seq(Byte) /\ b \in Seq(Byte)
  BY DEF IsInnerCode
<1>9. f[n] = a \o b
  <2>1. f[0] = <<>> /\ \A i \in 1..n : f[i] = f[i - 1] \o es[i]
    BY <1>4 DEF IsJoined
  <2>2. 1 \in 1..n /\ 2 \in 1..n /\ 1 - 1 = 0 /\ 2 - 1 = 1
    BY <1>2
  <2>3. f[1] = f[1 - 1] \o es[1] /\ f[2] = f[2 - 1] \o es[2]
    BY <2>1, <2>2
  <2>4. f[1] = <<>> \o a /\ f[2] = f[1] \o b
    BY <1>3, <2>1, <2>2, <2>3
  <2>5. <<>> \o a = a
    BY <1>8, ConcatEmptySeq
  <2> QED BY <1>2, <2>4, <2>5
<1>10. a \o b \in Seq(Byte)
  BY <1>8, ConcatProperties
<1> DEFINE c == a \o b
<1>11. <<>> \o c = c
  BY <1>10, ConcatEmptySeq
<1> QED BY <1>6, <1>7, <1>9, <1>11 DEF iv

LEMMA PairEquals ==
    ASSUME NEW t, NEW u1, NEW u2, IsPairType(t, u1, u2), NEW x \in InnerOf[u1], NEW y \in InnerOf[u2],
           NEW iv \in Equals(t, Pair(x, y))
    PROVE  iv.members[1] \in Equals(u1, x) /\ iv.members[2] \in Equals(u2, y)
<1> DEFINE p == Pair(x, y)
<1>1. t \in Types /\ ~IsBlockable(t) /\ t.tid = STRUCT_TID /\ t.fields = <<u1, u2>>
  BY DEF IsPairType
<1>2. /\ p \in InnerOf[t] /\ p.members[1] = x /\ p.members[2] = y
      /\ MemberType(t, 1) = u1 /\ MemberType(t, 2) = u2
  BY PairIs
<1> HIDE DEF p
<1>3. iv \in InnerOf[t] /\ InnerEquals[t][iv][p]
  BY DEF Equals, p
<1>4. AreMembersOf(iv.members, t)
  BY <1>1, <1>3, InnerShape
<1>5. Len(iv.members) = 2 /\ DOMAIN iv.members = 1..2
  <2>1. Len(t.fields) = 2
    BY <1>1
  <2> QED BY <1>1, <1>4, <2>1 DEF AreMembersOf
<1>6. \A i \in 1..2 : InnerEquals[MemberType(t, i)][iv.members[i]][p.members[i]]
  <2>1. InnerEquals[t][iv][p] = InnerEqualsOf(InnerEquals, t)[iv][p]
    BY <1>1, InnerEqualsUnfold
  <2> QED BY <1>1, <1>2, <1>3, <1>5, <2>1 DEF InnerEqualsOf
<1>7. 1 \in 1..2 /\ 2 \in 1..2
  OBVIOUS
<1>8. InnerEquals[u1][iv.members[1]][x] /\ InnerEquals[u2][iv.members[2]][y]
  BY <1>2, <1>6, <1>7
<1>9. iv.members[1] \in InnerOf[u1] /\ iv.members[2] \in InnerOf[u2]
  BY <1>1, <1>3, PairMembers DEF IsPairOf
<1> QED BY <1>8, <1>9 DEF Equals

LEMMA BlockEquals ==
    ASSUME NEW t \in Types, IsBlockable(t), NEW x \in InnerOf[t], NEW iv \in Equals(t, x)
    PROVE  Block(t, iv) = Block(t, x)
<1>1. iv \in InnerOf[t] /\ InnerEquals[t][iv][x]
  BY DEF Equals
<1>2. InnerEquals[t][iv][x] = InnerEqualsOf(InnerEquals, t)[iv][x]
  BY InnerEqualsUnfold
<1> QED BY <1>1, <1>2 DEF InnerEqualsOf

LEMMA MessagePairs ==
    ASSUME MaxSize >= ErrorSize
    PROVE  IsPairType(ReqType, STRING_T, ARRAY_AB) /\ IsPairType(RespType, BYTE_T, ARRAY_B)
BY MessageTypes, MessageKinds, StringType DEF IsPairType

-----------------------------------------------------------------------------
(* The response: a status, and the bytes of a value or none.                *)
RespValue(status, bytes) ==
    [type |-> RespType, iv |-> Pair(Dense(<<status>>), Dense(bytes))]

LEMMA BytesAre ==
    ASSUME MaxSize >= ErrorSize, NEW bytes \in Buffers
    PROVE  Dense(bytes) \in InnerOf[ARRAY_B] /\ Block(ARRAY_B, Dense(bytes)) = bytes
<1>1. bytes \in Seq(Byte) /\ Len(bytes) \in Nat /\ Len(bytes) <= MaxSize
  BY LenProperties DEF Buffers, BytesUpTo
<1>2. Len(bytes) % 1 = 0 /\ Len(bytes) \in 0..MaxSize
  <2> DEFINE l == Len(bytes)
  <2>1. l \in Nat /\ l <= MaxSize
    BY <1>1
  <2> HIDE DEF l
  <2>2. l % 1 = 0 /\ l \in 0..MaxSize
    BY <2>1, MaxSizeType
  <2> QED BY <2>2 DEF l
<1>3. IsBlockOf(bytes, ARRAY_B)
  <2>1. ARRAY_B.tid # STRING_TID
    BY MessageKinds DEF ARRAY_TID, STRING_TID
  <2> QED BY <1>1, <1>2, <2>1, MessageKinds DEF IsBlockOf
<1>4. Dense(bytes) \in InnerOf[ARRAY_B]
  BY <1>3, MessageTypes, MessageKinds, MakeDense
<1>5. Block(ARRAY_B, Dense(bytes)) = bytes
  BY MessageKinds DEF Block, Dense, ARRAY_TID, STRING_TID
<1> QED BY <1>4, <1>5

LEMMA BytesCode ==
    ASSUME MaxSize >= ErrorSize, NEW bytes \in Buffers
    PROVE  IsInnerCode(ARRAY_B, Dense(bytes), ToBytes(Len(bytes)) \o bytes)
<1> DEFINE x == Dense(bytes)
<1>1. x \in InnerOf[ARRAY_B] /\ Block(ARRAY_B, x) = bytes
  BY BytesAre
<1> HIDE DEF x
<1>2. IsInnerCode(ARRAY_B, x, ToBytes(Len(Block(ARRAY_B, x)) \div CellSize(ARRAY_B)) \o Block(ARRAY_B, x))
  BY <1>1, MessageTypes, MessageKinds, BlockCode
<1>3. Len(bytes) \div 1 = Len(bytes)
  <2> DEFINE l == Len(bytes)
  <2>1. l \in Nat
    BY LenProperties DEF Buffers, BytesUpTo
  <2> HIDE DEF l
  <2>2. l \div 1 = l
    BY <2>1
  <2> QED BY <2>2 DEF l
<1>4. IsInnerCode(ARRAY_B, x, ToBytes(Len(bytes)) \o bytes)
  BY <1>1, <1>2, <1>3, MessageKinds
<1> QED BY <1>4 DEF x

LEMMA StatusIs ==
    ASSUME MaxSize >= ErrorSize, NEW status \in Byte
    PROVE  Dense(<<status>>) \in InnerOf[BYTE_T] /\ Block(BYTE_T, Dense(<<status>>)) = <<status>>
<1>1. Dense(<<status>>) \in InnerOf[BYTE_T]
  BY ErrorInnersAre
<1> QED BY <1>1, MessageKinds DEF Block, Dense, STRING_TID

LEMMA RespIs ==
    ASSUME MaxSize >= ErrorSize, NEW status \in Byte, NEW bytes \in Buffers
    PROVE  IsValue(RespValue(status, bytes))
<1>1. Pair(Dense(<<status>>), Dense(bytes)) \in InnerOf[RespType]
  BY MessagePairs, StatusIs, BytesAre, PairIs
<1> QED BY <1>1, MessageTypes DEF IsValue, RespValue

LEMMA RespCode ==
    ASSUME MaxSize >= ErrorSize, NEW status \in Byte, NEW bytes \in Buffers,
           NEW a, IsTypeCode(RespType, a)
    PROVE  IsValueCode(RespValue(status, bytes), a \o (<<status>> \o (ToBytes(Len(bytes)) \o bytes)))
<1> DEFINE x == Dense(<<status>>)
           y == Dense(bytes)
           b == ToBytes(Len(bytes)) \o bytes
           v == RespValue(status, bytes)
<1>1. x \in InnerOf[BYTE_T] /\ Block(BYTE_T, x) = <<status>>
  BY StatusIs
<1>2. y \in InnerOf[ARRAY_B] /\ IsInnerCode(ARRAY_B, y, b)
  BY BytesAre, BytesCode
<1>3. v.type = RespType /\ v.iv = Pair(x, y) /\ IsValue(v)
  BY RespIs DEF RespValue
<1> HIDE DEF x, y, b, v
<1>4. IsInnerCode(BYTE_T, x, Block(BYTE_T, x))
  BY <1>1, MessageTypes, MessageKinds, NumberCode
<1>5. IsInnerCode(BYTE_T, x, <<status>>)
  BY <1>1, <1>4
<1> DEFINE s == <<status>>
<1>6. IsInnerCode(BYTE_T, x, s)
  BY <1>5
<1> HIDE DEF s
<1>7. IsInnerCode(RespType, Pair(x, y), s \o b)
  BY <1>1, <1>2, <1>6, MessagePairs, PairCode
<1> DEFINE c == s \o b
<1>8. IsTypeCode(v.type, a) /\ IsInnerCode(v.type, v.iv, c)
  BY <1>3, <1>7
<1> HIDE DEF c
<1>9. IsValueCode(v, a \o c)
  BY <1>3, <1>8, ValueCode
<1> QED BY <1>9 DEF c, s, b, v

LEMMA RespBack ==
    ASSUME MaxSize >= ErrorSize, NEW status \in Byte, NEW bytes \in Buffers,
           NEW u \in Alike(RespValue(status, bytes))
    PROVE  /\ u.type = RespType /\ IsValue(u)
           /\ u.iv.members[1].block = <<status>> /\ u.iv.members[2].block = bytes
<1> DEFINE x == Dense(<<status>>)
           y == Dense(bytes)
           v == RespValue(status, bytes)
<1>1. x \in InnerOf[BYTE_T] /\ Block(BYTE_T, x) = <<status>>
  BY StatusIs
<1>2. y \in InnerOf[ARRAY_B] /\ Block(ARRAY_B, y) = bytes
  BY BytesAre
<1>3. v.type = RespType /\ v.iv = Pair(x, y)
  BY DEF RespValue
<1> HIDE DEF x, y, v
<1>4. u \in Alike(v)
  BY DEF v
<1>5. u.type = RespType /\ u.iv \in InnerOf[RespType] /\ InnerEquals[RespType][u.iv][Pair(x, y)]
  BY <1>3, <1>4 DEF Alike, ValueEquals
<1>6. u.iv \in Equals(RespType, Pair(x, y))
  BY <1>5 DEF Equals
<1>7. u.iv.members[1] \in Equals(BYTE_T, x) /\ u.iv.members[2] \in Equals(ARRAY_B, y)
  BY <1>1, <1>2, <1>6, MessagePairs, PairEquals
<1>8. Block(BYTE_T, u.iv.members[1]) = <<status>> /\ Block(ARRAY_B, u.iv.members[2]) = bytes
  BY <1>1, <1>2, <1>7, MessageTypes, MessageKinds, BlockEquals
<1>9. /\ Block(BYTE_T, u.iv.members[1]) = u.iv.members[1].block
      /\ Block(ARRAY_B, u.iv.members[2]) = u.iv.members[2].block
  BY MessageKinds DEF Block, ARRAY_TID, STRING_TID
<1>10. IsValue(u)
  BY <1>5, MessageTypes DEF IsValue
<1> QED BY <1>5, <1>8, <1>9, <1>10

(* The answer that is only a status fits every buffer.                      *)
LEMMA ErrorAnswers ==
    ASSUME BuffersAre, NEW status \in Byte, NEW buf \in Seq(Byte), Len(buf) = Len(sbuf),
           ErrorResponse(status, buf)
    PROVE  stage' = "response" /\ IsValueCode(RespValue(status, <<>>), msg')
<1> DEFINE v == RespValue(status, <<>>)
           room == Len(buf)
           w == ValueToBuffer(ErrorValue(status), room)
<1>1. /\ msg' = IF w.status = SUCCESS THEN w.out ELSE <<>>
      /\ stage' = IF w.status = SUCCESS THEN "response" ELSE "closed"
  BY DEF ErrorResponse, ErrorValue
<1>2. \A n : ValueToBuffer(ErrorValue(status), n) = ValueToBuffer(v, n)
  BY ErrorValueIs DEF ValueToBuffer, RespValue, Pair, ErrorInners
<1>3. <<>> \in Buffers
  <2>1. <<>> \in Seq(Byte) /\ Len(<<>>) = 0
    BY EmptySeq
  <2>2. 0 <= MaxSize
    BY MaxSizeType
  <2> QED BY <2>1, <2>2 DEF Buffers, BytesUpTo
<1>4. IsValue(v)
  BY <1>3, BufferSizes, RespIs
<1>5. PICK e : IsValueCode(v, e)
  BY <1>4, ValueCodes
<1> HIDE DEF v, w
<1>6. \A n \in Nat : IF Len(e) <= n THEN ValueToBuffer(v, n) = Written(e)
                     ELSE ValueToBuffer(v, n).status = BUFFER_TOO_SMALL
  <2> SUFFICES ASSUME NEW n \in Nat
               PROVE  IF Len(e) <= n THEN ValueToBuffer(v, n) = Written(e)
                      ELSE ValueToBuffer(v, n).status = BUFFER_TOO_SMALL
    OBVIOUS
  <2>1. ValueWriter(v)[n] = ValueToBuffer(v, n)
    <3>1. n \in Int
      OBVIOUS
    <3> QED BY <3>1 DEF ValueWriter
  <2> QED BY <1>5, <2>1 DEF IsValueCode, Writes
<1>7. Len(e) \in Nat
  BY <1>5 DEF IsValueCode
<1>8. Len(e) <= ErrorSize
  <2> DEFINE n == Len(e)
  <2>1. n \in Nat /\ n <= n
    BY <1>7
  <2>2. ValueToBuffer(v, n) = Written(e)
    BY <1>6, <2>1
  <2>3. Len(ValueToBuffer(ErrorValue(status), n).out) <= ErrorSize
    <3> HIDE DEF n
    <3> QED BY <2>1, BufferSizes, ErrorFits
  <2>4. Len(ValueToBuffer(v, n).out) <= ErrorSize
    BY <1>2, <2>3
  <2> HIDE DEF n
  <2> QED BY <2>2, <2>4 DEF Written
<1>9. room \in Nat /\ Len(e) <= room
  <2> DEFINE n == Len(e)
             s == Len(sbuf)
  <2>1. n \in Nat /\ n <= ErrorSize /\ ErrorSize <= s /\ s \in Nat /\ ErrorSize \in Nat
    BY <1>7, <1>8, BufferSizes
  <2> HIDE DEF n, s
  <2>2. n <= s
    BY <2>1
  <2> QED BY <2>1, <2>2 DEF n, s
<1> HIDE DEF room
<1>10. w = Written(e)
  BY <1>2, <1>6, <1>9 DEF w
<1>11. stage' = "response" /\ msg' = e
  BY <1>1, <1>10 DEF Written
<1> QED BY <1>5, <1>11 DEF v

-----------------------------------------------------------------------------
(* A value, or none, with its length in front.                              *)
OptionCode(vs, e) ==
    e \in Seq(Byte) /\ IF vs = <<>> THEN e = <<>> ELSE IsValueCode(vs[1], e)

LEMMA ValueWrites ==
    ASSUME NEW v, NEW e, IsValueCode(v, e), NEW room \in Nat
    PROVE  IF Len(e) <= room THEN ValueToBuffer(v, room) = Written(e)
           ELSE ValueToBuffer(v, room).status = BUFFER_TOO_SMALL
<1>1. ValueWriter(v)[room] = ValueToBuffer(v, room)
  <2>1. room \in Int
    OBVIOUS
  <2> QED BY <2>1 DEF ValueWriter
<1> QED BY <1>1 DEF IsValueCode, Writes

LEMMA LengthCodeIs ==
    ASSUME NEW e \in Seq(Byte)
    PROVE  /\ ToBytes(Len(e)) \o e \in Seq(Byte) /\ Len(ToBytes(Len(e)) \o e) = 4 + Len(e)
           /\ Len(e) \in Nat
<1> DEFINE a == ToBytes(Len(e))
<1>1. Len(e) \in Nat
  BY LenProperties
<1>2. a \in Seq(Byte) /\ Len(a) = 4
  BY <1>1, ToBytesIs DEF LengthBytes
<1> HIDE DEF a
<1>3. a \o e \in Seq(Byte) /\ Len(a \o e) = Len(a) + Len(e)
  BY <1>2, ConcatProperties
<1> QED BY <1>1, <1>2, <1>3 DEF a

LEMMA LengthCode ==
    ASSUME NEW vs, NEW e, OptionCode(vs, e)
    PROVE  Writes(WithLength(vs), ToBytes(Len(e)) \o e)
<1> DEFINE c == ToBytes(Len(e)) \o e
<1>1. e \in Seq(Byte) /\ Len(e) \in Nat /\ c \in Seq(Byte) /\ Len(c) = 4 + Len(e)
  BY LengthCodeIs DEF OptionCode
<1> SUFFICES ASSUME NEW room \in Nat
             PROVE  IF Len(c) <= room THEN WithLength(vs)[room] = Written(c)
                    ELSE WithLength(vs)[room].status = BUFFER_TOO_SMALL
  BY DEF Writes
<1> DEFINE u == WithLength(vs)[room]
           r == room - LengthBytes
           w == IF vs = <<>> THEN Written(<<>>) ELSE ValueToBuffer(vs[1], r)
           l == Len(c)
           k == Len(e)
<1>2. u = IF room < LengthBytes THEN TooSmall(<<>>)
          ELSE [status |-> w.status, out |-> Written(ToBytes(Len(w.out))).out \o w.out]
  <2>1. room \in Int
    OBVIOUS
  <2> QED BY <2>1 DEF WithLength, ValueToBufferWithLength, WriteNext
<1>3. l = 4 + k /\ k \in Nat
  BY <1>1
<1> SUFFICES IF l <= room THEN u = Written(c) ELSE u.status = BUFFER_TOO_SMALL
  OBVIOUS
<1> HIDE DEF u, l
<1>4. CASE room < LengthBytes
  <2>1. u.status = BUFFER_TOO_SMALL
    BY <1>2, <1>4 DEF TooSmall
  <2>2. ~(l <= room)
    <3> HIDE DEF k
    <3> QED BY <1>3, <1>4 DEF LengthBytes
  <2> QED BY <2>1, <2>2
<1>5. CASE ~(room < LengthBytes)
  <2>1. r \in Nat /\ r = room - 4
    BY <1>5 DEF LengthBytes
  <2>2. u = [status |-> w.status, out |-> ToBytes(Len(w.out)) \o w.out]
    BY <1>2, <1>5 DEF Written
  <2>3. IF k <= r THEN w = Written(e) ELSE w.status = BUFFER_TOO_SMALL
    <3> HIDE DEF r
    <3>1. CASE vs = <<>>
      <4>1. w = Written(<<>>) /\ e = <<>>
        BY <3>1 DEF OptionCode
      <4>2. k = 0
        BY <4>1, EmptySeq
      <4>3. k <= r
        BY <2>1, <4>2
      <4> QED BY <4>1, <4>3
    <3>2. CASE vs # <<>>
      <4>1. w = ValueToBuffer(vs[1], r) /\ IsValueCode(vs[1], e)
        BY <3>2 DEF OptionCode
      <4> QED BY <2>1, <4>1, ValueWrites
    <3> QED BY <3>1, <3>2
  <2>4. k <= r <=> l <= room
    <3> HIDE DEF k, r
    <3> QED BY <1>3, <2>1
  <2> HIDE DEF w, r
  <2>5. w = Written(e) => u = Written(c)
    BY <2>2 DEF Written
  <2>6. w.status = BUFFER_TOO_SMALL => u.status = BUFFER_TOO_SMALL
    BY <2>2
  <2> HIDE DEF k, c
  <2> QED BY <2>3, <2>4, <2>5, <2>6
<1> QED BY <1>4, <1>5

(* The response with a value that is returned, or without one.              *)
AnswerBytes(a, e) == a \o (<<SUCCESS>> \o (ToBytes(Len(e)) \o e))

LEMMA AnswerBytesAre ==
    ASSUME NEW a \in Seq(Byte), NEW e \in Seq(Byte)
    PROVE  /\ AnswerBytes(a, e) = (a \o <<SUCCESS>>) \o (ToBytes(Len(e)) \o e)
           /\ a \o <<SUCCESS>> \in Seq(Byte) /\ Len(a \o <<SUCCESS>>) = Len(a) + 1
           /\ AnswerBytes(a, e) \in Seq(Byte) /\ Len(AnswerBytes(a, e)) = Len(a) + 5 + Len(e)
           /\ Len(a) \in Nat /\ Len(e) \in Nat
<1> DEFINE s == <<SUCCESS>>
           c == ToBytes(Len(e)) \o e
<1>1. s \in Seq(Byte) /\ Len(s) = 1
  BY SuccessIsByte, OneByte
<1>2. c \in Seq(Byte) /\ Len(c) = 4 + Len(e) /\ Len(e) \in Nat /\ Len(a) \in Nat
  BY LengthCodeIs, LenProperties
<1>3. AnswerBytes(a, e) = a \o (s \o c)
  BY DEF AnswerBytes
<1> HIDE DEF s, c
<1>4. (a \o s) \o c = a \o (s \o c)
  BY <1>1, <1>2, ConcatThree
<1>5. a \o s \in Seq(Byte) /\ Len(a \o s) = Len(a) + Len(s)
  BY <1>1, ConcatProperties
<1> DEFINE h == a \o s
<1>6. h \in Seq(Byte) /\ Len(h) = Len(a) + 1
  BY <1>1, <1>5
<1> HIDE DEF h
<1>7. h \o c \in Seq(Byte) /\ Len(h \o c) = Len(h) + Len(c)
  BY <1>2, <1>6, ConcatProperties
<1>8. Len(h) + Len(c) = Len(a) + 5 + Len(e)
  <2> DEFINE i == Len(a)
             j == Len(e)
  <2>1. i \in Nat /\ j \in Nat /\ Len(h) = i + 1 /\ Len(c) = 4 + j
    BY <1>2, <1>6
  <2> HIDE DEF i, j
  <2>2. Len(h) + Len(c) = i + 5 + j
    BY <2>1
  <2> QED BY <2>2 DEF i, j
<1>9. AnswerBytes(a, e) = h \o c
  BY <1>3, <1>4 DEF h
<1> QED BY <1>2, <1>6, <1>7, <1>8, <1>9 DEF h, s, c

LEMMA AnswerWrites ==
    ASSUME NEW ret, NEW e, OptionCode(ret, e), NEW a, IsTypeCode(RespType, a), NEW room \in Nat
    PROVE  IF Len(AnswerBytes(a, e)) <= room THEN ResponseToBuffer(ret, room) = Written(AnswerBytes(a, e))
           ELSE ResponseToBuffer(ret, room).status # SUCCESS
<1> DEFINE t == TypeToBuffer[RespType][room]
           head == Append(t.out, SUCCESS)
           start == a \o <<SUCCESS>>
           c == ToBytes(Len(e)) \o e
           m == AnswerBytes(a, e)
           w == ResponseToBuffer(ret, room)
<1>1. w = IF t.status # SUCCESS THEN t
          ELSE IF room < Len(head) THEN TooSmall(t.out)
          ELSE WriteEach(head, <<WithLength(ret)>>, room)
  BY DEF ResponseToBuffer
<1>2. a \in Seq(Byte) /\ e \in Seq(Byte) /\ IF Len(a) <= room THEN t = Written(a) ELSE t.status = BUFFER_TOO_SMALL
  BY DEF IsTypeCode, Writes, OptionCode
<1>3. /\ m = start \o c /\ start \in Seq(Byte) /\ Len(start) = Len(a) + 1
      /\ Len(m) = Len(a) + 5 + Len(e) /\ Len(a) \in Nat /\ Len(e) \in Nat
  BY <1>2, AnswerBytesAre
<1>4. Writes(WithLength(ret), c) /\ c \in Seq(Byte)
  BY <1>2, LengthCode, LengthCodeIs
<1>5. Append(a, SUCCESS) = start
  BY <1>2, SuccessIsByte, AppendIsConcat
<1> HIDE DEF t, head, start, c, m, w
<1>6. Len(a) <= room => t.status = SUCCESS /\ head = start
  BY <1>2, <1>5 DEF Written, head
<1> DEFINE l == Len(m)
           k == Len(start)
           i == Len(a)
           j == Len(e)
<1>7. l = i + 5 + j /\ k = i + 1 /\ i \in Nat /\ j \in Nat
  BY <1>3
<1>8. CASE ~(i <= room)
  <2>1. w = t /\ t.status # SUCCESS
    BY <1>1, <1>2, <1>8 DEF BUFFER_TOO_SMALL, SUCCESS
  <2>2. ~(l <= room)
    <3> HIDE DEF l, i, j
    <3> QED BY <1>7, <1>8
  <2> QED BY <2>1, <2>2 DEF m, w
<1>9. CASE i <= room /\ room < k
  <2>1. w = TooSmall(t.out)
    BY <1>1, <1>6, <1>9
  <2>2. ~(l <= room)
    <3> HIDE DEF l, i, j, k
    <3> QED BY <1>7, <1>9
  <2> QED BY <2>1, <2>2 DEF TooSmall, BUFFER_TOO_SMALL, SUCCESS, m, w
<1>10. CASE i <= room /\ ~(room < k)
  <2>1. w = WriteEach(start, <<WithLength(ret)>>, room)
    BY <1>1, <1>6, <1>10
  <2>2. k <= room
    <3> HIDE DEF i, j, k
    <3> QED BY <1>7, <1>10
  <2> DEFINE x == WithLength(ret)
  <2>3. Writes(x, c)
    BY <1>4
  <2> HIDE DEF x
  <2>4. IF Len(start \o c) <= room THEN WriteEach(start, <<x>>, room) = Written(start \o c)
        ELSE WriteEach(start, <<x>>, room).status = BUFFER_TOO_SMALL
    BY <1>3, <1>4, <2>2, <2>3, WriteOne
  <2>5. IF Len(m) <= room THEN w = Written(m) ELSE w.status = BUFFER_TOO_SMALL
    BY <1>3, <2>1, <2>4 DEF x
  <2> QED BY <2>5 DEF m, w, BUFFER_TOO_SMALL, SUCCESS
<1> QED BY <1>8, <1>9, <1>10

LEMMA SumOne == \A x \in Int : Sum(<<x>>) = x
<1> SUFFICES ASSUME NEW x \in Int PROVE Sum(<<x>>) = x
  OBVIOUS
<1> DEFINE s == <<>>
           t == <<x>>
           n == 0
<1>1. /\ n \in Nat /\ Len(s) = n /\ Len(t) = n + 1
      /\ \A i \in 1..n : s[i] \in Int /\ t[i] = s[i]
  OBVIOUS
<1>2. t[n + 1] = x /\ Sum(s) = 0
  BY SumEmpty
<1> HIDE DEF s, t, n
<1>3. Sum(t) = Sum(s) + t[n + 1]
  BY <1>1, SumNext
<1> QED BY <1>2, <1>3 DEF t

LEMMA AnswerSize ==
    ASSUME NEW ret \in AtMostOne(Built), NEW e, OptionCode(ret, e), NEW a, IsTypeCode(RespType, a)
    PROVE  Len(AnswerBytes(a, e)) = ResponseSize(ret)
<1> DEFINE sizes == [i \in DOMAIN ret |-> ValueSize(ret[i])]
<1>1. /\ Len(AnswerBytes(a, e)) = Len(a) + 5 + Len(e) /\ Len(a) \in Nat /\ Len(e) \in Nat
      /\ Len(a) = TypeSize[RespType]
  BY AnswerBytesAre DEF IsTypeCode, OptionCode
<1>2. Sum(sizes) = Len(e)
  <2>1. ret \in Seq(Built) /\ Len(ret) <= 1 /\ Len(ret) \in Nat /\ DOMAIN ret = 1..Len(ret)
    BY LenProperties DEF AtMostOne
  <2>2. CASE ret = <<>>
    <3>1. e = <<>>
      BY <2>2 DEF OptionCode
    <3>2. Len(ret) = 0
      BY <2>2, EmptySeq
    <3>3. DOMAIN ret = {}
      BY <2>1, <3>2
    <3>4. sizes = <<>>
      BY <3>3
    <3> QED BY <3>1, <3>4, SumEmpty, EmptySeq
  <2>3. CASE ret # <<>>
    <3>1. Len(ret) = 1
      <4>1. Len(ret) # 0
        BY <2>1, <2>3, EmptySeq
      <4> QED BY <2>1, <4>1
    <3>2. DOMAIN ret = 1..1
      BY <2>1, <3>1
    <3>3. sizes = <<ValueSize(ret[1])>>
      <4> DEFINE x == ValueSize(ret[1])
      <4>1. sizes = [i \in 1..1 |-> ValueSize(ret[i])]
        BY <3>2
      <4>2. \A i \in 1..1 : ValueSize(ret[i]) = x
        OBVIOUS
      <4>3. sizes = [i \in 1..1 |-> x]
        BY <4>1, <4>2
      <4> HIDE DEF sizes, x
      <4>4. [i \in 1..1 |-> x] = <<x>>
        OBVIOUS
      <4> QED BY <4>3, <4>4 DEF x
    <3>4. ValueSize(ret[1]) = Len(e)
      BY <2>3 DEF OptionCode, IsValueCode
    <3>5. Len(e) \in Int
      BY <1>1
    <3> QED BY <3>3, <3>4, <3>5, SumOne
  <2> QED BY <2>2, <2>3
<1> HIDE DEF sizes
<1>3. ResponseSize(ret) = Len(a) + 1 + 4 + Len(e)
  BY <1>1, <1>2 DEF ResponseSize, sizes
<1> DEFINE i == Len(a)
           j == Len(e)
<1>4. ResponseSize(ret) = i + 1 + 4 + j /\ Len(AnswerBytes(a, e)) = i + 5 + j /\ i \in Nat /\ j \in Nat
  BY <1>1, <1>3
<1> HIDE DEF i, j
<1>5. i + 1 + 4 + j = i + 5 + j
  BY <1>4
<1> QED BY <1>4, <1>5

-----------------------------------------------------------------------------
(* The client reads the response in front of what is left in its buffer.    *)
LEMMA ResponseRead ==
    ASSUME BuffersAre, NEW status \in Byte, NEW bytes \in Buffers,
           IsValueCode(RespValue(status, bytes), msg)
    PROVE  \E r : /\ ParseResponse = ReturnedValue(r)
                  /\ r.v.iv.members[1].block = <<status>> /\ r.v.iv.members[2].block = bytes
<1> DEFINE rest == After(cbuf, Len(msg))
           buf == msg \o rest
           r == ValueFromBuffer(buf)
           v == RespValue(status, bytes)
<1>1. msg \in Seq(Byte) /\ cbuf \in Seq(Byte) /\ Len(msg) \in Nat /\ Len(msg) <= Len(cbuf)
      /\ Len(cbuf) <= MaxSize
  BY BufferSizes DEF BuffersAre
<1>2. rest \in Seq(Byte)
  BY <1>1, AfterIs
<1>3. Over(msg, cbuf) = buf /\ buf \in Seq(Byte) /\ Len(buf) = Len(cbuf)
  BY <1>1, OverIs DEF Over
<1>4. buf \in Buffers
  <2> HIDE DEF buf
  <2> QED BY <1>1, <1>3 DEF Buffers, BytesUpTo
<1>5. ParseResponse = IF r.status # SUCCESS THEN Result(BAD_RESPONSE, <<>>, r.blocks)
          ELSE IF r.v.type # RespType THEN Result(BAD_RESPONSE, <<>>, r.blocks - ValueBlocks(r.v))
          ELSE ReturnedValue(r)
  BY <1>3 DEF ParseResponse
<1>6. ValueReader[buf] = r
  <2> HIDE DEF buf
  <2> QED BY <1>3 DEF ValueReader
<1> HIDE DEF rest, r, v
<1>7. ReadsBack(ValueReader, msg, Alike(v))
  BY DEF IsValueCode, v
<1>8. r.status = SUCCESS /\ r.v \in Alike(v)
  BY <1>2, <1>4, <1>6, <1>7 DEF ReadsBack
<1>9. /\ r.v.type = RespType
      /\ r.v.iv.members[1].block = <<status>> /\ r.v.iv.members[2].block = bytes
  BY <1>8, BufferSizes, RespBack DEF v
<1>10. ParseResponse = ReturnedValue(r)
  BY <1>5, <1>8, <1>9
<1> QED BY <1>9, <1>10

LEMMA StatusRead ==
    ASSUME BuffersAre, NEW status \in Byte, NEW bytes \in Buffers,
           IsValueCode(RespValue(status, bytes), msg), status # SUCCESS \/ bytes = <<>>
    PROVE  ParseResponse.status = status /\ ParseResponse.ret = <<>>
<1>1. PICK r : /\ ParseResponse = ReturnedValue(r)
               /\ r.v.iv.members[1].block = <<status>> /\ r.v.iv.members[2].block = bytes
  BY ResponseRead
<1>2. r.v.iv.members[1].block[1] = status
  BY <1>1
<1>3. ReturnedValue(r) = Result(status, <<>>, r.blocks - ValueBlocks(r.v))
  BY <1>1, <1>2 DEF ReturnedValue
<1> QED BY <1>1, <1>3 DEF Result

LEMMA SameNothing == Same(<<>>, <<>>)
<1>1. DOMAIN <<>> = {}
  OBVIOUS
<1> QED BY <1>1 DEF Same

LEMMA SameOne ==
    ASSUME NEW u, NEW ret, Len(ret) = 1, ValueEquals(u, ret[1])
    PROVE  Same(<<u>>, ret)
<1> DEFINE s == <<u>>
<1>1. Len(s) = 1 /\ DOMAIN s = 1..1 /\ s[1] = u
  OBVIOUS
<1>2. \A i \in 1..1 : i = 1
  OBVIOUS
<1> HIDE DEF s
<1>3. Same(s, ret)
  BY <1>1, <1>2 DEF Same
<1> QED BY <1>3 DEF s

LEMMA ValueRead ==
    ASSUME NEW v, NEW e \in Buffers, IsValueCode(v, e)
    PROVE  ValueFromBuffer(e).status = SUCCESS /\ ValueFromBuffer(e).v \in Alike(v)
<1>1. e \in Seq(Byte) /\ <<>> \in Seq(Byte)
  BY EmptySeq DEF Buffers, BytesUpTo
<1>2. e \o <<>> = e
  BY <1>1, ConcatEmptySeq
<1>3. ReadsBack(ValueReader, e, Alike(v))
  BY DEF IsValueCode
<1> DEFINE none == <<>>
<1>4. none \in Seq(Byte) /\ e \o none = e
  BY <1>1, <1>2
<1> HIDE DEF none
<1>5. LET r == ValueReader[e \o none] IN r.status = SUCCESS /\ r.v \in Alike(v)
  BY <1>3, <1>4 DEF ReadsBack
<1>6. ValueReader[e] = ValueFromBuffer(e)
  BY <1>1 DEF ValueReader
<1> QED BY <1>4, <1>5, <1>6

LEMMA ReturnRead ==
    ASSUME BuffersAre, NEW ret \in AtMostOne(Built), NEW e \in Buffers, OptionCode(ret, e),
           IsValueCode(RespValue(SUCCESS, e), msg), call.keep \in BOOLEAN
    PROVE  /\ ParseResponse.status = SUCCESS
           /\ Same(ParseResponse.ret, IF call.keep THEN ret ELSE <<>>)
<1>1. CASE e = <<>>
  <2>1. ret = <<>>
    <3>1. SUFFICES ASSUME ret # <<>> PROVE FALSE
      OBVIOUS
    <3>2. Len(e) >= 1
      BY <3>1 DEF OptionCode, IsValueCode
    <3>3. Len(e) = 0
      BY <1>1, EmptySeq
    <3> QED BY <3>2, <3>3
  <2>2. ParseResponse.status = SUCCESS /\ ParseResponse.ret = <<>>
    BY <1>1, SuccessIsByte, StatusRead
  <2> QED BY <2>1, <2>2, SameNothing
<1>2. CASE e # <<>>
  <2> DEFINE u == ValueFromBuffer(e)
  <2>1. ret # <<>> /\ IsValueCode(ret[1], e)
    BY <1>2 DEF OptionCode
  <2>2. Len(ret) = 1
    <3>1. ret \in Seq(Built) /\ Len(ret) <= 1 /\ Len(ret) \in Nat
      BY LenProperties DEF AtMostOne
    <3>2. Len(ret) # 0
      BY <2>1, <3>1, EmptySeq
    <3> DEFINE l == Len(ret)
    <3>3. l \in Nat /\ l <= 1 /\ l # 0
      BY <3>1, <3>2
    <3> HIDE DEF l
    <3>4. l = 1
      BY <3>3
    <3> QED BY <3>4 DEF l
  <2>3. u.status = SUCCESS /\ u.v \in Alike(ret[1])
    BY <2>1, ValueRead
  <2>4. ValueEquals(u.v, ret[1])
    BY <2>3 DEF Alike
  <2>5. PICK r : /\ ParseResponse = ReturnedValue(r)
                 /\ r.v.iv.members[1].block = <<SUCCESS>> /\ r.v.iv.members[2].block = e
    BY SuccessIsByte, ResponseRead
  <2>6. r.v.iv.members[1].block[1] = SUCCESS
    BY <2>5
  <2> DEFINE left == r.blocks - ValueBlocks(r.v)
  <2>7. ReturnedValue(r) =
          IF SUCCESS # SUCCESS \/ e = <<>> THEN Result(SUCCESS, <<>>, left)
          ELSE IF u.status # SUCCESS THEN Result(u.status, <<>>, left + u.blocks)
          ELSE IF call.keep THEN Result(SUCCESS, <<u.v>>, left + u.blocks)
          ELSE Result(SUCCESS, <<>>, left + u.blocks - ValueBlocks(u.v))
    BY <2>5, <2>6 DEF ReturnedValue
  <2> HIDE DEF u, left
  <2>8. CASE call.keep
    <3>1. ParseResponse = Result(SUCCESS, <<u.v>>, left + u.blocks)
      BY <1>2, <2>3, <2>5, <2>7, <2>8
    <3>2. ParseResponse.status = SUCCESS /\ ParseResponse.ret = <<u.v>>
      BY <3>1 DEF Result
    <3> QED BY <2>2, <2>4, <2>8, <3>2, SameOne
  <2>9. CASE ~call.keep
    <3>1. ParseResponse = Result(SUCCESS, <<>>, left + u.blocks - ValueBlocks(u.v))
      BY <1>2, <2>3, <2>5, <2>7, <2>9
    <3>2. ParseResponse.status = SUCCESS /\ ParseResponse.ret = <<>>
      BY <3>1 DEF Result
    <3> QED BY <2>9, <3>2, SameNothing
  <2> QED BY <2>8, <2>9
<1> QED BY <1>1, <1>2

-----------------------------------------------------------------------------
(* The request: a name, and the bytes of the arguments.                     *)
Arrays(n, es) == Composed([i \in 1..n |-> Dense(es[i])])

ReqValue(name, n, es) == [type |-> ReqType, iv |-> Pair(Dense(name), Arrays(n, es))]

LEMMA NameIs ==
    ASSUME NEW name \in Buffers, name = String(name)
    PROVE  Dense(name) \in InnerOf[STRING_T] /\ Block(STRING_T, Dense(name)) = name
<1>1. name \in Seq(Byte) /\ Len(name) \in Nat /\ Len(name) <= MaxSize
  BY LenProperties DEF Buffers, BytesUpTo
<1>2. Len(name) % 1 = 0 /\ Len(name) \in 0..MaxSize
  <2> DEFINE l == Len(name)
  <2>1. l \in Nat /\ l <= MaxSize
    BY <1>1
  <2> HIDE DEF l
  <2>2. l % 1 = 0 /\ l \in 0..MaxSize
    BY <2>1, MaxSizeType
  <2> QED BY <2>2 DEF l
<1>3. STRING_T.tid = STRING_TID
  BY DEF STRING_T, Primitive
<1>4. CellSize(STRING_T) = 1
  BY <1>3 DEF CellSize, IsPrimitive, STRING_TID
<1>5. IsBlockOf(name, STRING_T)
  BY <1>1, <1>2, <1>4, StringType DEF IsBlockOf
<1>6. Dense(name) \in InnerOf[STRING_T]
  BY <1>5, StringType, MakeDense
<1>7. Block(STRING_T, Dense(name)) = name
  BY <1>3 DEF Block, Dense
<1> QED BY <1>6, <1>7

LEMMA NameCode ==
    ASSUME NEW name \in Buffers, name = String(name)
    PROVE  IsInnerCode(STRING_T, Dense(name), ToBytes(Len(name)) \o name)
<1> DEFINE x == Dense(name)
<1>1. x \in InnerOf[STRING_T] /\ Block(STRING_T, x) = name
  BY NameIs
<1> HIDE DEF x
<1>2. IsInnerCode(STRING_T, x, ToBytes(Len(Block(STRING_T, x)) \div CellSize(STRING_T)) \o Block(STRING_T, x))
  BY <1>1, StringType, BlockCode
<1>3. CellSize(STRING_T) = 1
  BY DEF CellSize, IsPrimitive, STRING_TID, STRING_T, Primitive
<1>4. Len(name) \div 1 = Len(name)
  <2> DEFINE l == Len(name)
  <2>1. l \in Nat
    BY LenProperties DEF Buffers, BytesUpTo
  <2> HIDE DEF l
  <2>2. l \div 1 = l
    BY <2>1
  <2> QED BY <2>2 DEF l
<1>5. IsInnerCode(STRING_T, x, ToBytes(Len(name)) \o name)
  BY <1>1, <1>2, <1>3, <1>4
<1> QED BY <1>5 DEF x

LEMMA ArraysAre ==
    ASSUME MaxSize >= ErrorSize, NEW n \in Nat, NEW es, \A i \in 1..n : es[i] \in Buffers
    PROVE  /\ Arrays(n, es) \in InnerOf[ARRAY_AB] /\ Len(Arrays(n, es).members) = n
           /\ \A i \in 1..n : Arrays(n, es).members[i] = Dense(es[i])
           /\ \A i : MemberType(ARRAY_AB, i) = ARRAY_B
<1> DEFINE ms == [i \in 1..n |-> Dense(es[i])]
<1>1. DOMAIN ms = 1..n /\ ms = [i \in DOMAIN ms |-> ms[i]] /\ ms = [i \in 1..n |-> ms[i]]
      /\ \A i \in 1..n : ms[i] = Dense(es[i])
  OBVIOUS
<1>2. Composed(ms).members = ms /\ Arrays(n, es) = Composed(ms)
  BY DEF Composed, Arrays
<1> HIDE DEF ms
<1>3. Len(ms) = n
  BY <1>1, LenOf
<1>4. \A i : MemberType(ARRAY_AB, i) = ARRAY_B
  BY MessageKinds DEF MemberType, ARRAY_TID, STRUCT_TID
<1>5. \A i \in 1..n : ms[i] \in InnerOf[MemberType(ARRAY_AB, i)]
  BY <1>1, <1>4, BytesAre
<1>6. ARRAY_AB.tid # STRUCT_TID
  BY MessageKinds DEF ARRAY_TID, STRUCT_TID
<1>7. Composed(ms) \in InnerOf[ARRAY_AB]
  BY <1>1, <1>3, <1>5, <1>6, MessageTypes, MessageKinds, MakeComposed
<1> QED BY <1>1, <1>2, <1>3, <1>4, <1>7

LengthCodes(n, es) == [i \in 1..n |-> ToBytes(Len(es[i])) \o es[i]]

LEMMA ArraysCode ==
    ASSUME MaxSize >= ErrorSize, NEW n \in Nat, NEW es, \A i \in 1..n : es[i] \in Buffers,
           NEW f, IsJoined(f, LengthCodes(n, es), n)
    PROVE  IsInnerCode(ARRAY_AB, Arrays(n, es), ToBytes(n) \o f[n])
<1> DEFINE iv == Arrays(n, es)
           cs == LengthCodes(n, es)
<1>1. /\ iv \in InnerOf[ARRAY_AB] /\ Len(iv.members) = n
      /\ \A i \in 1..n : iv.members[i] = Dense(es[i])
      /\ \A i : MemberType(ARRAY_AB, i) = ARRAY_B
  BY ArraysAre
<1>2. \A i \in 1..n : cs[i] = ToBytes(Len(es[i])) \o es[i]
  BY DEF LengthCodes
<1> HIDE DEF iv, cs
<1>3. MemberCodes(ARRAY_AB, iv, cs)
  BY <1>1, <1>2, BytesCode DEF MemberCodes
<1>4. Prefix(ARRAY_AB, iv) = ToBytes(n)
  BY <1>1, MessageKinds DEF Prefix, ARRAY_TID, STRUCT_TID
<1>5. IsInnerCode(ARRAY_AB, iv, Prefix(ARRAY_AB, iv) \o f[Len(iv.members)])
  BY <1>1, <1>3, MessageTypes, MessageKinds, ComposedCode DEF cs
<1> QED BY <1>1, <1>4, <1>5 DEF iv

RequestBytes(a, name, n, f) == a \o ((ToBytes(Len(name)) \o name) \o (ToBytes(n) \o f[n]))

LEMMA RequestIs ==
    ASSUME MaxSize >= ErrorSize, NEW name \in Buffers, name = String(name),
           NEW n \in Nat, NEW es, \A i \in 1..n : es[i] \in Buffers
    PROVE  IsValue(ReqValue(name, n, es))
<1>1. Pair(Dense(name), Arrays(n, es)) \in InnerOf[ReqType]
  BY MessagePairs, NameIs, ArraysAre, PairIs
<1> QED BY <1>1, MessageTypes DEF IsValue, ReqValue

LEMMA RequestCode ==
    ASSUME MaxSize >= ErrorSize, NEW name \in Buffers, name = String(name),
           NEW n \in Nat, NEW es, \A i \in 1..n : es[i] \in Buffers,
           NEW f, IsJoined(f, LengthCodes(n, es), n), NEW a, IsTypeCode(ReqType, a)
    PROVE  IsValueCode(ReqValue(name, n, es), RequestBytes(a, name, n, f))
<1> DEFINE x == Dense(name)
           y == Arrays(n, es)
           b == ToBytes(Len(name)) \o name
           c == ToBytes(n) \o f[n]
           v == ReqValue(name, n, es)
<1>1. x \in InnerOf[STRING_T] /\ IsInnerCode(STRING_T, x, b)
  BY NameIs, NameCode
<1>2. y \in InnerOf[ARRAY_AB] /\ IsInnerCode(ARRAY_AB, y, c)
  BY ArraysAre, ArraysCode
<1>3. v.type = ReqType /\ v.iv = Pair(x, y) /\ IsValue(v)
  BY RequestIs DEF ReqValue
<1>4. RequestBytes(a, name, n, f) = a \o (b \o c)
  BY DEF RequestBytes
<1> HIDE DEF x, y, b, c, v
<1>5. IsInnerCode(ReqType, Pair(x, y), b \o c)
  BY <1>1, <1>2, MessagePairs, PairCode
<1> DEFINE d == b \o c
<1>6. IsTypeCode(v.type, a) /\ IsInnerCode(v.type, v.iv, d)
  BY <1>3, <1>5
<1> HIDE DEF d
<1>7. IsValueCode(v, a \o d)
  BY <1>3, <1>6, ValueCode
<1> QED BY <1>4, <1>7 DEF d, v

LEMMA MembersEqual ==
    ASSUME NEW t \in Types, ~IsBlockable(t), NEW iv \in InnerOf[t], NEW u \in Equals(t, iv)
    PROVE  /\ Len(u.members) = Len(iv.members) /\ Len(iv.members) \in Nat
           /\ \A i \in 1..Len(iv.members) : u.members[i] \in Equals(MemberType(t, i), iv.members[i])
<1>1. u \in InnerOf[t] /\ InnerEquals[t][u][iv]
  BY DEF Equals
<1>2. AreMembersOf(u.members, t) /\ AreMembersOf(iv.members, t)
  BY <1>1, InnerShape
<1>3. InnerEquals[t][u][iv] = InnerEqualsOf(InnerEquals, t)[u][iv]
  BY InnerEqualsUnfold
<1>4. /\ Len(u.members) = Len(iv.members)
      /\ \A i \in DOMAIN u.members : InnerEquals[MemberType(t, i)][u.members[i]][iv.members[i]]
  BY <1>1, <1>3 DEF InnerEqualsOf
<1>5. /\ DOMAIN u.members = 1..Len(iv.members) /\ Len(iv.members) \in Nat
      /\ \A i \in 1..Len(iv.members) : u.members[i] \in InnerOf[MemberType(t, i)]
  BY <1>2, <1>4 DEF AreMembersOf
<1> QED BY <1>4, <1>5 DEF Equals

LEMMA RequestBack ==
    ASSUME MaxSize >= ErrorSize, NEW name \in Buffers, name = String(name),
           NEW n \in Nat, NEW es, \A i \in 1..n : es[i] \in Buffers,
           NEW u \in Alike(ReqValue(name, n, es))
    PROVE  /\ u.type = ReqType /\ String(u.iv.members[1].block) = name
           /\ Len(u.iv.members[2].members) = n
           /\ \A i \in 1..n : u.iv.members[2].members[i].block = es[i]
<1> DEFINE x == Dense(name)
           y == Arrays(n, es)
           v == ReqValue(name, n, es)
           p == u.iv.members[1]
           q == u.iv.members[2]
<1>1. x \in InnerOf[STRING_T] /\ Block(STRING_T, x) = name
  BY NameIs
<1>2. /\ y \in InnerOf[ARRAY_AB] /\ Len(y.members) = n
      /\ \A i \in 1..n : y.members[i] = Dense(es[i])
      /\ \A i : MemberType(ARRAY_AB, i) = ARRAY_B
  BY ArraysAre
<1>3. v.type = ReqType /\ v.iv = Pair(x, y)
  BY DEF ReqValue
<1> HIDE DEF x, y, v
<1>4. u \in Alike(v)
  BY DEF v
<1>5. u.type = ReqType /\ u.iv \in InnerOf[ReqType] /\ InnerEquals[ReqType][u.iv][Pair(x, y)]
  BY <1>3, <1>4 DEF Alike, ValueEquals
<1>6. u.iv \in Equals(ReqType, Pair(x, y))
  BY <1>5 DEF Equals
<1>7. p \in Equals(STRING_T, x) /\ q \in Equals(ARRAY_AB, y)
  BY <1>1, <1>2, <1>6, MessagePairs, PairEquals
<1> HIDE DEF p, q
<1>8. String(p.block) = name
  <2>1. Block(STRING_T, p) = name
    BY <1>1, <1>7, StringType, BlockEquals
  <2> QED BY <2>1 DEF Block, STRING_T, Primitive
<1>9. Len(q.members) = n /\ \A i \in 1..n : q.members[i] \in Equals(ARRAY_B, Dense(es[i]))
  BY <1>2, <1>7, MessageTypes, MessageKinds, MembersEqual
<1>10. ASSUME NEW i \in 1..n PROVE q.members[i].block = es[i]
  <2> DEFINE z == Dense(es[i])
             w == q.members[i]
  <2>1. z \in InnerOf[ARRAY_B] /\ Block(ARRAY_B, z) = es[i]
    BY BytesAre
  <2>2. w \in Equals(ARRAY_B, z)
    BY <1>9
  <2> HIDE DEF z, w
  <2>3. Block(ARRAY_B, w) = es[i]
    BY <2>1, <2>2, MessageTypes, MessageKinds, BlockEquals
  <2>4. Block(ARRAY_B, w) = w.block
    BY MessageKinds DEF Block, ARRAY_TID, STRING_TID
  <2> QED BY <2>3, <2>4 DEF w
<1> QED BY <1>5, <1>8, <1>9, <1>10 DEF p, q

AreFive(a, b, c, d, g) ==
    a \in Seq(Byte) /\ b \in Seq(Byte) /\ c \in Seq(Byte) /\ d \in Seq(Byte) /\ g \in Seq(Byte)

LEMMA ConcatFive ==
    ASSUME NEW a, NEW b, NEW c, NEW d, NEW g, AreFive(a, b, c, d, g)
    PROVE  ((a \o b \o c) \o d) \o g = a \o ((b \o c) \o (d \o g))
<1> DEFINE p == b \o c
           q == d \o g
           h == a \o b \o c
<1>1. a \in Seq(Byte) /\ b \in Seq(Byte) /\ c \in Seq(Byte) /\ d \in Seq(Byte) /\ g \in Seq(Byte)
  BY DEF AreFive
<1>2. h = a \o p
  BY <1>1, ConcatThree
<1>3. p \in Seq(Byte) /\ q \in Seq(Byte)
  BY <1>1, ConcatProperties
<1> HIDE DEF p, h
<1>4. h \in Seq(Byte)
  <2>1. a \o p \in Seq(Byte)
    BY <1>1, <1>3, ConcatProperties
  <2> QED BY <1>2, <2>1
<1>5. (h \o d) \o g = h \o q
  BY <1>1, <1>4, ConcatThree
<1> HIDE DEF q
<1>6. (a \o p) \o q = a \o (p \o q)
  <2>1. a \in Seq(Byte) /\ p \in Seq(Byte) /\ q \in Seq(Byte)
    BY <1>1, <1>3
  <2> QED BY <2>1, ConcatThree
<1>7. (h \o d) \o g = a \o (p \o q)
  BY <1>2, <1>5, <1>6
<1> QED BY <1>7 DEF h, p, q

LEMMA FiveLengths ==
    ASSUME NEW a, NEW b, NEW c, NEW d, NEW g, AreFive(a, b, c, d, g)
    PROVE  /\ a \o b \o c \in Seq(Byte) /\ Len(a \o b \o c) = Len(a) + Len(b) + Len(c)
           /\ (a \o b \o c) \o d \in Seq(Byte)
           /\ Len((a \o b \o c) \o d) = Len(a) + Len(b) + Len(c) + Len(d)
           /\ ((a \o b \o c) \o d) \o g \in Seq(Byte)
           /\ Len(((a \o b \o c) \o d) \o g) = Len(a) + Len(b) + Len(c) + Len(d) + Len(g)
           /\ Len(a) \in Nat /\ Len(b) \in Nat /\ Len(c) \in Nat /\ Len(d) \in Nat /\ Len(g) \in Nat
<1> DEFINE h1 == a \o b
           h == h1 \o c
           s == h \o d
           m == s \o g
<1>1. a \in Seq(Byte) /\ b \in Seq(Byte) /\ c \in Seq(Byte) /\ d \in Seq(Byte) /\ g \in Seq(Byte)
  BY DEF AreFive
<1>2. Len(a) \in Nat /\ Len(b) \in Nat /\ Len(c) \in Nat /\ Len(d) \in Nat /\ Len(g) \in Nat
  BY <1>1, LenProperties
<1>3. h1 \in Seq(Byte) /\ Len(h1) = Len(a) + Len(b)
  BY <1>1, ConcatProperties
<1> HIDE DEF h1
<1>4. h \in Seq(Byte) /\ Len(h) = Len(h1) + Len(c)
  BY <1>1, <1>3, ConcatProperties
<1> HIDE DEF h
<1>5. s \in Seq(Byte) /\ Len(s) = Len(h) + Len(d)
  BY <1>1, <1>4, ConcatProperties
<1> HIDE DEF s
<1>6. m \in Seq(Byte) /\ Len(m) = Len(s) + Len(g)
  BY <1>1, <1>5, ConcatProperties
<1> HIDE DEF m
<1>7. /\ Len(h) = Len(a) + Len(b) + Len(c) /\ Len(s) = Len(a) + Len(b) + Len(c) + Len(d)
      /\ Len(m) = Len(a) + Len(b) + Len(c) + Len(d) + Len(g)
  <2> DEFINE i == Len(a)
             j == Len(b)
             k == Len(c)
             l == Len(d)
             o == Len(g)
  <2>1. /\ i \in Nat /\ j \in Nat /\ k \in Nat /\ l \in Nat /\ o \in Nat
        /\ Len(h) = (i + j) + k /\ Len(s) = Len(h) + l /\ Len(m) = Len(s) + o
    BY <1>2, <1>3, <1>4, <1>5, <1>6
  <2> HIDE DEF i, j, k, l, o
  <2>2. Len(h) = i + j + k /\ Len(s) = i + j + k + l /\ Len(m) = i + j + k + l + o
    BY <2>1
  <2> QED BY <2>2 DEF i, j, k, l, o
<1> QED BY <1>2, <1>4, <1>5, <1>6, <1>7 DEF h1, h, s, m

(* The client writes what the server reads as this value.                   *)
Coded(args, es) == \A i \in 1..Len(args) : IsValueCode(args[i], es[i])

Coding(args, es, n, f) ==
    args \in Seq(Built) /\ Coded(args, es) /\ n = Len(args) /\ IsJoined(f, LengthCodes(n, es), n)

LEMMA CodedParts ==
    ASSUME NEW args, NEW es, NEW n, NEW f, Coding(args, es, n, f)
    PROVE  /\ n \in Nat /\ DOMAIN args = 1..n
           /\ \A i \in 1..n : es[i] \in Seq(Byte) /\ Len(es[i]) = ValueSize(args[i])
           /\ AreParts(n, LengthCodes(n, es), f)
           /\ \A i \in 1..n : Len(LengthCodes(n, es)[i]) = 4 + Len(es[i])
           /\ \A i \in 1..n : Writes(WithLength(<<args[i]>>), LengthCodes(n, es)[i])
           /\ f[n] \in Seq(Byte) /\ Len(f[n]) \in Nat
<1> DEFINE cs == LengthCodes(n, es)
<1>0. args \in Seq(Built) /\ Coded(args, es) /\ n = Len(args) /\ IsJoined(f, cs, n)
  BY DEF Coding
<1>1. n \in Nat /\ DOMAIN args = 1..n
  BY <1>0, LenProperties
<1>2. \A i \in 1..n : es[i] \in Seq(Byte) /\ Len(es[i]) = ValueSize(args[i])
  BY <1>0 DEF Coded, IsValueCode
<1>3. \A i \in 1..n : cs[i] = ToBytes(Len(es[i])) \o es[i]
  BY DEF LengthCodes
<1> HIDE DEF cs
<1>4. ASSUME NEW i \in 1..n PROVE OptionCode(<<args[i]>>, es[i])
  <2> DEFINE vs == <<args[i]>>
  <2>1. vs # <<>> /\ vs[1] = args[i]
    OBVIOUS
  <2>2. IsValueCode(args[i], es[i])
    BY <1>0 DEF Coded
  <2> HIDE DEF vs
  <2>3. OptionCode(vs, es[i])
    BY <1>2, <2>1, <2>2 DEF OptionCode
  <2> QED BY <2>3 DEF vs
<1>5. \A i \in 1..n : cs[i] \in Seq(Byte) /\ Len(cs[i]) = 4 + Len(es[i])
  BY <1>2, <1>3, LengthCodeIs
<1>6. \A i \in 1..n : Writes(WithLength(<<args[i]>>), cs[i])
  BY <1>3, <1>4, LengthCode
<1>7. AreParts(n, cs, f)
  BY <1>0, <1>1, <1>5 DEF AreParts, cs
<1>8. n \in 0..n
  BY <1>1
<1>9. f[n] \in Seq(Byte) /\ Len(f[n]) \in Nat
  BY <1>1, <1>7, <1>8, JoinedTypes
<1> QED BY <1>1, <1>2, <1>3, <1>5, <1>6, <1>7, <1>9 DEF cs

Lengths(i, j, k) == i + 4 + j + 4 + k

LEMMA RequestLength ==
    ASSUME NEW name \in Seq(Byte), NEW args, NEW es, NEW n, NEW f, Coding(args, es, n, f),
           NEW a, IsTypeCode(ReqType, a)
    PROVE  Len(RequestBytes(a, name, n, f)) = Lengths(Len(a), Len(name), Len(f[n]))
<1> DEFINE b == ToBytes(Len(name))
           d == ToBytes(n)
           g == f[n]
<1>1. a \in Seq(Byte) /\ n \in Nat /\ g \in Seq(Byte)
  BY CodedParts DEF IsTypeCode
<1>2. Len(name) \in Nat /\ b \in Seq(Byte) /\ Len(b) = 4 /\ d \in Seq(Byte) /\ Len(d) = 4
  <2>1. Len(name) \in Nat
    BY LenProperties
  <2> QED BY <1>1, <2>1, ToBytesIs DEF LengthBytes
<1>3. RequestBytes(a, name, n, f) = a \o ((b \o name) \o (d \o g))
  BY DEF RequestBytes
<1> HIDE DEF b, d, g
<1>4. AreFive(a, b, name, d, g)
  BY <1>1, <1>2 DEF AreFive
<1>5. ((a \o b \o name) \o d) \o g = a \o ((b \o name) \o (d \o g))
  BY <1>4, ConcatFive, SMTT(30)
<1>6. /\ Len(((a \o b \o name) \o d) \o g) = Len(a) + Len(b) + Len(name) + Len(d) + Len(g)
  BY <1>4, FiveLengths
<1> QED BY <1>2, <1>3, <1>5, <1>6 DEF g, Lengths

LEMMA RequestWrites ==
    ASSUME NEW name \in Seq(Byte), NEW args, NEW es, NEW n, NEW f, Coding(args, es, n, f),
           NEW a, IsTypeCode(ReqType, a), NEW room \in Nat
    PROVE  IF Len(RequestBytes(a, name, n, f)) <= room
           THEN RequestToBuffer(name, args, room) = Written(RequestBytes(a, name, n, f))
           ELSE RequestToBuffer(name, args, room).status = BUFFER_TOO_SMALL
<1> DEFINE t == TypeToBuffer[ReqType][room]
           b == ToBytes(Len(name))
           d == ToBytes(n)
           g == f[n]
           head == a \o b \o name
           start == head \o d
           m == RequestBytes(a, name, n, f)
           ws == [i \in DOMAIN args |-> WithLength(<<args[i]>>)]
           w == RequestToBuffer(name, args, room)
           th == t.out \o b \o name
<1>1. w = IF t.status # SUCCESS THEN t
          ELSE IF room < Len(th) THEN TooSmall(t.out)
          ELSE IF room < Len(th) + LengthBytes THEN TooSmall(th)
          ELSE WriteEach(th \o d, ws, room)
  <2>1. n = Len(args)
    BY DEF Coding
  <2> QED BY <2>1 DEF RequestToBuffer
<1>2. a \in Seq(Byte) /\ IF Len(a) <= room THEN t = Written(a) ELSE t.status = BUFFER_TOO_SMALL
  BY DEF IsTypeCode, Writes
<1>3. /\ n \in Nat /\ DOMAIN args = 1..n /\ AreParts(n, LengthCodes(n, es), f)
      /\ \A i \in 1..n : Writes(WithLength(<<args[i]>>), LengthCodes(n, es)[i])
      /\ g \in Seq(Byte)
  BY CodedParts
<1>4. Len(name) \in Nat /\ b \in Seq(Byte) /\ Len(b) = 4 /\ d \in Seq(Byte) /\ Len(d) = 4
  <2>1. Len(name) \in Nat
    BY LenProperties
  <2> QED BY <1>3, <2>1, ToBytesIs DEF LengthBytes
<1>5. ws = [i \in DOMAIN ws |-> ws[i]] /\ DOMAIN ws = 1..n /\ \A i \in 1..n : ws[i] = WithLength(<<args[i]>>)
  BY <1>3
<1>6. m = a \o ((b \o name) \o (d \o g))
  BY DEF RequestBytes
<1>7. t.status = SUCCESS /\ t.out = a => th = head
  OBVIOUS
<1> HIDE DEF t, b, d, g, m, ws, w, th
<1>8. Len(ws) = n
  BY <1>3, <1>5, LenOf
<1>9. /\ start \o g = a \o ((b \o name) \o (d \o g))
      /\ head \in Seq(Byte) /\ Len(head) = Len(a) + Len(b) + Len(name)
      /\ start \in Seq(Byte) /\ Len(start) = Len(a) + Len(b) + Len(name) + Len(d)
      /\ start \o g \in Seq(Byte)
      /\ Len(start \o g) = Len(a) + Len(b) + Len(name) + Len(d) + Len(g)
      /\ Len(a) \in Nat /\ Len(name) \in Nat /\ Len(g) \in Nat
  <2>1. AreFive(a, b, name, d, g)
    BY <1>2, <1>3, <1>4 DEF AreFive
  <2>2. start \o g = a \o ((b \o name) \o (d \o g))
    BY <2>1, ConcatFive
  <2>3. head \in Seq(Byte) /\ Len(head) = Len(a) + Len(b) + Len(name)
    BY <2>1, FiveLengths
  <2>4. start \in Seq(Byte) /\ Len(start) = Len(a) + Len(b) + Len(name) + Len(d)
    BY <2>1, FiveLengths
  <2>5. start \o g \in Seq(Byte) /\ Len(start \o g) = Len(a) + Len(b) + Len(name) + Len(d) + Len(g)
    BY <2>1, FiveLengths
  <2>6. Len(a) \in Nat /\ Len(name) \in Nat /\ Len(g) \in Nat
    BY <2>1, FiveLengths
  <2> QED BY <2>2, <2>3, <2>4, <2>5, <2>6
<1> HIDE DEF head, start
<1>10. m = start \o g /\ m \in Seq(Byte)
  BY <1>6, <1>9
<1> DEFINE i == Len(a)
           j == Len(name)
           k == Len(g)
           l == Len(m)
<1>11. /\ i \in Nat /\ j \in Nat /\ k \in Nat /\ Len(head) = i + 4 + j /\ Len(start) = i + 4 + j + 4
       /\ l = i + 4 + j + 4 + k
  BY <1>4, <1>9, <1>10
<1>12. i <= room => t.status = SUCCESS /\ t.out = a
  BY <1>2 DEF Written
<1>13. ~(i <= room) => t.status = BUFFER_TOO_SMALL
  BY <1>2
<1> HIDE DEF i, j, k, l
<1>14. CASE ~(i <= room)
  <2>1. w = t /\ t.status = BUFFER_TOO_SMALL
    BY <1>1, <1>13, <1>14 DEF BUFFER_TOO_SMALL, SUCCESS
  <2>2. ~(l <= room)
    BY <1>11, <1>14
  <2> QED BY <2>1, <2>2 DEF m, w, l
<1>15. CASE i <= room
  <2>1. t.status = SUCCESS /\ th = head
    BY <1>7, <1>12, <1>15 DEF head
  <2>2. w = IF room < Len(head) THEN TooSmall(t.out)
            ELSE IF room < Len(head) + LengthBytes THEN TooSmall(head)
            ELSE WriteEach(start, ws, room)
    BY <1>1, <2>1 DEF start
  <2>3. CASE room < Len(head)
    <3>1. w.status = BUFFER_TOO_SMALL
      BY <2>2, <2>3 DEF TooSmall
    <3>2. ~(l <= room)
      BY <1>11, <2>3
    <3> QED BY <3>1, <3>2 DEF m, w, l
  <2>4. CASE ~(room < Len(head)) /\ room < Len(head) + LengthBytes
    <3>1. w.status = BUFFER_TOO_SMALL
      BY <2>2, <2>4 DEF TooSmall
    <3>2. ~(l <= room)
      BY <1>11, <2>4 DEF LengthBytes
    <3> QED BY <3>1, <3>2 DEF m, w, l
  <2>5. CASE ~(room < Len(head)) /\ ~(room < Len(head) + LengthBytes)
    <3>1. w = WriteEach(start, ws, room)
      BY <2>2, <2>5
    <3>2. Len(start) <= room
      BY <1>11, <2>5 DEF LengthBytes
    <3>3. WritesEach(n, LengthCodes(n, es), f, ws)
      BY <1>3, <1>5, <1>8 DEF WritesEach
    <3>4. IF Len(start \o f[n]) <= room THEN WriteEach(start, ws, room) = Written(start \o f[n])
          ELSE WriteEach(start, ws, room).status = BUFFER_TOO_SMALL
      BY <1>3, <1>9, <3>2, <3>3, WriteEachWrites
    <3>5. IF l <= room THEN w = Written(m) ELSE w.status = BUFFER_TOO_SMALL
      BY <1>10, <3>1, <3>4 DEF g, l
    <3> QED BY <3>5 DEF m, w, l
  <2> QED BY <2>3, <2>4, <2>5
<1> QED BY <1>14, <1>15

LEMMA RequestSizeIs ==
    ASSUME NEW c \in Calls, NEW es, NEW n, NEW f, Coding(c.args, es, n, f), NEW a, IsTypeCode(ReqType, a)
    PROVE  Len(RequestBytes(a, c.name, n, f)) = RequestSize(c)
<1> DEFINE args == c.args
           name == c.name
           s == [i \in DOMAIN args |-> 4 + ValueSize(args[i])]
           cs == LengthCodes(n, es)
<1>1. name \in Seq(Byte) /\ Coding(args, es, n, f)
  BY Inputs DEF Buffers, BytesUpTo
<1>4. RequestSize(c) = Lengths(TypeSize[ReqType], Len(name), Sum(s))
  BY DEF RequestSize, Lengths
<1>0. Len(RequestBytes(a, c.name, n, f)) = Len(RequestBytes(a, name, n, f))
  OBVIOUS
<1> HIDE DEF args, name
<1>2. /\ n \in Nat /\ DOMAIN args = 1..n /\ AreParts(n, cs, f)
      /\ \A i \in 1..n : Len(es[i]) = ValueSize(args[i]) /\ Len(cs[i]) = 4 + Len(es[i])
  <2>1. Coding(args, es, n, f)
    BY <1>1
  <2> HIDE DEF cs
  <2>2. cs = LengthCodes(n, es)
    BY DEF cs
  <2>3. n \in Nat /\ DOMAIN args = 1..n /\ AreParts(n, LengthCodes(n, es), f)
    BY <2>1, CodedParts
  <2>4. \A i \in 1..n : Len(es[i]) = ValueSize(args[i])
    BY <2>1, CodedParts
  <2>5. \A i \in 1..n : Len(LengthCodes(n, es)[i]) = 4 + Len(es[i])
    BY <2>1, CodedParts
  <2> QED BY <2>2, <2>3, <2>4, <2>5
<1>3. DOMAIN s = 1..n /\ s = [i \in DOMAIN s |-> s[i]] /\ \A i \in 1..n : s[i] = 4 + ValueSize(args[i])
  BY <1>2
<1> HIDE DEF s, cs
<1>5. Len(s) = n
  BY <1>2, <1>3, LenOf
<1>6. \A i \in 1..n : s[i] = Len(cs[i])
  BY <1>2, <1>3
<1>7. Len(f[n]) = Sum(s)
  BY <1>2, <1>5, <1>6, JoinedLength, SMTT(30)
<1>9. Len(RequestBytes(a, name, n, f)) = Lengths(Len(a), Len(name), Len(f[n]))
  <2>1. name \in Seq(Byte)
    BY <1>1
  <2>2. Coding(args, es, n, f)
    BY <1>1
  <2> QED BY <2>1, <2>2, RequestLength
<1>10. Len(a) = TypeSize[ReqType]
  BY DEF IsTypeCode
<1> QED BY <1>0, <1>4, <1>7, <1>9, <1>10

-----------------------------------------------------------------------------
(* The server reads what the client sent, in the buffer of the worker.      *)
LEMMA SentRead ==
    ASSUME BuffersAre, NEW v, IsValueCode(v, msg)
    PROVE  LET r == ValueFromBuffer(Received(Over(msg, sbuf)))
           IN  r.status = SUCCESS /\ r.v \in Alike(v)
<1> DEFINE rest == After(sbuf, Len(msg))
<1>1. msg \in Seq(Byte) /\ sbuf \in Seq(Byte) /\ Len(msg) \in Nat /\ Len(msg) <= Len(sbuf)
      /\ Len(msg) <= MaxSize
  <2>1. msg \in Seq(Byte) /\ sbuf \in Seq(Byte) /\ Len(msg) \in Nat /\ Len(msg) <= Len(sbuf)
    BY BufferSizes DEF BuffersAre
  <2>2. Len(msg) <= MaxSize
    <3> DEFINE m == Len(msg)
               s == Len(sbuf)
    <3>1. m \in Nat /\ s \in Nat /\ m <= s /\ s <= MaxSize
      BY BufferSizes
    <3> HIDE DEF m, s
    <3>2. m <= MaxSize
      BY <3>1, MaxSizeType
    <3> QED BY <3>2 DEF m
  <2> QED BY <2>1, <2>2
<1>2. rest \in Seq(Byte)
  BY <1>1, AfterIs
<1>3. Received(Over(msg, sbuf)) = First(msg \o rest, Len(msg))
  BY DEF Received, Over
<1> HIDE DEF rest
<1>4. First(msg \o rest, Len(msg)) = msg
  BY <1>1, <1>2, FirstConcat
<1>5. msg \in Buffers
  BY <1>1 DEF Buffers, BytesUpTo
<1>6. ValueFromBuffer(msg).status = SUCCESS /\ ValueFromBuffer(msg).v \in Alike(v)
  BY <1>5, ValueRead
<1> QED BY <1>3, <1>4, <1>6

(* The arguments are those of the caller, if they have the types that the   *)
(* endpoint has.                                                            *)
Values == [type : Types, iv : Inners]

Understood(acc, types, args, i) ==
    /\ acc.status = SUCCESS /\ acc.values \in Seq(Values) /\ Len(acc.values) = i
    /\ \A j \in 1..i : types[j] = args[j].type /\ ValueEquals(acc.values[j], args[j])

Mismatched(acc, types, args, n) ==
    acc.status = ARGUMENT_MISMATCH /\ \E j \in 1..n : types[j] # args[j].type

LEMMA AlikeIs ==
    ASSUME NEW v, IsValue(v), NEW u \in Alike(v)
    PROVE  u \in Values /\ u.type = v.type /\ ValueEquals(u, v)
<1>1. /\ u \in [type : {v.type}, iv : InnerOf[v.type]] /\ ValueEquals(u, v) /\ v.type \in Types
      /\ InnerOf[v.type] \subseteq Inners
  BY InnersOfTypes DEF Alike, IsValue
<1> QED BY <1>1 DEF Values

LEMMA ArgRead ==
    ASSUME NEW acc, NEW types, NEW args, NEW i \in Nat, Understood(acc, types, args, i),
           NEW r, r.status = SUCCESS, NEW v, v = args[i + 1], IsValue(v), r.v \in Alike(v)
    PROVE  LET next == ParseStep(acc, types[i + 1], r)
           IN  IF types[i + 1] = v.type THEN Understood(next, types, args, i + 1)
               ELSE next.status = ARGUMENT_MISMATCH
<1> DEFINE next == ParseStep(acc, types[i + 1], r)
           u == r.v
           vs == acc.values
           w == Append(vs, u)
           s == IF types[i + 1] = v.type THEN SUCCESS ELSE ARGUMENT_MISMATCH
<1>1. u \in Values /\ u.type = v.type /\ ValueEquals(u, v)
  BY AlikeIs
<1>2. /\ acc.status = SUCCESS /\ vs \in Seq(Values) /\ Len(vs) = i
      /\ \A j \in 1..i : types[j] = args[j].type /\ ValueEquals(vs[j], args[j])
  BY DEF Understood
<1>3. next = [status |-> s, values |-> w, blocks |-> acc.blocks + r.blocks]
  BY <1>1, <1>2 DEF ParseStep, ParseNextArg, TypeEquals
<1> HIDE DEF next, u, vs, w, s
<1>4. next.status = s /\ next.values = w
  BY <1>3
<1>5. CASE types[i + 1] = v.type
  <2>1. w \in Seq(Values) /\ Len(w) = i + 1 /\ w[i + 1] = u /\ \A j \in 1..i : w[j] = vs[j]
    BY <1>1, <1>2, AppendProperties DEF w
  <2>2. s = SUCCESS
    BY <1>5 DEF s
  <2>3. ASSUME NEW j \in 1..(i + 1) PROVE types[j] = args[j].type /\ ValueEquals(w[j], args[j])
    <3>1. CASE j = i + 1
      BY <1>1, <1>5, <2>1, <3>1
    <3>2. CASE j # i + 1
      <4>1. j \in 1..i
        BY <3>2
      <4> QED BY <1>2, <2>1, <4>1
    <3> QED BY <3>1, <3>2
  <2>4. Understood(next, types, args, i + 1)
    BY <1>4, <2>1, <2>2, <2>3 DEF Understood
  <2> QED BY <1>5, <2>4 DEF next
<1>6. CASE types[i + 1] # v.type
  BY <1>4, <1>6 DEF s, next
<1> QED BY <1>5, <1>6

(* The blocks that the worker found in the request are codes of these       *)
(* arguments.                                                               *)
ArgsAreIn(args, n) == \A i \in 1..n :
    ReqArgs[i].block \in Buffers /\ IsValueCode(args[i], ReqArgs[i].block)

LEMMA ArgsRead ==
    ASSUME NEW args \in Seq(Built), NEW n, n = Len(args), ArgsAreIn(args, n),
           NEW ep, Len(ep.args) = n
    PROVE  Understood(ParseArgs(ep), ep.args, args, n) \/ Mismatched(ParseArgs(ep), ep.args, args, n)
<1>0. n \in Nat /\ \A i \in 1..n : IsValue(args[i])
  BY BuiltValues
<1>1. PICK f : IsParseArgs(f, ep, n) /\ ParseArgs(ep) = f[n]
  BY <1>0, ParseArgsIs
<1> DEFINE r(i) == ValueFromBuffer(ReqArgs[i].block)
           types == ep.args
           Right(i) == Understood(f[i], types, args, i) \/ Mismatched(f[i], types, args, n)
           G == {i \in Nat : i <= n => Right(i)}
<1>2. \A i \in 1..n : f[i] = ParseStep(f[i - 1], types[i], r(i))
  BY <1>1 DEF IsParseArgs
<1>3. \A i \in 1..n : r(i).status = SUCCESS /\ r(i).v \in Alike(args[i])
  BY ValueRead DEF ArgsAreIn
<1>4. f[0].status = SUCCESS /\ f[0].values = <<>>
  BY <1>1 DEF IsParseArgs
<1> HIDE DEF r, types
<1>5. 0 \in G
  <2>1. <<>> \in Seq(Values) /\ Len(<<>>) = 0
    BY EmptySeq
  <2>2. \A j \in 1..0 : FALSE
    OBVIOUS
  <2>3. Understood(f[0], types, args, 0)
    BY <1>4, <2>1, <2>2 DEF Understood
  <2> QED BY <2>3
<1>6. ASSUME NEW i \in 0..(n - 1), i \in G PROVE i + 1 \in G
  <2>1. i + 1 \in 1..n /\ (i + 1) - 1 = i /\ i <= n /\ i + 1 \in Nat /\ i \in Nat
    BY <1>0
  <2> DEFINE acc == f[i]
             x == r(i + 1)
             next == f[i + 1]
             v == args[i + 1]
  <2>2. Right(i)
    BY <1>6, <2>1
  <2>3. next = ParseStep(acc, types[i + 1], x)
    BY <1>2, <2>1
  <2>4. x.status = SUCCESS /\ x.v \in Alike(v) /\ IsValue(v)
    BY <1>0, <1>3, <2>1
  <2> HIDE DEF x
  <2>5. CASE Understood(acc, types, args, i)
    <3>1. IF types[i + 1] = v.type THEN Understood(next, types, args, i + 1)
          ELSE next.status = ARGUMENT_MISMATCH
      <4> HIDE DEF acc, next, v
      <4>1. v = args[i + 1]
        BY DEF v
      <4>2. IF types[i + 1] = v.type THEN Understood(ParseStep(acc, types[i + 1], x), types, args, i + 1)
            ELSE ParseStep(acc, types[i + 1], x).status = ARGUMENT_MISMATCH
        BY <2>1, <2>4, <2>5, <4>1, ArgRead
      <4> QED BY <2>3, <4>2
    <3>2. types[i + 1] # v.type => Mismatched(next, types, args, n)
      BY <2>1, <3>1 DEF Mismatched
    <3>3. Right(i + 1)
      BY <3>1, <3>2
    <3> QED BY <2>1, <3>3
  <2>6. CASE Mismatched(acc, types, args, n)
    <3>1. acc.status # SUCCESS
      BY <2>6 DEF Mismatched, ARGUMENT_MISMATCH, SUCCESS
    <3>2. next = acc
      BY <2>3, <3>1 DEF ParseStep
    <3>3. Right(i + 1)
      BY <2>6, <3>2
    <3> QED BY <2>1, <3>3
  <2> QED BY <2>2, <2>5, <2>6
<1>7. \A i \in 0..n : i \in G
  <2> HIDE DEF G
  <2> QED BY <1>0, <1>5, <1>6, Induction
<1>8. Right(n)
  BY <1>0, <1>7
<1> QED BY <1>1, <1>8 DEF types

LEMMA SignatureIs ==
    ASSUME NEW c \in Calls, NEW types \in Seq(Types)
    PROVE  Signature(c) = types <=>
               Len(types) = Len(c.args) /\ \A i \in 1..Len(c.args) : types[i] = c.args[i].type
<1> DEFINE args == c.args
           n == Len(args)
           s == [i \in DOMAIN args |-> args[i].type]
<1>1. args \in Seq(Built) /\ n \in Nat /\ DOMAIN args = 1..n
  BY Inputs, LenProperties
<1>2. Signature(c) = s
  BY DEF Signature
<1> HIDE DEF args, n
<1>3. DOMAIN s = 1..n /\ s = [i \in DOMAIN s |-> s[i]] /\ \A i \in 1..n : s[i] = args[i].type
  BY <1>1
<1> HIDE DEF s
<1>4. Len(s) = n
  BY <1>1, <1>3, LenOf
<1>5. Len(types) \in Nat /\ DOMAIN types = 1..Len(types) /\ types = [i \in DOMAIN types |-> types[i]]
  BY LenProperties
<1>6. s = types => Len(types) = n /\ \A i \in 1..n : types[i] = args[i].type
  BY <1>3, <1>4
<1>7. Len(types) = n /\ (\A i \in 1..n : types[i] = args[i].type) => s = types
  <2> SUFFICES ASSUME Len(types) = n, \A i \in 1..n : types[i] = args[i].type PROVE s = types
    OBVIOUS
  <2>1. DOMAIN types = DOMAIN s /\ \A i \in DOMAIN s : types[i] = s[i]
    BY <1>3, <1>5
  <2> QED BY <1>3, <1>5, <2>1
<1> QED BY <1>2, <1>6, <1>7 DEF n, args

LEMMA JoinedItem ==
    ASSUME NEW n \in Nat, NEW es, NEW f, AreParts(n, es, f)
    PROVE  \A i \in 1..n : Len(es[i]) \in Nat /\ Len(es[i]) <= Len(f[n]) /\ Len(f[n]) \in Nat
<1>1. /\ \A i \in 0..n : f[i] \in Seq(Byte) /\ Len(f[i]) \in Nat
      /\ \A i \in 1..n : Len(es[i]) \in Nat /\ Len(f[i]) = Len(f[i - 1]) + Len(es[i])
  BY JoinedTypes
<1> DEFINE l(i) == Len(f[i])
           k(i) == Len(es[i])
           G == {m \in Nat : m <= n => \A i \in 1..m : k(i) <= l(m)}
<1>2. (\A i \in 0..n : l(i) \in Nat) /\ \A i \in 1..n : k(i) \in Nat /\ l(i) = l(i - 1) + k(i)
  BY <1>1
<1> HIDE DEF l, k
<1>3. 0 \in G
  OBVIOUS
<1>4. ASSUME NEW m \in 0..(n - 1), m \in G PROVE m + 1 \in G
  <2>1. m + 1 \in 1..n /\ (m + 1) - 1 = m /\ m <= n /\ m + 1 \in Nat /\ m \in 0..n /\ m \in Nat
    OBVIOUS
  <2>2. l(m) \in Nat /\ k(m + 1) \in Nat /\ l(m + 1) = l(m) + k(m + 1)
    BY <1>2, <2>1
  <2>3. \A i \in 1..m : k(i) <= l(m) /\ k(i) \in Nat
    BY <1>2, <1>4, <2>1
  <2>4. ASSUME NEW i \in 1..(m + 1) PROVE k(i) <= l(m + 1)
    <3>1. CASE i = m + 1
      BY <2>2, <3>1
    <3>2. CASE i # m + 1
      <4>1. i \in 1..m
        BY <3>2
      <4> QED BY <2>2, <2>3, <4>1
    <3> QED BY <3>1, <3>2
  <2> QED BY <2>1, <2>4
<1>5. \A m \in 0..n : m \in G
  <2> HIDE DEF G
  <2> QED BY <1>3, <1>4, Induction
<1>6. \A i \in 1..n : k(i) <= l(n)
  BY <1>5
<1>7. l(n) \in Nat
  BY <1>2
<1> QED BY <1>2, <1>6, <1>7 DEF k, l

LEMMA RawIsNoCall == ASSUME NEW raw \in RawMessages PROVE raw \notin Calls
<1>1. raw \in [bytes : Buffers, status : Nat]
  BY Inputs
<1>2. DOMAIN raw = {"bytes", "status"}
  BY <1>1
<1>3. ASSUME raw \in Calls PROVE FALSE
  <2>1. raw \in [name : Buffers, args : Seq(Built), keep : BOOLEAN]
    BY <1>3, Inputs
  <2>2. DOMAIN raw = {"name", "args", "keep"}
    BY <2>1
  <2> QED BY <1>2, <2>2
<1> QED BY <1>3

-----------------------------------------------------------------------------
(* What has become of a call, at each stage.                                *)
FitsClient(c) == ~(Len(c.args) > MaxArgs) /\ ~(RequestSize(c) > Len(cbuf))

Sent(c) == \E es :
    /\ \A i \in 1..Len(c.args) : es[i] \in Buffers
    /\ Coded(c.args, es)
    /\ IsValueCode(ReqValue(c.name, Len(c.args), es), msg)

Handled(c) ==
    req.type = ReqType /\ Name = c.name /\ Len(ReqArgs) = Len(c.args) /\ ArgsAreIn(c.args, Len(c.args))

Running(c) ==
    /\ Name = c.name /\ Lookup(c.name) # None /\ Signature(c) = Lookup(c.name).args
    /\ Same(given, c.args) /\ given \in Seq(Values)

Answered(c) == \E s \in Byte, bytes \in Buffers :
    /\ IsValueCode(RespValue(s, bytes), msg) /\ Outcome(c) = s
    /\ IF s = SUCCESS THEN ran # None /\ ran.ret \in AtMostOne(Built) /\ OptionCode(ran.ret, bytes)
       ELSE bytes = <<>>

Returned(c) ==
    /\ result.status = Outcome(c)
    /\ result.status = SUCCESS =>
           ran # None /\ Same(result.ret, IF c.keep THEN ran.ret ELSE <<>>)

Progress(c) ==
    /\ stage \notin {"idle", "over"} => FitsClient(c)
    /\ stage \in {"request", "handle", "run"} => ran = None
    /\ stage = "request" => Sent(c)
    /\ stage = "handle" => Handled(c)
    /\ stage = "run" => Running(c)
    /\ stage = "response" => Answered(c)
    /\ stage = "closed" => Outcome(c) = CHANNEL_ERROR
    /\ stage \in {"idle", "over"} => Returned(c)
    /\ ran # None => Same(ran.args, c.args)

Calling == \A c \in Calls : call = c => Progress(c)

LEMMA OutcomeKept ==
    ASSUME NEW c, Len(cbuf') = Len(cbuf), ran' = ran
    PROVE  Outcome(c)' = Outcome(c)
BY DEF Outcome

LEMMA CallingInit == Init => Calling
<1> SUFFICES ASSUME Init, NEW c \in Calls, call = c PROVE FALSE
  BY DEF Calling
<1>1. call = None
  BY DEF Init
<1> QED BY <1>1, NoneIsNoCall

LEMMA CallingHolds == Calling => CallIsRight
<1> SUFFICES ASSUME Calling, stage \in {"idle", "over"}, call \in Calls
             PROVE  /\ result.status = Outcome(call)
                    /\ ran # None => Same(ran.args, call.args)
                    /\ result.status = SUCCESS =>
                           ran # None /\ Same(result.ret, IF call.keep THEN ran.ret ELSE <<>>)
  BY DEF CallIsRight
<1>1. Progress(call)
  BY DEF Calling
<1> QED BY <1>1 DEF Progress, Returned

LEMMA SendRequestCalls ==
    ASSUME BuffersAre, NEW d \in Calls, SendRequest(d), NEW c \in Calls, call' = c
    PROVE  Progress(c)'
<1> DEFINE n == Len(c.args)
           room == Len(cbuf)
           w == IF n > MaxArgs THEN [status |-> TOO_MANY_ARGUMENTS, out |-> <<>>]
                ELSE RequestToBuffer(c.name, c.args, room)
           es == [i \in 1..n |-> CHOOSE e : IsValueCode(c.args[i], e)]
<1>1. d = c
  BY DEF SendRequest
<1>2. /\ stage = "idle" /\ cbuf' = Over(w.out, cbuf) /\ ran' = None
      /\ IF w.status = SUCCESS THEN stage' = "request" /\ msg' = w.out
         ELSE stage' = stage /\ result' = [status |-> w.status, ret |-> <<>>]
  BY <1>1 DEF SendRequest
<1>3. /\ c.args \in Seq(Built) /\ c.name \in Buffers /\ c.name \in Seq(Byte) /\ c.name = String(c.name)
  BY Inputs, Names DEF Buffers, BytesUpTo
<1>4. n \in Nat /\ room \in Nat /\ room <= MaxSize /\ MaxSize >= ErrorSize /\ cbuf \in Seq(Byte)
  BY <1>3, BufferSizes, LenProperties DEF BuffersAre
<1>5. Len(cbuf') = Len(cbuf)
  <2>1. w.out \in Seq(Byte) /\ Len(w.out) <= room
    <3>1. CASE n > MaxArgs
      <4>1. w.out = <<>>
        BY <3>1
      <4>2. <<>> \in Seq(Byte) /\ Len(<<>>) = 0
        BY EmptySeq
      <4> HIDE DEF w, room
      <4>3. 0 <= room
        BY <1>4
      <4> QED BY <4>1, <4>2, <4>3
    <3>2. CASE ~(n > MaxArgs)
      <4>1. Fits(RequestToBuffer(c.name, c.args, room), room)
        BY <1>3, <1>4, RequestFits
      <4>2. w = RequestToBuffer(c.name, c.args, room)
        BY <3>2
      <4> QED BY <4>1, <4>2 DEF Fits
    <3> QED BY <3>1, <3>2
  <2> HIDE DEF w
  <2> QED BY <1>2, <1>4, <2>1, OverIs
<1>6. MaxArgs \in Nat
  BY Sizes
<1>7. CASE n > MaxArgs
  <2>1. w.status = TOO_MANY_ARGUMENTS
    BY <1>7
  <2>2. stage' = "idle" /\ result'.status = TOO_MANY_ARGUMENTS
    BY <1>2, <2>1 DEF TOO_MANY_ARGUMENTS, SUCCESS
  <2>3. Outcome(c)' = TOO_MANY_ARGUMENTS
    BY <1>7 DEF Outcome
  <2>4. Returned(c)'
    BY <2>2, <2>3 DEF Returned, TOO_MANY_ARGUMENTS, SUCCESS
  <2> QED BY <1>2, <2>2, <2>4 DEF Progress
<1>8. CASE ~(n > MaxArgs)
  <2>1. w = RequestToBuffer(c.name, c.args, room)
    BY <1>8
  <2>2. Coded(c.args, es)
    <3>1. \A i \in 1..n : IsValue(c.args[i])
      BY <1>3, BuiltValues
    <3>2. \A i \in 1..n : IsValueCode(c.args[i], es[i])
      BY <3>1, ValueCodes
    <3> HIDE DEF es
    <3> QED BY <3>2 DEF Coded
  <2> HIDE DEF es, w
  <2>3. PICK f : IsJoined(f, LengthCodes(n, es), n)
    BY <1>4, JoinedIs
  <2>4. PICK a : IsTypeCode(ReqType, a)
    BY <1>4, MessageTypes, TypeCodes
  <2>5. Coding(c.args, es, n, f)
    BY <1>3, <2>2, <2>3 DEF Coding
  <2> DEFINE m == RequestBytes(a, c.name, n, f)
  <2>6. Len(m) = RequestSize(c)
    BY <2>4, <2>5, RequestSizeIs, ZenonT(60)
  <2>7. IF Len(m) <= room THEN w = Written(m) ELSE w.status = BUFFER_TOO_SMALL
    BY <1>3, <1>4, <2>1, <2>4, <2>5, RequestWrites
  <2> HIDE DEF m
  <2>8. CASE ~(Len(m) <= room)
    <3>1. stage' = "idle" /\ result'.status = BUFFER_TOO_SMALL
      BY <1>2, <2>7, <2>8 DEF BUFFER_TOO_SMALL, SUCCESS
    <3>2. Outcome(c)' = BUFFER_TOO_SMALL
      BY <1>5, <1>8, <2>6, <2>8 DEF Outcome
    <3>3. Returned(c)'
      BY <3>1, <3>2 DEF Returned, BUFFER_TOO_SMALL, SUCCESS
    <3> QED BY <1>2, <3>1, <3>3 DEF Progress
  <2>9. CASE Len(m) <= room
    <3>1. stage' = "request" /\ msg' = m
      BY <1>2, <2>7, <2>9 DEF Written
    <3>2. ASSUME NEW i \in 1..n PROVE es[i] \in Buffers
      <4>1. es[i] \in Seq(Byte) /\ Len(LengthCodes(n, es)[i]) = 4 + Len(es[i])
            /\ AreParts(n, LengthCodes(n, es), f)
        BY <2>5, CodedParts
      <4>2. Len(LengthCodes(n, es)[i]) <= Len(f[n]) /\ Len(f[n]) \in Nat
        BY <1>4, <4>1, JoinedItem
      <4>3. Len(m) = Lengths(Len(a), Len(c.name), Len(f[n]))
        BY <1>3, <2>4, <2>5, RequestLength DEF m
      <4>4. Len(a) \in Nat /\ Len(c.name) \in Nat /\ Len(es[i]) \in Nat
        BY <1>3, <2>4, <4>1, LenProperties DEF IsTypeCode
      <4> DEFINE j == Len(a)
                 k == Len(c.name)
                 l == Len(f[n])
                 o == Len(es[i])
                 p == Len(m)
      <4>5. /\ j \in Nat /\ k \in Nat /\ l \in Nat /\ o \in Nat /\ 4 + o <= l
            /\ p = j + 4 + k + 4 + l /\ p <= room
        BY <2>9, <4>1, <4>2, <4>3, <4>4 DEF Lengths
      <4> HIDE DEF j, k, l, o, p, room
      <4>6. o <= MaxSize
        BY <1>4, <4>5, MaxSizeType
      <4> QED BY <4>1, <4>6 DEF o, Buffers, BytesUpTo
    <3>3. IsValueCode(ReqValue(c.name, n, es), m)
      BY <1>3, <1>4, <2>3, <2>4, <3>2, RequestCode DEF m
    <3>4. Sent(c)'
      <4> HIDE DEF n
      <4>1. n = Len(c.args)
        BY DEF n
      <4> QED BY <2>2, <3>1, <3>2, <3>3, <4>1 DEF Sent
    <3>5. FitsClient(c)'
      <4>1. Len(m) \in Nat
        BY <3>3 DEF IsValueCode
      <4>2. ~(Len(m) > room)
        BY <1>4, <2>9, <4>1
      <4> QED BY <1>5, <1>8, <2>6, <4>2 DEF FitsClient
    <3> QED BY <1>2, <3>1, <3>4, <3>5 DEF Progress
  <2> QED BY <2>8, <2>9
<1> QED BY <1>7, <1>8

(* A peer that is no client makes no call.                                  *)
LEMMA SendRawCalls ==
    ASSUME NEW raw \in RawMessages, SendRaw(raw), NEW c \in Calls, call' = c
    PROVE  FALSE
BY RawIsNoCall DEF SendRaw

LEMMA PollChannelCalls ==
    ASSUME BuffersAre, PollChannel, NEW c \in Calls, Progress(c)
    PROVE  Progress(c)'
<1> DEFINE buf == Over(msg, sbuf)
           r == ValueFromBuffer(Received(buf))
           n == Len(c.args)
<1>1. /\ stage = "request" /\ UNCHANGED <<cbuf, call, result, given, ran>>
      /\ r.status = SUCCESS => req' = r.v /\ stage' = "handle"
  BY DEF PollChannel
<1>2. FitsClient(c) /\ ran = None /\ Sent(c)
  BY <1>1 DEF Progress
<1>3. PICK es : /\ \A i \in 1..n : es[i] \in Buffers
                /\ Coded(c.args, es)
                /\ IsValueCode(ReqValue(c.name, n, es), msg)
  BY <1>2 DEF Sent
<1>4. /\ c.args \in Seq(Built) /\ c.name \in Buffers /\ c.name = String(c.name)
      /\ n \in Nat /\ MaxSize >= ErrorSize
  BY Inputs, Names, BufferSizes, LenProperties
<1>5. r.status = SUCCESS /\ r.v \in Alike(ReqValue(c.name, n, es))
  BY <1>3, SentRead
<1> HIDE DEF r, n
<1> DEFINE u == r.v
<1>6. u \in Alike(ReqValue(c.name, n, es))
  BY <1>5
<1>7. stage' = "handle" /\ req' = u
  BY <1>1, <1>5
<1> HIDE DEF u
<1>8. /\ u.type = ReqType /\ String(u.iv.members[1].block) = c.name
      /\ Len(u.iv.members[2].members) = n
      /\ \A i \in 1..n : u.iv.members[2].members[i].block = es[i]
  <2>1. c.name \in Buffers /\ c.name = String(c.name)
    BY <1>4
  <2>2. n \in Nat /\ MaxSize >= ErrorSize
    BY <1>4
  <2>3. \A i \in 1..n : es[i] \in Buffers
    BY <1>3
  <2> DEFINE name == c.name
  <2>4. name \in Buffers /\ name = String(name) /\ u \in Alike(ReqValue(name, n, es))
    BY <1>6, <2>1
  <2> HIDE DEF name
  <2>5. /\ u.type = ReqType /\ String(u.iv.members[1].block) = name
        /\ Len(u.iv.members[2].members) = n
        /\ \A i \in 1..n : u.iv.members[2].members[i].block = es[i]
    BY <2>2, <2>3, <2>4, RequestBack
  <2> QED BY <2>5 DEF name
<1>9. \A i \in 1..n : IsValueCode(c.args[i], es[i])
  BY <1>3 DEF Coded, n
<1>10. ArgsAreIn(c.args, n)'
  BY <1>3, <1>7, <1>8, <1>9 DEF ArgsAreIn, ReqArgs
<1>11. Handled(c)'
  BY <1>7, <1>8, <1>10 DEF Handled, Name, ReqArgs, n
<1>12. FitsClient(c)'
  BY <1>1, <1>2 DEF FitsClient
<1> QED BY <1>1, <1>2, <1>7, <1>11, <1>12 DEF Progress

(* What is refused is answered with the outcome.                            *)
LEMMA ErrorCalls ==
    ASSUME BuffersAre, NEW status \in Byte, status # SUCCESS, NEW buf \in Seq(Byte), Len(buf) = Len(sbuf),
           ErrorResponse(status, buf), NEW c \in Calls, Outcome(c)' = status,
           FitsClient(c), cbuf' = cbuf, ran' # None => Same(ran'.args, c.args)
    PROVE  Progress(c)'
<1>1. stage' = "response" /\ IsValueCode(RespValue(status, <<>>), msg')
  BY ErrorAnswers
<1>2. <<>> \in Buffers
  <2>1. <<>> \in Seq(Byte) /\ Len(<<>>) = 0
    BY EmptySeq
  <2>2. 0 <= MaxSize
    BY MaxSizeType
  <2> QED BY <2>1, <2>2 DEF Buffers, BytesUpTo
<1>3. Answered(c)'
  BY <1>1, <1>2 DEF Answered
<1>4. FitsClient(c)'
  BY DEF FitsClient
<1> QED BY <1>1, <1>3, <1>4 DEF Progress

LEMMA LookupArgs ==
    ASSUME NEW name, Lookup(name) # None
    PROVE  /\ Lookup(name).args \in Seq(Types) /\ Lookup(name).ret \in AtMostOne(Types)
           /\ Lookup(name).returns \subseteq AtMostOne(Built)
<1>1. PICK i \in DOMAIN Declared : Lookup(name) = Declared[i]
  BY LookupIs
<1>2. Declared[i] \in [name : Buffers, args : Seq(Types), ret : AtMostOne(Types),
                       returns : SUBSET AtMostOne(Built)]
  BY Inputs, LenProperties, ElementOfSeq
<1> QED BY <1>1, <1>2

LEMMA OutcomeRefused ==
    ASSUME NEW c, FitsClient(c), cbuf' = cbuf
    PROVE  /\ Lookup(c.name) = None => Outcome(c)' = UNKNOWN_ENDPOINT
           /\ Lookup(c.name) # None /\ Signature(c) # Lookup(c.name).args
                  => Outcome(c)' = ARGUMENT_MISMATCH
BY DEF FitsClient, Outcome

LEMMA OutcomeRun ==
    ASSUME NEW c, FitsClient(c), cbuf' = cbuf, Lookup(c.name) # None,
           Signature(c) = Lookup(c.name).args, ran' # None
    PROVE  Outcome(c)' = IF ReturnType(ran'.ret) # Lookup(c.name).ret THEN CHANNEL_ERROR
                         ELSE IF ResponseSize(ran'.ret) > Len(cbuf) THEN BUFFER_TOO_SMALL
                         ELSE SUCCESS
BY DEF FitsClient, Outcome

(* The type of what is returned is compared as a type or none.              *)
LEMMA ReturnTypeIs ==
    ASSUME NEW ep, ep.ret \in AtMostOne(Types), NEW ret \in AtMostOne(Built)
    PROVE  ReturnMatches(ep, ret) <=> ReturnType(ret) = ep.ret
<1> DEFINE s == ReturnType(ret)
           t == ep.ret
<1>1. /\ t \in Seq(Types) /\ ret \in Seq(Built) /\ Len(t) \in Nat /\ Len(ret) \in Nat
      /\ Len(t) <= 1 /\ Len(ret) <= 1 /\ DOMAIN ret = 1..Len(ret) /\ DOMAIN t = 1..Len(t)
      /\ t = [i \in 1..Len(t) |-> t[i]]
  BY LenProperties DEF AtMostOne
<1>2. ret # <<>> <=> Len(ret) # 0
  BY <1>1, EmptySeq
<1>3. s = [i \in 1..Len(ret) |-> ret[i].type]
  BY <1>1 DEF ReturnType
<1>4. ReturnMatches(ep, ret) <=> Len(t) = Len(ret) /\ (ret # <<>> => t[1] = ret[1].type)
  BY DEF ReturnMatches, TypeEquals
<1> DEFINE l == Len(t)
           k == Len(ret)
<1>5. /\ l \in Nat /\ k \in Nat /\ l <= 1 /\ k <= 1 /\ (ret # <<>> <=> k # 0)
      /\ s = [i \in 1..k |-> ret[i].type] /\ t = [i \in 1..l |-> t[i]]
      /\ ReturnMatches(ep, ret) <=> l = k /\ (ret # <<>> => t[1] = ret[1].type)
  BY <1>1, <1>2, <1>3, <1>4
<1> HIDE DEF l, k, s, t
<1>6. ASSUME s = t PROVE ReturnMatches(ep, ret)
  <2>1. 1..k = 1..l
    BY <1>5, <1>6
  <2>2. l = k
    BY <1>5, <2>1
  <2>3. CASE k = 0
    BY <1>5, <2>2, <2>3
  <2>4. CASE k # 0
    <3>1. 1 \in 1..k
      BY <1>5, <2>4
    <3>2. t[1] = ret[1].type
      BY <1>5, <1>6, <3>1
    <3> QED BY <1>5, <2>2, <3>2
  <2> QED BY <2>3, <2>4
<1>7. ASSUME ReturnMatches(ep, ret) PROVE s = t
  <2>1. l = k /\ (k # 0 => t[1] = ret[1].type)
    BY <1>5, <1>7
  <2>2. \A i \in 1..k : i = 1 /\ k # 0
    BY <1>5
  <2>3. \A i \in 1..k : t[i] = ret[i].type
    BY <2>1, <2>2
  <2> QED BY <1>5, <2>1, <2>3
<1> QED BY <1>6, <1>7 DEF s, t

LEMMA HandleRequestCalls ==
    ASSUME BuffersAre, HandleRequest, NEW c \in Calls, Progress(c)
    PROVE  Progress(c)'
<1> DEFINE n == Len(c.args)
           ep == Lookup(Name)
           wrong == IF ~TypeEquals(ReqType, req.type) THEN BAD_REQUEST
                    ELSE IF ep = None THEN UNKNOWN_ENDPOINT
                    ELSE IF Len(ep.args) # Len(ReqArgs) THEN ARGUMENT_MISMATCH
                    ELSE SUCCESS
           p == ParseArgs(ep)
<1>1. /\ stage = "handle" /\ UNCHANGED <<cbuf, call, result, ran>>
      /\ IF wrong # SUCCESS THEN ErrorResponse(wrong, sbuf)
         ELSE IF p.status # SUCCESS THEN ErrorResponse(p.status, sbuf)
         ELSE stage' = "run" /\ given' = p.values /\ req' = req
  BY DEF HandleRequest
<1>2. FitsClient(c) /\ ran = None /\ Handled(c)
  BY <1>1 DEF Progress
<1>3. req.type = ReqType /\ Name = c.name /\ Len(ReqArgs) = n /\ ArgsAreIn(c.args, n)
  BY <1>2 DEF Handled
<1>4. c.args \in Seq(Built) /\ sbuf \in Seq(Byte)
  BY Inputs DEF BuffersAre
<1>5. ep = Lookup(c.name)
  BY <1>3
<1>6. /\ ep = None => Outcome(c)' = UNKNOWN_ENDPOINT
      /\ ep # None /\ Signature(c) # ep.args => Outcome(c)' = ARGUMENT_MISMATCH
  BY <1>1, <1>2, <1>5, OutcomeRefused
<1>7. ~(ran' # None)
  BY <1>1, <1>2
<1>8. \A s \in {UNKNOWN_ENDPOINT, ARGUMENT_MISMATCH} : s \in Byte /\ s # SUCCESS
  BY DEF UNKNOWN_ENDPOINT, ARGUMENT_MISMATCH, SUCCESS, Byte
<1>9. ASSUME NEW s \in {UNKNOWN_ENDPOINT, ARGUMENT_MISMATCH}, ErrorResponse(s, sbuf), Outcome(c)' = s
      PROVE Progress(c)'
  BY <1>1, <1>2, <1>4, <1>7, <1>8, <1>9, ErrorCalls
<1>10. CASE ep = None
  <2>1. wrong = UNKNOWN_ENDPOINT
    BY <1>3, <1>10 DEF TypeEquals
  <2>2. ErrorResponse(UNKNOWN_ENDPOINT, sbuf)
    BY <1>1, <1>8, <2>1
  <2> QED BY <1>6, <1>9, <1>10, <2>2
<1>11. CASE ep # None
  <2>1. ep.args \in Seq(Types)
    BY <1>11, LookupArgs
  <2>2. Signature(c) = ep.args <=> Len(ep.args) = n /\ \A i \in 1..n : ep.args[i] = c.args[i].type
    BY <2>1, SignatureIs
  <2>3. CASE Len(ep.args) # n
    <3>1. wrong = ARGUMENT_MISMATCH
      BY <1>3, <1>11, <2>3 DEF TypeEquals
    <3>2. ErrorResponse(ARGUMENT_MISMATCH, sbuf)
      BY <1>1, <1>8, <3>1
    <3> QED BY <1>6, <1>9, <1>11, <2>2, <2>3, <3>2
  <2>4. CASE Len(ep.args) = n
    <3>1. wrong = SUCCESS
      BY <1>3, <1>11, <2>4 DEF TypeEquals
    <3>2. Understood(p, ep.args, c.args, n) \/ Mismatched(p, ep.args, c.args, n)
      <4> HIDE DEF ep
      <4> QED BY <1>3, <1>4, <2>4, ArgsRead
    <3> HIDE DEF p
    <3>3. CASE Mismatched(p, ep.args, c.args, n)
      <4>1. p.status = ARGUMENT_MISMATCH /\ Signature(c) # ep.args
        BY <2>2, <3>3 DEF Mismatched
      <4>2. ErrorResponse(ARGUMENT_MISMATCH, sbuf)
        BY <1>1, <1>8, <3>1, <4>1
      <4> QED BY <1>6, <1>9, <1>11, <4>1, <4>2
    <3>4. CASE Understood(p, ep.args, c.args, n)
      <4>1. /\ p.status = SUCCESS /\ p.values \in Seq(Values) /\ Len(p.values) = n
            /\ \A j \in 1..n : ep.args[j] = c.args[j].type /\ ValueEquals(p.values[j], c.args[j])
        BY <3>4 DEF Understood
      <4>2. stage' = "run" /\ given' = p.values /\ req' = req
        BY <1>1, <3>1, <4>1
      <4>3. Signature(c) = ep.args
        BY <2>2, <2>4, <4>1
      <4>4. Same(p.values, c.args)
        <5>1. DOMAIN p.values = 1..n
          BY <4>1, LenProperties
        <5> QED BY <4>1, <5>1 DEF Same
      <4>5. Name' = c.name
        BY <1>3, <4>2 DEF Name
      <4>6. Running(c)'
        <5> HIDE DEF ep
        <5>1. Same(given', c.args) /\ given' \in Seq(Values)
          BY <4>1, <4>2, <4>4
        <5> QED BY <1>5, <1>11, <4>3, <4>5, <5>1 DEF Running
      <4>7. FitsClient(c)'
        BY <1>1, <1>2 DEF FitsClient
      <4> QED BY <1>1, <1>2, <4>2, <4>6, <4>7 DEF Progress
    <3> QED BY <3>2, <3>3, <3>4
  <2> QED BY <2>3, <2>4
<1> QED BY <1>10, <1>11

LEMMA RanIsSome ==
    ASSUME NEW values \in Seq(Values), NEW ret \in AtMostOne(Built)
    PROVE  [args |-> values, ret |-> ret] # None
BY NoneHasRun DEF Values

(* A value that is returned has a code, and so has the answer with it.      *)
LEMMA ReturnCodes ==
    ASSUME NEW ret \in AtMostOne(Built)
    PROVE  \E e : OptionCode(ret, e)
<1>1. CASE ret = <<>>
  BY <1>1, EmptySeq DEF OptionCode
<1>2. CASE ret # <<>>
  <2>1. ret \in Seq(Built)
    BY DEF AtMostOne
  <2>2. Len(ret) \in Nat /\ Len(ret) # 0
    BY <1>2, <2>1, LenProperties, EmptySeq
  <2>3. IsValue(ret[1])
    <3> DEFINE l == Len(ret)
    <3>1. l \in Nat /\ l # 0
      BY <2>2
    <3> HIDE DEF l
    <3>2. 1 \in 1..l
      BY <3>1
    <3> QED BY <2>1, <3>2, BuiltValues DEF l
  <2>4. PICK e : IsValueCode(ret[1], e)
    BY <2>3, ValueCodes
  <2> QED BY <1>2, <2>4 DEF OptionCode, IsValueCode
<1> QED BY <1>1, <1>2

LEMMA AnswerCodes ==
    ASSUME MaxSize >= ErrorSize, NEW a, IsTypeCode(RespType, a), NEW e \in Seq(Byte),
           Len(AnswerBytes(a, e)) <= MaxSize
    PROVE  e \in Buffers /\ IsValueCode(RespValue(SUCCESS, e), AnswerBytes(a, e))
<1> DEFINE m == Len(AnswerBytes(a, e))
           l == Len(e)
           k == Len(a)
<1>1. a \in Seq(Byte)
  BY DEF IsTypeCode
<1>2. m = k + 5 + l /\ k \in Nat /\ l \in Nat /\ m <= MaxSize
  BY <1>1, AnswerBytesAre
<1> HIDE DEF m, l, k
<1>3. l <= MaxSize
  BY <1>2, MaxSizeType
<1>4. e \in Buffers
  BY <1>3 DEF l, Buffers, BytesUpTo
<1>5. SUCCESS \in Byte
  BY DEF SUCCESS, Byte
<1> QED BY <1>4, <1>5, RespCode DEF AnswerBytes

LEMMA RespondCalls ==
    ASSUME BuffersAre, NEW ret \in Lookup(Name).returns, Respond(ret), NEW c \in Calls, Progress(c)
    PROVE  Progress(c)'
<1> DEFINE ep == Lookup(Name)
           w == ResponseToBuffer(ret, Len(sbuf))
<1>1. /\ stage = "run"
      /\ IF ~ReturnMatches(ep, ret)
         THEN stage' = "closed"
         ELSE IF w.status # SUCCESS THEN ErrorResponse(w.status, Over(w.out, sbuf))
         ELSE IF Len(w.out) > Len(cbuf) THEN ErrorResponse(BUFFER_TOO_SMALL, Over(w.out, sbuf))
         ELSE msg' = w.out /\ stage' = "response"
      /\ ran' = [args |-> given, ret |-> ret]
      /\ UNCHANGED <<cbuf, call, result>>
  BY DEF Respond
<1>2. FitsClient(c) /\ Running(c)
  BY <1>1 DEF Progress
<1>3. /\ ep = Lookup(c.name) /\ Lookup(c.name) # None /\ Signature(c) = Lookup(c.name).args
      /\ Same(given, c.args) /\ given \in Seq(Values) /\ ep # None
  BY <1>2 DEF Running
<1>4. ret \in AtMostOne(Built) /\ IsOption(ret)
      /\ (ReturnMatches(ep, ret) <=> ReturnType(ret) = Lookup(c.name).ret)
  BY <1>3, LookupArgs, LookupType, ReturnTypeIs
<1> HIDE DEF ep, w
<1>5. ran' # None /\ ran'.ret = ret /\ Same(ran'.args, c.args)
  BY <1>1, <1>3, <1>4, RanIsSome
<1>6. Outcome(c)' = IF ~ReturnMatches(ep, ret) THEN CHANNEL_ERROR
                    ELSE IF ResponseSize(ret) > Len(cbuf) THEN BUFFER_TOO_SMALL
                    ELSE SUCCESS
  BY <1>1, <1>2, <1>3, <1>4, <1>5, OutcomeRun
<1>7. PICK e : OptionCode(ret, e)
  BY <1>4, ReturnCodes
<1>8. /\ Len(cbuf) \in Nat /\ Len(sbuf) \in Nat /\ Len(cbuf) <= Len(sbuf) /\ Len(cbuf) <= MaxSize
      /\ MaxSize >= ErrorSize /\ sbuf \in Seq(Byte)
  BY BufferSizes DEF BuffersAre
<1>9. PICK a : IsTypeCode(RespType, a)
  BY <1>8, MessageTypes, TypeCodes
<1> DEFINE m == AnswerBytes(a, e)
<1>10. Len(m) = ResponseSize(ret)
  BY <1>4, <1>7, <1>9, AnswerSize
<1>11. IF Len(m) <= Len(sbuf) THEN w = Written(m) ELSE w.status # SUCCESS
  BY <1>7, <1>8, <1>9, AnswerWrites DEF w
<1>12. e \in Seq(Byte) /\ a \in Seq(Byte)
  BY <1>7, <1>9 DEF OptionCode, IsTypeCode
<1>13. Len(m) \in Nat
  BY <1>12, AnswerBytesAre, LenProperties
<1>14. Fits(w, Len(sbuf))
  BY <1>4, <1>8, ResponseFits DEF w
<1>15. w.status \in {SUCCESS, BUFFER_TOO_SMALL} /\ w.out \in Seq(Byte) /\ Len(w.out) <= Len(sbuf)
  BY <1>14 DEF Fits
<1>16. Over(w.out, sbuf) \in Seq(Byte) /\ Len(Over(w.out, sbuf)) = Len(sbuf)
  BY <1>8, <1>15, OverIs
<1>17. BUFFER_TOO_SMALL \in Byte /\ BUFFER_TOO_SMALL # SUCCESS
  BY DEF BUFFER_TOO_SMALL, SUCCESS, Byte
<1>18. FitsClient(c)'
  BY <1>1, <1>2 DEF FitsClient
<1>19. ASSUME ErrorResponse(BUFFER_TOO_SMALL, Over(w.out, sbuf)), ReturnMatches(ep, ret),
              Len(m) > Len(cbuf)
       PROVE  Progress(c)'
  <2>1. Outcome(c)' = BUFFER_TOO_SMALL
    BY <1>6, <1>10, <1>19
  <2> QED BY <1>1, <1>2, <1>5, <1>16, <1>17, <1>19, <2>1, ErrorCalls
<1>20. CASE ~ReturnMatches(ep, ret)
  <2>1. stage' = "closed" /\ Outcome(c)' = CHANNEL_ERROR
    BY <1>1, <1>6, <1>20
  <2> QED BY <1>5, <1>18, <2>1 DEF Progress
<1>21. CASE ReturnMatches(ep, ret) /\ w.status # SUCCESS
  <2>1. w.status = BUFFER_TOO_SMALL
    BY <1>15, <1>21
  <2>2. ErrorResponse(BUFFER_TOO_SMALL, Over(w.out, sbuf))
    BY <1>1, <1>21, <2>1
  <2>3. ~(Len(m) <= Len(sbuf))
    BY <1>11, <1>21 DEF Written
  <2> DEFINE l == Len(m)
             k == Len(sbuf)
             j == Len(cbuf)
  <2>4. l \in Nat /\ k \in Nat /\ j \in Nat /\ j <= k /\ ~(l <= k)
    BY <1>8, <1>13, <2>3
  <2> HIDE DEF l, k, j, m
  <2>5. l > j
    BY <2>4
  <2> QED BY <1>19, <1>21, <2>2, <2>5 DEF l, j
<1>22. CASE ReturnMatches(ep, ret) /\ w.status = SUCCESS
  <2>1. Len(m) <= Len(sbuf) /\ w = Written(m)
    BY <1>11, <1>22
  <2>2. w.out = m
    BY <2>1 DEF Written
  <2>3. CASE Len(w.out) > Len(cbuf)
    <3>1. ErrorResponse(BUFFER_TOO_SMALL, Over(w.out, sbuf))
      BY <1>1, <1>22, <2>3
    <3> QED BY <1>19, <1>22, <2>2, <2>3, <3>1
  <2>4. CASE ~(Len(w.out) > Len(cbuf))
    <3>1. msg' = m /\ stage' = "response"
      BY <1>1, <1>22, <2>2, <2>4
    <3>2. Outcome(c)' = SUCCESS
      BY <1>6, <1>10, <1>22, <2>2, <2>4
    <3>3. Len(m) <= MaxSize
      <4> DEFINE l == Len(m)
                 j == Len(cbuf)
      <4>1. l \in Nat /\ j \in Nat /\ j <= MaxSize /\ ~(l > j)
        BY <1>8, <1>13, <2>2, <2>4
      <4> HIDE DEF l, j, m
      <4>2. l <= MaxSize
        BY <4>1, MaxSizeType
      <4> QED BY <4>2 DEF l
    <3>4. e \in Buffers /\ IsValueCode(RespValue(SUCCESS, e), m)
      BY <1>8, <1>9, <1>12, <3>3, AnswerCodes
    <3> HIDE DEF m
    <3>5. SUCCESS \in Byte
      BY DEF SUCCESS, Byte
    <3>6. Answered(c)'
      BY <1>4, <1>5, <1>7, <3>1, <3>2, <3>4, <3>5 DEF Answered
    <3> QED BY <1>5, <1>18, <3>1, <3>6 DEF Progress
  <2> QED BY <2>3, <2>4
<1> QED BY <1>15, <1>20, <1>21, <1>22

LEMMA OverMessage ==
    ASSUME BuffersAre
    PROVE  Len(Over(msg, cbuf)) = Len(cbuf)
BY OverIs DEF BuffersAre

LEMMA ReceiveResponseCalls ==
    ASSUME BuffersAre, ReceiveResponse, NEW c \in Calls, call = c, Progress(c)
    PROVE  Progress(c)'
<1> DEFINE p == ParseResponse
<1>1. /\ stage = "response" /\ stage' = "idle" /\ cbuf' = Over(msg, cbuf)
      /\ result' = [status |-> p.status, ret |-> p.ret]
      /\ ran' = ran
  BY DEF ReceiveResponse
<1>2. Answered(c) /\ (ran # None => Same(ran.args, c.args))
  BY <1>1 DEF Progress
<1>3. PICK s \in Byte, bytes \in Buffers :
          /\ IsValueCode(RespValue(s, bytes), msg) /\ Outcome(c) = s
          /\ IF s = SUCCESS THEN ran # None /\ ran.ret \in AtMostOne(Built) /\ OptionCode(ran.ret, bytes)
             ELSE bytes = <<>>
  BY <1>2 DEF Answered
<1>4. call.keep \in BOOLEAN
  BY Inputs
<1>5. Len(cbuf') = Len(cbuf)
  BY <1>1, OverMessage
<1>6. Outcome(c)' = s
  BY <1>1, <1>3, <1>5, OutcomeKept
<1>7. /\ p.status = s
      /\ s = SUCCESS => ran # None /\ Same(p.ret, IF c.keep THEN ran.ret ELSE <<>>)
  <2>1. CASE s # SUCCESS
    BY <1>3, <2>1, StatusRead
  <2>2. CASE s = SUCCESS
    <3>1. ran # None /\ ran.ret \in AtMostOne(Built) /\ OptionCode(ran.ret, bytes)
          /\ IsValueCode(RespValue(SUCCESS, bytes), msg)
      BY <1>3, <2>2
    <3>2. p.status = SUCCESS /\ Same(p.ret, IF c.keep THEN ran.ret ELSE <<>>)
      BY <1>4, <3>1, ReturnRead
    <3> QED BY <2>2, <3>1, <3>2
  <2> QED BY <2>1, <2>2
<1> HIDE DEF p
<1>8. Returned(c)'
  <2>1. result'.status = s /\ result'.ret = p.ret
    BY <1>1, <1>7
  <2> QED BY <1>1, <1>6, <1>7, <2>1 DEF Returned
<1> QED BY <1>1, <1>2, <1>8 DEF Progress

LEMMA DisconnectedCalls ==
    ASSUME Disconnected, NEW c \in Calls, call = c, Progress(c)
    PROVE  Progress(c)'
<1>1. /\ stage = "closed" /\ stage' = "over" /\ cbuf' = cbuf
      /\ result' = [status |-> CHANNEL_ERROR, ret |-> <<>>]
      /\ ran' = ran
  BY DEF Disconnected
<1>2. Outcome(c) = CHANNEL_ERROR /\ (ran # None => Same(ran.args, c.args))
  BY <1>1 DEF Progress
<1>3. Outcome(c)' = CHANNEL_ERROR
  BY <1>1, <1>2, OutcomeKept
<1>4. Returned(c)'
  BY <1>1, <1>3 DEF Returned, CHANNEL_ERROR, SUCCESS
<1> QED BY <1>1, <1>2, <1>4 DEF Progress

LEMMA CallingNext == IInv /\ Calling /\ [Next]_vars => Calling'
<1> SUFFICES ASSUME IInv, Calling, [Next]_vars, NEW c \in Calls, call' = c
             PROVE  Progress(c)'
  BY DEF Calling
<1>1. BuffersAre
  BY DEF IInv
<1>2. call = c => Progress(c)
  BY DEF Calling
<1>3. ASSUME NEW d \in Calls, SendRequest(d) PROVE Progress(c)'
  BY <1>1, <1>3, SendRequestCalls
<1>4. ASSUME NEW raw \in RawMessages, SendRaw(raw) PROVE Progress(c)'
  BY <1>4, SendRawCalls
<1>5. CASE PollChannel
  <2>1. Progress(c)
    BY <1>2, <1>5 DEF PollChannel
  <2> QED BY <1>1, <1>5, <2>1, PollChannelCalls
<1>6. CASE HandleRequest
  <2>1. Progress(c)
    BY <1>2, <1>6 DEF HandleRequest
  <2> QED BY <1>1, <1>6, <2>1, HandleRequestCalls
<1>7. ASSUME NEW ret \in Lookup(Name).returns, Respond(ret) PROVE Progress(c)'
  <2>1. Progress(c)
    BY <1>2, <1>7 DEF Respond
  <2> QED BY <1>1, <1>7, <2>1, RespondCalls
<1>8. CASE ReceiveResponse
  <2>1. call = c /\ Progress(c)
    BY <1>2, <1>8 DEF ReceiveResponse
  <2> QED BY <1>1, <1>8, <2>1, ReceiveResponseCalls
<1>9. CASE Disconnected
  <2>1. call = c /\ Progress(c)
    BY <1>2, <1>9 DEF Disconnected
  <2> QED BY <1>1, <1>9, <2>1, DisconnectedCalls
<1>10. CASE UNCHANGED vars
  <2>1. call' = call /\ UNCHANGED <<stage, cbuf, msg, result, req, given, ran>>
    BY <1>10 DEF vars
  <2>2. Progress(c)
    BY <1>2, <2>1
  <2> QED BY <2>1, <2>2 DEF Progress, FitsClient, Sent, Handled, Running, Answered, Returned,
                            Outcome, Name, ReqArgs, ArgsAreIn
<1> QED BY <1>3, <1>4, <1>5, <1>6, <1>7, <1>8, <1>9, <1>10 DEF Next

(* A call returns what it should: whatever was in the buffers before, the   *)
(* endpoint that the client named is run just when the request fits and is  *)
(* right, with arguments equal to those of the caller; and the caller gets  *)
(* the status of what went wrong, or a value equal to the one returned.     *)
THEOREM CallsAreRight == Spec => []CallIsRight
<1>1. Init => IInv /\ Calling
  BY IInvInit, CallingInit
<1>2. (IInv /\ Calling) /\ [Next]_vars => (IInv /\ Calling)'
  BY IInvNext, CallingNext
<1>3. IInv /\ Calling => CallIsRight
  BY CallingHolds
<1> QED BY <1>1, <1>2, <1>3, PTL DEF Spec
=============================================================================
