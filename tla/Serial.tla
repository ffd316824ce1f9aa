------------------------------- MODULE Serial -------------------------------
(***************************************************************************)
(* Types and values of chrpc, and the memory they take: serial_type.c and  *)
(* serial_value.c.  A buffer is a sequence of bytes.  Memory is counted in *)
(* blocks: what a function allocates and does not free again.              *)
(*                                                                         *)
(* The value of a type that is stored densely (a number, an array of       *)
(* numbers, a string) is the block of bytes it has in memory.  Any other   *)
(* is a sequence of values: the fields of a struct, the entries of an      *)
(* array.  A string ends with its first 0: what a block holds without one  *)
(* is read beyond its end, and no input of a model is such a string.       *)
(*                                                                         *)
(* What recurses over types is a function on Types, what recurses over     *)
(* values a function whose value for a type is a function on the values of *)
(* that type.                                                              *)
(***************************************************************************)
EXTENDS Integers, Sequences

CONSTANTS
    MaxFields,      \* CHRPC_MAX_STRUCT_FIELDS
    MaxSize         \* bound on the size of a buffer or a block, and so on
                    \* how deep a type is that a buffer can hold

ASSUME Bounds == MaxFields \in 2..255 /\ MaxSize \in Nat

(* A length that is sent has 32 bits.                                       *)
ASSUME LengthsFit == MaxSize \div 16777216 < 256

Byte == 0..255
BytesUpTo(n) == {b \in Seq(Byte) : Len(b) <= n}
Buffers == BytesUpTo(MaxSize)

Sum(s) ==
    LET total[i \in 0..Len(s)] == IF i = 0 THEN 0 ELSE total[i - 1] + s[i]
    IN total[Len(s)]

(* Type ids.  10 is a struct and 11 an array, all others are primitive.     *)
STRING_TID == 9
STRUCT_TID == 10
ARRAY_TID == 11

Primitive(tid) == [tid |-> tid]
ArrayOf(t) == [tid |-> ARRAY_TID, cell |-> t]
StructOf(ts) == [tid |-> STRUCT_TID, fields |-> ts]

BYTE_T == Primitive(0)
INT16_T == Primitive(1)
STRING_T == Primitive(STRING_TID)

IsPrimitive(t) == t.tid <= STRING_TID

TypesUpTo[depth \in 0..MaxSize] ==
    LET primitive == [tid : 0..STRING_TID]
        inside == TypesUpTo[depth - 1]
        arrays == [tid : {ARRAY_TID}, cell : inside]
        structs == [tid : {STRUCT_TID}, fields : {ts \in Seq(inside) : Len(ts) \in 1..MaxFields}]
    IN IF depth = 0 THEN primitive ELSE primitive \cup arrays \cup structs

Types == TypesUpTo[MaxSize]

(* The type of a field of a struct, or of the entries of an array.          *)
MemberType(t, i) == IF t.tid = STRUCT_TID THEN t.fields[i] ELSE t.cell

TypeEquals(t, u) == t = u

(* What delete_chrpc_type frees: primitive types are static.                *)
TypeBlocks[t \in Types] ==
    IF IsPrimitive(t) THEN 0
    ELSE IF t.tid = ARRAY_TID THEN 1 + TypeBlocks[t.cell]
    ELSE 3 + Sum([i \in DOMAIN t.fields |-> TypeBlocks[t.fields[i]]])

-----------------------------------------------------------------------------
(* Values.                                                                  *)
IsBlockable(t) ==
    \/ IsPrimitive(t)
    \/ t.tid = ARRAY_TID /\ IsPrimitive(t.cell) /\ t.cell.tid # STRING_TID

CellSize(t) == <<1, 2, 4, 8, 2, 4, 8, 4, 8, 1>>[IF IsPrimitive(t) THEN t.tid + 1 ELSE t.cell.tid + 1]

HasLength(t) == t.tid \in {STRING_TID, ARRAY_TID}

IsStringArray(t) == t.tid = ARRAY_TID /\ t.cell.tid = STRING_TID

Dense(block) == [block |-> block]
Composed(members) == [members |-> members]

InnersUpTo[depth \in 0..MaxSize] ==
    LET dense == [block : Buffers]
        inside == InnersUpTo[depth - 1]
    IN IF depth = 0 THEN dense ELSE dense \cup [members : Seq(inside)]

Inners == InnersUpTo[MaxSize]

InnerOf[t \in Types] ==
    IF IsBlockable(t)
    THEN [block : {b \in Seq(Byte) :
            /\ Len(b) <= MaxSize
            /\ IF HasLength(t) THEN Len(b) % CellSize(t) = 0 ELSE Len(b) = CellSize(t)}]
    ELSE [members : {ms \in Seq(Inners) :
            /\ t.tid = STRUCT_TID => Len(ms) = Len(t.fields)
            /\ \A i \in DOMAIN ms : ms[i] \in InnerOf[MemberType(t, i)]}]

(* A string is what is in front of its first 0, and the 0.                  *)
String(block) ==
    LET ends == {n \in DOMAIN block : block[n] = 0}
    IN IF ends = {} THEN block
       ELSE SubSeq(block, 1, CHOOSE n \in ends : \A m \in ends : n <= m)

Block(t, iv) == IF t.tid = STRING_TID THEN String(iv.block) ELSE iv.block

Allocated(n) == IF n > 0 THEN 1 ELSE 0      \* safe_malloc(0) is NULL

(* What delete_chrpc_inner_value and delete_chrpc_value free.  The strings  *)
(* of an array have no inner value of their own.                            *)
InnerBlocks[t \in Types] == [iv \in InnerOf[t] |->
    IF IsBlockable(t) THEN 1 + IF HasLength(t) THEN Allocated(Len(iv.block)) ELSE 0
    ELSE 1 + Allocated(Len(iv.members))
           + Sum([i \in DOMAIN iv.members |->
                    IF IsStringArray(t) THEN Allocated(Len(iv.members[i].block))
                    ELSE InnerBlocks[MemberType(t, i)][iv.members[i]]])]

IsValue(v) == v.type \in Types /\ v.iv \in InnerOf[v.type]

ValueBlocks(v) == TypeBlocks[v.type] + InnerBlocks[v.type][v.iv] + 1

(* The constructors: the value, and the blocks that are allocated when they *)
(* return.  They consume what they are given, which must be right: the      *)
(* entries of an array of one type, at most MaxFields fields in a struct.   *)
Made(t, iv, blocks) == [type |-> t, iv |-> iv, blocks |-> blocks]

NewNumber(t, cell) == Made(t, Dense(cell), 2)
NewNumericArray(t, cells) == Made(ArrayOf(t), Dense(cells), 3 + Allocated(Len(cells)))
NewString(string) == Made(STRING_T, Dense(string), 3)
NewStringArray(strings) ==
    Made(ArrayOf(STRING_T), Composed([i \in DOMAIN strings |-> Dense(strings[i])]),
         3 + Allocated(Len(strings)) + Len(strings))
NewEmptyArray(t) ==
    Made(ArrayOf(t), IF IsBlockable(ArrayOf(t)) THEN Dense(<<>>) ELSE Composed(<<>>),
         3 + TypeBlocks[t])

AllBlocks(vs) == Sum([i \in DOMAIN vs |-> vs[i].blocks])
InnerValues(vs) == Composed([i \in DOMAIN vs |-> vs[i].iv])

(* The pairs of the entries, their types but the first, and the array they  *)
(* came in are freed; the array, its type and the pair are new.             *)
NewCompositeArray(vs) ==
    LET freed == Len(vs) + 1 + Sum([i \in 1..(Len(vs) - 1) |-> TypeBlocks[vs[i + 1].type]])
    IN Made(ArrayOf(vs[1].type), InnerValues(vs), AllBlocks(vs) + 1 - freed + 4)

NewStruct(vs) ==
    Made(StructOf([i \in DOMAIN vs |-> vs[i].type]), InnerValues(vs),
         AllBlocks(vs) + 1 - (Len(vs) + 1) + 6)

InnerEquals[t \in Types] == [a \in InnerOf[t] |-> [b \in InnerOf[t] |->
    IF IsBlockable(t) THEN Block(t, a) = Block(t, b)
    ELSE /\ Len(a.members) = Len(b.members)
         /\ \A i \in DOMAIN a.members :
                InnerEquals[MemberType(t, i)][a.members[i]][b.members[i]]]]

ValueEquals(v, w) == TypeEquals(v.type, w.type) /\ InnerEquals[v.type][v.iv][w.iv]
=============================================================================
