-------------------------------- MODULE Wire --------------------------------
(***************************************************************************)
(* The functions of serial_type.c and serial_value.c that write to a       *)
(* buffer and read from one.                                               *)
(*                                                                         *)
(* What is written goes to a buffer with room for so many bytes: out is    *)
(* what lands in it, also when the function fails.  What is read is given  *)
(* with the bytes it may look at: readden is how many it used, blocks how  *)
(* many it allocated and did not free.                                     *)
(***************************************************************************)
EXTENDS Serial

(* chrpc_status_t, without the prefix CHRPC_.                               *)
SUCCESS == 0
SYNTAX_ERROR == 1
UNEXPECTED_END == 2
BUFFER_TOO_SMALL == 3
EMPTY_STRUCT_TYPE == 4
STRUCT_TYPE_TOO_LARGE == 5

(* Lengths are 32 bits wide, the least significant byte first.              *)
LengthBytes == 4
ToBytes(n) ==
    <<n % 256, (n \div 256) % 256, (n \div 65536) % 256, (n \div 16777216) % 256>>
FromBytes(b) == b[1] + 256 * b[2] + 65536 * b[3] + 16777216 * b[4]

After(bytes, n) == SubSeq(bytes, n + 1, Len(bytes))
First(bytes, n) == SubSeq(bytes, 1, n)

-----------------------------------------------------------------------------
(* Writing.  A writer is a function of the room there is.                   *)
Written(out) == [status |-> SUCCESS, out |-> out]
TooSmall(out) == [status |-> BUFFER_TOO_SMALL, out |-> out]

(* What is written next follows what is in the buffer.                      *)
WriteNext(acc, w) == [status |-> w.status, out |-> acc.out \o w.out]

(* start is in the buffer, and the writers follow, each with the room that  *)
(* is left, up to the first that fails.                                     *)
WriteEach(start, writers, room) ==
    LET done[i \in 0..Len(writers)] ==
            IF i = 0 THEN Written(start)
            ELSE LET acc == done[i - 1]
                 IN IF acc.status # SUCCESS THEN acc
                    ELSE WriteNext(acc, writers[i][room - Len(acc.out)])
    IN done[Len(writers)]

TypeToBuffer[t \in Types] == [room \in Int |->
    IF room < 1 \/ (t.tid = STRUCT_TID /\ room < 2) THEN TooSmall(<<>>)
    ELSE IF IsPrimitive(t) THEN Written(<<t.tid>>)
    ELSE IF t.tid = ARRAY_TID THEN WriteEach(<<ARRAY_TID>>, <<TypeToBuffer[t.cell]>>, room)
    ELSE WriteEach(<<STRUCT_TID, Len(t.fields)>>,
                   [i \in DOMAIN t.fields |-> TypeToBuffer[t.fields[i]]], room)]

(* The bytes of a block, after the number of its cells if that is not known. *)
RoomForCells(prefix, size, room) ==     \* variant: the length in front is forgotten
    size <= room
BlockRoom(prefix, size, room) == Len(prefix) + size <= room

BlockToBuffer(t, block, room) ==
    LET prefix == IF HasLength(t) THEN ToBytes(Len(block) \div CellSize(t)) ELSE <<>>
    IN IF room < Len(prefix) THEN TooSmall(<<>>)
       ELSE IF BlockRoom(prefix, Len(block), room) THEN Written(prefix \o block)
       ELSE TooSmall(prefix)

InnerToBuffer[t \in Types] == [iv \in InnerOf[t] |-> [room \in Int |->
    LET n == Len(iv.members)
        members == [i \in 1..n |-> InnerToBuffer[MemberType(t, i)][iv.members[i]]]
    IN IF IsBlockable(t) THEN BlockToBuffer(t, Block(t, iv), room)
       ELSE IF t.tid = STRUCT_TID THEN WriteEach(<<>>, members, room)
       ELSE IF room < LengthBytes THEN TooSmall(<<>>)
       ELSE WriteEach(ToBytes(n), members, room)]]

ValueToBuffer(v, room) ==
    WriteEach(<<>>, <<TypeToBuffer[v.type], InnerToBuffer[v.type][v.iv]>>, room)

(* The length in front is filled in when the value has been written.  No    *)
(* value has the length 0.                                                  *)
ValueToBufferWithLength(vs, room) ==
    LET w == IF vs = <<>> THEN Written(<<>>) ELSE ValueToBuffer(vs[1], room - LengthBytes)
    IN IF room < LengthBytes THEN TooSmall(<<>>)
       ELSE WriteNext(Written(ToBytes(Len(w.out))), w)

-----------------------------------------------------------------------------
(* Reading.  A reader is a function of the bytes there are.                 *)
Read(v, readden, blocks) ==
    [status |-> SUCCESS, v |-> v, readden |-> readden, blocks |-> blocks]
Refused(status) == [status |-> status, v |-> <<>>, readden |-> 0, blocks |-> 0]

(* Items are read one after the other into an array that was allocated.  At *)
(* the first that fails the ones before it and the array are freed: frees   *)
(* says how many blocks an item takes.                                      *)
FreeArray(acc, frees) == 1      \* variant: only the array is freed
FreeRead(acc, frees) == 1 + Sum([i \in DOMAIN acc.v |-> frees[i][acc.v[i]]])

ReadNext(acc, r, frees) ==
    IF r.status # SUCCESS
    THEN [Refused(r.status) EXCEPT !.blocks = acc.blocks + r.blocks - FreeRead(acc, frees)]
    ELSE Read(Append(acc.v, r.v), acc.readden + r.readden, acc.blocks + r.blocks)

ReadEach(readers, frees, bytes) ==
    LET done[i \in 0..Len(readers)] ==
            IF i = 0 THEN Read(<<>>, 0, Allocated(Len(readers)))
            ELSE LET acc == done[i - 1]
                 IN IF acc.status # SUCCESS THEN acc
                    ELSE ReadNext(acc, readers[i][After(bytes, acc.readden)], frees)
    IN done[Len(readers)]

TypeFromBuffer[bytes \in Buffers] ==
    LET tid == bytes[1]
        n == bytes[2]
        cell == TypeFromBuffer[After(bytes, 1)]
        fields == ReadEach([i \in 1..n |-> TypeFromBuffer], [i \in 1..n |-> TypeBlocks],
                           After(bytes, 2))
    IN IF Len(bytes) < 1 THEN Refused(UNEXPECTED_END)
       ELSE IF tid <= STRING_TID THEN Read(Primitive(tid), 1, 0)
       ELSE IF tid = ARRAY_TID
       THEN IF cell.status # SUCCESS THEN cell
            ELSE Read(ArrayOf(cell.v), 1 + cell.readden, cell.blocks + 1)
       ELSE IF tid # STRUCT_TID THEN Refused(SYNTAX_ERROR)
       ELSE IF Len(bytes) < 2 THEN Refused(UNEXPECTED_END)
       ELSE IF n < 1 THEN Refused(EMPTY_STRUCT_TYPE)
       ELSE IF n > MaxFields THEN Refused(STRUCT_TYPE_TOO_LARGE)
       ELSE IF fields.status # SUCCESS THEN fields
       ELSE Read(StructOf(fields.v), 2 + fields.readden, fields.blocks + 2)

(* The block of a string or of an array of numbers.  The product is 64 bits *)
(* wide and does not wrap.                                                  *)
BlockFromBuffer(t, bytes) ==
    LET size == CellSize(t) * FromBytes(bytes)
    IN IF Len(bytes) < LengthBytes \/ Len(bytes) - LengthBytes < size
       THEN Refused(UNEXPECTED_END)
       ELSE Read(Dense(First(After(bytes, LengthBytes), size)), LengthBytes + size, Allocated(size))

NumberFromBuffer(t, bytes) ==
    IF Len(bytes) < CellSize(t) THEN Refused(UNEXPECTED_END)
    ELSE Read(Dense(First(bytes, CellSize(t))), CellSize(t), 1)

StringFromBuffer == [bytes \in Seq(Byte) |-> BlockFromBuffer(STRING_T, bytes)]
StringBlocks == [iv \in InnerOf[STRING_T] |-> Allocated(Len(iv.block))]

(* What was read, as an inner value.                                        *)
NewInner(r, v, prefix) ==
    IF r.status # SUCCESS THEN r ELSE Read(v, prefix + r.readden, r.blocks + 1)

InnerFromBuffer[t \in Types] == [bytes \in Seq(Byte) |->
    LET n == FromBytes(bytes)
        block == BlockFromBuffer(t, bytes)
        fields == ReadEach([i \in DOMAIN t.fields |-> InnerFromBuffer[t.fields[i]]],
                           [i \in DOMAIN t.fields |-> InnerBlocks[t.fields[i]]], bytes)
        strings == ReadEach([i \in 1..n |-> StringFromBuffer], [i \in 1..n |-> StringBlocks],
                            After(bytes, LengthBytes))
        entries == ReadEach([i \in 1..n |-> InnerFromBuffer[t.cell]],
                            [i \in 1..n |-> InnerBlocks[t.cell]], After(bytes, LengthBytes))
        array == IF IsStringArray(t) THEN strings ELSE entries
    IN IF IsBlockable(t)
       THEN IF HasLength(t) THEN NewInner(block, block.v, 0) ELSE NumberFromBuffer(t, bytes)
       ELSE IF t.tid = STRUCT_TID THEN NewInner(fields, Composed(fields.v), 0)
       ELSE IF Len(bytes) < LengthBytes THEN Refused(UNEXPECTED_END)
       ELSE NewInner(array, Composed(array.v), LengthBytes)]

(* The type is deleted if no value of it follows.                           *)
ValueFromBuffer(bytes) ==
    LET t == TypeFromBuffer[bytes]
        i == InnerFromBuffer[t.v][After(bytes, t.readden)]
    IN IF t.status # SUCCESS THEN t
       ELSE IF i.status # SUCCESS
       THEN [Refused(i.status) EXCEPT !.blocks = i.blocks + t.blocks - TypeBlocks[t.v]]
       ELSE Read([type |-> t.v, iv |-> i.v], t.readden + i.readden, t.blocks + i.blocks + 1)
=============================================================================
