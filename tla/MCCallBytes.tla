----------------------------- MODULE MCCallBytes ----------------------------
(* Small instances of CallBytes for TLC: endpoints of every kind of type,   *)
(* calls that are right and wrong, and messages that are no request.        *)
EXTENDS CallBytes, SequencesExt

MCSizes == {16, 23, 28, 37, 52, 80}
Extra == {0, 6}

Number(b) == NewNumber(BYTE_T, <<b>>)
Short(b) == NewNumber(INT16_T, <<b, 1>>)
Text(bytes) == NewString(Append(bytes, 0))
Texts(bytes) == NewStringArray([i \in DOMAIN bytes |-> <<bytes[i], 0>>])
Point(a, b) == NewStruct(<<Number(a), Texts(b)>>)
Points == NewCompositeArray(<<Point(3, <<7>>), Point(4, <<>>)>>)
Grid == NewCompositeArray(<<NewNumericArray(INT16_T, <<5, 1, 6, 1>>),
                            NewNumericArray(INT16_T, <<>>)>>)

Endpoint(name, args, ret, returns) ==
    [name |-> name, args |-> args, ret |-> ret, returns |-> returns]

(* a takes nothing; b echoes a text; c and d take and return what is        *)
(* composed.  b may also return nothing, or what it is not declared to.     *)
MCDeclared == <<
    Endpoint(<<97, 0>>, <<>>, <<>>, {<<>>}),
    Endpoint(<<98, 0>>, <<STRING_T>>, <<STRING_T>>,
             {<<Text(<<65, 66>>)>>, <<Text(<<>>)>>, <<Number(1)>>, <<>>}),
    Endpoint(<<99, 0>>, <<Points.type.cell, BYTE_T>>, <<Points.type>>,
             {<<Points>>, <<NewEmptyArray(Points.type.cell)>>}),
    Endpoint(<<100, 0>>, <<Grid.type>>, <<Grid.type>>, {<<Grid>>, <<Points>>})>>

Named(name, args) == {[name |-> name, args |-> args, keep |-> k] : k \in BOOLEAN}

MCCalls ==
    UNION {Named(<<97, 0>>, <<>>), Named(<<97, 0>>, <<Number(1)>>), Named(<<97, 97, 0>>, <<>>),
           Named(<<98, 0>>, <<Text(<<65, 66, 67>>)>>), Named(<<98, 0>>, <<Number(0)>>),
           Named(<<98, 0>>, <<Number(0), Number(1), Number(2)>>),
           Named(<<99, 0>>, <<Point(1, <<8, 9>>), Number(2)>>),
           Named(<<99, 0>>, <<Point(1, <<>>), Short(2)>>),
           Named(<<99, 0>>, <<Number(2), Point(1, <<8>>)>>),
           Named(<<100, 0>>, <<Grid>>), Named(<<100, 0>>, <<NewEmptyArray(INT16_T)>>)}

MCBuilt ==
    UNION {{c.args[i] : i \in DOMAIN c.args} : c \in MCCalls}
    \cup UNION {UNION {{r[i] : i \in DOMAIN r} : r \in MCDeclared[k].returns} : k \in DOMAIN MCDeclared}

Raw(bytes, status) == [bytes |-> bytes, status |-> status]

Whole == RequestToBuffer(<<99, 0>>, <<Point(1, <<8, 9>>), Number(2)>>, 100).out

(* A request for c whose arguments are these bytes.                         *)
Blank == RequestToBuffer(<<99, 0>>, <<>>, 100).out
RawArgs(args) ==
    First(Blank, Len(Blank) - LengthBytes) \o ToBytes(Len(args))
        \o FlattenSeq([i \in DOMAIN args |-> ToBytes(Len(args[i])) \o args[i]])
PointBytes == ValueToBuffer(Point(1, <<8, 9>>), 100).out
ByteBytes == ValueToBuffer(Number(2), 100).out

(* A request that ends early; types that the code refuses                   *)
(* (test/serial_type.c; the limit on fields is CHRPC_MAX_STRUCT_FIELDS of   *)
(* serial_type.h:97, not the 255 that its grammar allows); a value that is  *)
(* no request; and requests with arguments that end early.                  *)
MCRawMessages ==
    {Raw(First(Whole, n), UNEXPECTED_END) : n \in 1..(Len(Whole) - 1)}
    \cup {Raw(<<STRUCT_TID, 0>>, EMPTY_STRUCT_TYPE),
          Raw(<<STRUCT_TID, MaxFields + 1, 0, 0, 0, 0>>, STRUCT_TYPE_TOO_LARGE),
          Raw(<<STRUCT_TID, 2, STRING_TID, 12>>, SYNTAX_ERROR),
          Raw(<<STRUCT_TID, 2, ARRAY_TID, ARRAY_TID, 0, 255>>, SYNTAX_ERROR),
          Raw(ByteBytes, BAD_REQUEST), Raw(PointBytes, BAD_REQUEST),
          Raw(RawArgs(<<ByteBytes>>), ARGUMENT_MISMATCH),
          Raw(RawArgs(<<PointBytes, <<>>>>), UNEXPECTED_END),
          Raw(RawArgs(<<PointBytes, <<200>>>>), SYNTAX_ERROR)}
    \cup {Raw(RawArgs(<<First(PointBytes, n), ByteBytes>>), UNEXPECTED_END)
            : n \in 0..(Len(PointBytes) - 1)}
=============================================================================
