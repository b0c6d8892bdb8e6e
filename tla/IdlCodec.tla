------------------------------ MODULE IdlCodec ------------------------------
(***************************************************************************)
(* The parameter classes generate_someip_params.py emits: what of an IDL it  *)
(* accepts, what the serializer and the deserializer of a class do call by   *)
(* call, and the frame EncodeSomeIp puts around a payload.  Classes contain  *)
(* classes, so what is left to do is a list of members, the next one first;  *)
(* an object is what stands in its members, in the order they are visited.   *)
(* Floating point values are their bits.                                     *)
(***************************************************************************)
EXTENDS Integers, Sequences, SequencesExt

CONSTANTS
    Base,        \* values of a byte
    Types,       \* the IDL: type names to sequences of fields
    Samples,     \* the values that are sent, by type; of an array its sizes
    Surplus,     \* what may follow a payload
    NoValue      \* what a member holds that has none of its own or was left alone

Width == [u8 |-> 1, u16 |-> 2, u32 |-> 4, u64 |-> 8, i8 |-> 1, i16 |-> 2, i32 |-> 4, i64 |-> 8,
          f32 |-> 4, f64 |-> 8]
Signed == {"i8", "i16", "i32", "i64"}
LengthTypes == {"u8", "u16", "u32"}
Primitive == DOMAIN Width \cup {"bool", "string"}

\* What k bytes can hold.
Span[k \in Nat] == IF k = 0 THEN 1 ELSE Base * Span[k - 1]

\* The values of a C++ integer.
Values(type) ==
    LET n == Span[Width[type]]
    IN  IF type \in Signed THEN -(n \div 2) .. n \div 2 - 1 ELSE 0 .. n - 1

\* push_back of an element, among the types of what is left to do: no name of a class.
PushBack == "push_back()"

\* No field is called as the buffer of serializeTo, which the writer would write
\* in place of the field.
ASSUME IdlAssumption ==
    /\ Base \in Nat /\ Base > 0 /\ Base % 2 = 0
    /\ PushBack \notin DOMAIN Types
    /\ \A t \in DOMAIN Types :
         /\ Types[t] \in Seq([name : STRING, type : STRING, len : STRING, elem : STRING])
         /\ \A k \in DOMAIN Types[t] : Types[t][k].name # "bytes"
    /\ \A type \in DOMAIN Width : Samples[type] \subseteq Values(type)
    /\ Samples["bool"] \subseteq BOOLEAN
    /\ Samples["string"] \subseteq Seq(0 .. Base - 1)
    /\ Samples["array"] \subseteq Nat
    /\ Surplus \subseteq Seq(0 .. Base - 1)

-----------------------------------------------------------------------------
(* The generator *)

\* What parse_field accepts; arrays name their elementType in elem.
Accepted(t) ==
    /\ Types[t] # << >>
    /\ \A f \in Range(Types[t]) :
         /\ f.type \in Primitive \cup DOMAIN Types \cup {"array"}
         /\ f.type = "array" => f.elem \in Primitive \cup DOMAIN Types
         /\ f.type \in {"array", "string"} => f.len \in LengthTypes

\* The local variables a field declares in deserializeFromReader, with the types
\* of the fields they would hide.
Locals(f) ==
    IF f.type = "bool" THEN {<< "b", "u8" >>}
    ELSE IF f.type = "string" THEN {<< f.name \o "StrLen", f.len >>}
    ELSE IF f.type = "array" THEN {<< f.name \o "Len", f.len >>}
    ELSE {}

LocalsBefore(t, k) == UNION {Locals(Types[t][j]) : j \in 1 .. k - 1}
Names(locals) == {local[1] : local \in locals}

\* The reader stores the k-th field in a local variable of its name.
Captured(t, k) ==
    LET f == Types[t][k]
    IN  \/ f.name \in Names(LocalsBefore(t, k))
        \/ f.type = "bool" /\ f.name = "b"

\* The variables of the loop over the elements of an array.
LoopLocals(f) ==
    IF f.type = "array" THEN {"i", IF f.elem = "bool" THEN "b" ELSE "temp"} ELSE {}

\* The compiler takes the class, as far as its own names go: none is declared
\* twice, no class contains itself, no field is called as the reader or the
\* writer, no array as a variable of its loop, and a field hidden by a local
\* variable is of its type or a truth value, which is assigned only.
Compiles(t) ==
    /\ \A j, k \in DOMAIN Types[t] : j < k =>
         /\ Types[t][j].name # Types[t][k].name
         /\ Names(Locals(Types[t][j])) \cap Names(Locals(Types[t][k])) = {}
    /\ \A k \in DOMAIN Types[t] :
         LET f == Types[t][k]
         IN  /\ f.type # t
             /\ f.name \notin {"reader", "writer"} \cup LoopLocals(f)
             /\ f.name \in Names(LocalsBefore(t, k)) =>
                  f.type = "bool" \/ << f.name, f.type >> \in LocalsBefore(t, k)

-----------------------------------------------------------------------------
(* The members still to be visited *)

\* The fields of a class; inner, if the object is the temp of an array's element.
Members(t, inner) ==
    [k \in DOMAIN Types[t] |->
        LET f == Types[t][k]
        IN  [type |-> f.type, len |-> f.len, elem |-> f.elem,
             captured |-> Captured(t, k), inner |-> inner]]

\* The loop over n elements: each is read into a temp, which is then pushed.
Elements(m, n) ==
    [k \in 1 .. 2 * n |->
        IF k % 2 = 1 THEN [m EXCEPT !.type = m.elem, !.inner = TRUE]
        ELSE [m EXCEPT !.type = PushBack]]

IsClass(type) == type \notin Primitive \cup {"array", PushBack}

\* What is left after the first member, in which v stands.
After(list, v) ==
    LET m == Head(list)
    IN  (IF m.type = "array" THEN Elements(m, v)
         ELSE IF IsClass(m.type) THEN Members(m.type, m.inner) ELSE << >>) \o Tail(list)

-----------------------------------------------------------------------------
(* ByteWriter and serializeTo *)

\* writeIntegralBE: the value modulo the width, the highest byte first.
WriteInt(type, v) ==
    LET w == Width[type]
    IN  [k \in 1 .. w |-> (v \div Span[w - k]) % Base]

SamplesOf(m) == IF m.type \in Primitive \cup {"array"} THEN Samples[m.type] ELSE {NoValue}

\* A size is compared with the maximum of its length type before it is written.
Fits(m, v) ==
    /\ m.type = "string" => Len(v) < Span[Width[m.len]]
    /\ m.type = "array" => v < Span[Width[m.len]]

Written(m, v) ==
    CASE m.type = "string" -> WriteInt(m.len, Len(v)) \o v
      [] m.type = "array" -> WriteInt(m.len, v)
      [] m.type = "bool" -> WriteInt("u8", IF v THEN 1 ELSE 0)
      [] m.type \in DOMAIN Width -> WriteInt(m.type, v)
      [] OTHER -> << >>

-----------------------------------------------------------------------------
(* ByteReader and deserializeFromReader: whether it went well, the value, and *)
(* the position behind it *)

Outcome(ok, value, pos) == [ok |-> ok, value |-> value, pos |-> pos]

ReadInt(type, in, pos) ==
    LET w == Width[type]
        u[k \in 0 .. w] == IF k = 0 THEN 0 ELSE u[k - 1] * Base + in[pos + k]
    IN  IF Len(in) - pos < w THEN Outcome(FALSE, NoValue, pos)
        ELSE Outcome(TRUE, IF type \in Signed /\ 2 * u[w] >= Span[w] THEN u[w] - Span[w] ELSE u[w],
                     pos + w)

\* Faulty: what is left of the bytes will do.
FaultyReadString(len, in, pos) ==
    LET n == ReadInt(len, in, pos)
        end == IF n.pos + n.value < Len(in) THEN n.pos + n.value ELSE Len(in)
    IN  IF ~ n.ok THEN n ELSE Outcome(TRUE, SubSeq(in, n.pos + 1, end), end)

ReadString(len, in, pos) ==
    LET n == ReadInt(len, in, pos)
    IN  IF ~ n.ok \/ Len(in) - n.pos < n.value THEN Outcome(FALSE, NoValue, n.pos)
        ELSE Outcome(TRUE, SubSeq(in, n.pos + 1, n.pos + n.value), n.pos + n.value)

ReadBool(in, pos) ==
    LET b == ReadInt("u8", in, pos) IN Outcome(b.ok, b.ok /\ b.value # 0, b.pos)

ReadMember(m, in, pos) ==
    CASE m.type = "string" -> ReadString(m.len, in, pos)
      [] m.type = "array" -> ReadInt(m.len, in, pos)
      [] m.type = "bool" -> ReadBool(in, pos)
      [] m.type \in DOMAIN Width -> ReadInt(m.type, in, pos)
      [] OTHER -> Outcome(TRUE, NoValue, pos)

-----------------------------------------------------------------------------
(* The frame of the demo programs; the fields of its header are one each *)

HeaderSize == 6
EncodeSomeIp(payload) == << "message_id", Len(payload) + 8, "request_id", 1, "type", 0 >> \o payload

FrameIsValid(in) ==
    /\ Len(in) >= HeaderSize /\ in[4] = 1
    /\ in[2] >= 8 /\ Len(in) = HeaderSize + (in[2] - 8)

PayloadOf(in) == SubSeq(in, HeaderSize + 1, Len(in))

-----------------------------------------------------------------------------
(* A writer, a wire that cuts or adds, a reader *)

VARIABLES
    phase,     \* how far the present exchange is
    class,     \* of the object
    framed,    \* sent in a frame, or through a backend as it is
    todo,      \* the members still to be written or read
    object,    \* the members written with their values; nothing, if one did not fit
    payload,   \* what was written
    arrived,   \* the datagram the reader has
    position,  \* the reader's pos_
    taken,     \* the members read with what was stored in them
    kept       \* how many of them stand in the reader's object, and not in a temp

reader == << position, taken, kept >>
idl == << phase, class, framed, todo, object, payload, arrived, reader >>

Datagram == IF framed THEN EncodeSomeIp(payload) ELSE payload
Input == IF framed THEN PayloadOf(arrived) ELSE arrived

IdlInit ==
    /\ \A t \in DOMAIN Types : Accepted(t)
    /\ phase = "idl" /\ class \in DOMAIN Types /\ framed = FALSE
    /\ todo = << >> /\ object = << >> /\ payload = << >> /\ arrived = << >>
    /\ position = 0 /\ taken = << >> /\ kept = 0

\* The generated header is compiled.
Build ==
    /\ phase = "idl"
    /\ phase' = IF Compiles(class) THEN "built" ELSE "broken"
    /\ UNCHANGED << class, framed, todo, object, payload, arrived, reader >>

\* SerializableObject::serialize begins.
Serialize ==
    /\ phase = "built" /\ phase' = "writing"
    /\ framed' \in BOOLEAN
    /\ todo' = Members(class, FALSE)
    /\ UNCHANGED << class, object, payload, arrived, reader >>

WriteMember ==
    /\ phase = "writing" /\ todo # << >>
    /\ \E v \in SamplesOf(Head(todo)) :
         /\ Fits(Head(todo), v)
         /\ object' = Append(object, [member |-> Head(todo), value |-> v])
         /\ payload' = payload \o Written(Head(todo), v)
         /\ todo' = After(todo, v)
    /\ UNCHANGED << phase, class, framed, arrived, reader >>

\* serializeTo returns false all the way, serialize an empty vector.
Refuse ==
    /\ phase = "writing" /\ todo # << >>
    /\ \E v \in SamplesOf(Head(todo)) : ~ Fits(Head(todo), v)
    /\ object' = << >> /\ payload' = << >> /\ todo' = << >>
    /\ UNCHANGED << phase, class, framed, arrived, reader >>

Transmit ==
    /\ phase = "writing" /\ todo = << >> /\ phase' = "sent"
    /\ arrived' = Datagram
    /\ UNCHANGED << class, framed, todo, object, payload, reader >>

\* A datagram longer than the reader's buffer, or a backend that cuts.
Cut ==
    /\ phase = "sent" /\ arrived = Datagram
    /\ \E n \in 0 .. Len(arrived) - 1 : arrived' = SubSeq(arrived, 1, n)
    /\ UNCHANGED << phase, class, framed, todo, object, payload, reader >>

Extend ==
    /\ phase = "sent" /\ arrived = Datagram
    /\ \E x \in Surplus : arrived' = arrived \o x
    /\ UNCHANGED << phase, class, framed, todo, object, payload, reader >>

\* DecodeSomeIp where there is a frame, then deserialize into a new object.
Deserialize ==
    /\ phase = "sent"
    /\ IF framed /\ ~ FrameIsValid(arrived)
       THEN phase' = "rejected" /\ UNCHANGED todo
       ELSE phase' = "reading" /\ todo' = Members(class, FALSE)
    /\ UNCHANGED << class, framed, object, payload, arrived, reader >>

\* Faulty: an element that ends too early is kept as far as it came.
FaultyKeptWith(m, n) == n

\* How many of n members stand in the object when m is the last of them.
KeptWith(m, n) == IF m.inner THEN kept ELSE n

TakeMember ==
    /\ phase = "reading" /\ todo # << >>
    /\ LET m == Head(todo)
           r == ReadMember(m, Input, position)
       IN  /\ r.ok
           /\ position' = r.pos
           /\ taken' = Append(taken, [member |-> m, value |-> IF m.captured THEN NoValue ELSE r.value])
           /\ kept' = KeptWith(m, Len(taken) + 1)
           /\ todo' = After(todo, r.value)
    /\ UNCHANGED << phase, class, framed, object, payload, arrived >>

\* deserializeFromReader returns false; the temps on its way are gone.
Reject ==
    /\ phase = "reading" /\ todo # << >>
    /\ ~ ReadMember(Head(todo), Input, position).ok
    /\ phase' = "rejected"
    /\ UNCHANGED << class, framed, todo, object, payload, arrived, reader >>

\* fullyConsumed
Conclude ==
    /\ phase = "reading" /\ todo = << >>
    /\ phase' = IF position = Len(Input) THEN "read" ELSE "rejected"
    /\ UNCHANGED << class, framed, todo, object, payload, arrived, reader >>

\* Both objects are gone; the next exchange begins.
Forget ==
    /\ phase \in {"read", "rejected"} /\ phase' = "built" /\ framed' = FALSE
    /\ todo' = << >> /\ object' = << >> /\ payload' = << >> /\ arrived' = << >>
    /\ position' = 0 /\ taken' = << >> /\ kept' = 0 /\ UNCHANGED class

IdlNext ==
    \/ Build \/ Serialize \/ WriteMember \/ Refuse \/ Transmit \/ Cut \/ Extend
    \/ Deserialize \/ TakeMember \/ Reject \/ Conclude \/ Forget

IdlSpec == IdlInit /\ [][IdlNext]_idl

-----------------------------------------------------------------------------
Answered == phase \in {"read", "rejected"}

\* What the reader's object holds, and what a reader stores of a member.
Held == SubSeq(taken, 1, kept)
Stored(e) == IF e.member.captured THEN [e EXCEPT !.value = NoValue] ELSE e

\* What arrives whole is read as it was written but for captured fields; a payload
\* that was cut or has bytes left over, or whose object did not fit its length fields
\* so that nothing was sent, is never taken for an object.  Bytes added to nothing
\* may well be one.
SentIsRead ==
    Answered /\ (object # << >> \/ Len(arrived) <= Len(Datagram)) =>
        /\ phase = "read" <=> arrived = Datagram /\ object # << >>
        /\ phase = "read" => Held = [k \in DOMAIN object |-> Stored(object[k])]

\* The client of a generated application returns the object whether deserialize
\* succeeded or not: whatever was cut or added, it holds what was sent up to a
\* point, no part of an element, and nothing made up.
NothingMadeUp ==
    Answered /\ object # << >> =>
        /\ kept <= Len(object) /\ Held = [k \in 1 .. kept |-> Stored(object[k])]
        /\ kept > 0 => ~ object[kept].member.inner

\* What the documents say of the generator: a class for every IDL it accepts,
\* whose objects are read as they were written.
AcceptedTypesRoundTrip ==
    /\ phase # "broken"
    /\ Answered /\ arrived = Datagram /\ object # << >> => phase = "read" /\ Held = object
=============================================================================
