------------------------------- MODULE Pickle -------------------------------
(***************************************************************************)
(* Pickle and PickleIterator: values are written one after the other into  *)
(* a growing buffer, the buffer travels as bytes, and a reader takes the   *)
(* values out again in the same order.                                     *)
(*                                                                         *)
(* One pickle is followed through its life: it is written, sent as bytes,  *)
(* viewed by a receiver, copied, written further and read in the end.      *)
(* Bytes are numbers, payload is what lies between the header and          *)
(* payload_size, and what a POD value means is left out: it is the bytes   *)
(* that WritePOD copies.                                                   *)
(***************************************************************************)
EXTENDS Integers, Sequences, FiniteSets

CONSTANTS
  HeaderSizes,  \* arguments of Pickle(int header_size)
  Unit,         \* kPayloadUnit
  Items,        \* the values the program may write: [kind, bytes]
  MaxItems,     \* how many it writes to one pickle
  MaxUnits,     \* up to how many units it reserves
  Skips,        \* lengths a reader may ask for by itself
  WritesCopies, \* whether the program writes to a copy of a received pickle
  Noise         \* how many bytes a stream may have lost (< 0) or gained (> 0)

VARIABLES
  pickle,   \* the Pickle
  values,   \* history: what was written to it, or Unknown
  received, \* history: it came as bytes
  it,       \* a PickleIterator, and what it is expected to find
  last,     \* history: the last read that had an expected result
  dead      \* a null header_ was dereferenced

vars == <<pickle, values, received, it, last, dead>>

WordSize == 4          \* sizeof(uint32_t), sizeof(int), sizeof(wchar_t)
ReadOnly == -1         \* kCapacityReadOnly
Junk == 165            \* a byte nobody initialised
Unknown == <<[kind |-> "unknown", bytes |-> <<>>]>>
Largest(x, y) == IF x > y THEN x ELSE y

AlignInt(i, alignment) == i + ((alignment - (i % alignment)) % alignment)

(* A little-endian int and its bytes.                                       *)
IntBytes(n) == <<n % 256, (n \div 256) % 256, (n \div 65536) % 256, (n \div 16777216) % 256>>
IntOf(b) == b[1] + 256 * b[2] + 65536 * b[3]
              + 16777216 * (IF b[4] >= 128 THEN b[4] - 256 ELSE b[4])

Repeat(byte, n) == [i \in 1 .. n |-> byte]

-----------------------------------------------------------------------------
(* Pickle.                                                                  *)

(* A bug: the allocation is rounded down.                                   *)
ResizeDown(p, capacity) == [p EXCEPT !.cap = capacity - (capacity % Unit)]

Resize(p, capacity) == [p EXCEPT !.cap = AlignInt(capacity, Unit)]

(* Pickle() and Pickle(header_size).                                        *)
NewPickle(header_size) ==
  Resize([valid |-> TRUE, header |-> AlignInt(header_size, WordSize), cap |-> 0,
          offset |-> 0, payload |-> <<>>], Unit)

Invalid == [valid |-> FALSE, header |-> 0, cap |-> ReadOnly, offset |-> 0, payload |-> <<>>]

(* data() and size(): payload_size, the rest of the header, the payload.    *)
Data(p) == IntBytes(Len(p.payload)) \o Repeat(Junk, p.header - WordSize) \o p.payload

(* Pickle(data, data_len): the header is what payload_size leaves over.     *)
(* The difference is unsigned, so a payload_size larger than the data makes *)
(* a header_size_ larger than the data.                                     *)
FromData(data) ==
  LET header == Len(data) - IntOf(data) IN
  IF Len(data) < WordSize \/ header <= 0 \/ header > Len(data) \/ header % WordSize # 0
  THEN Invalid
  ELSE [valid |-> TRUE, header |-> header, cap |-> ReadOnly, offset |-> 0,
        payload |-> SubSeq(data, header + 1, Len(data))]

(* Pickle(const Pickle&).                                                   *)
Copy(other) ==
  Resize([other EXCEPT !.cap = 0], other.header + Len(other.payload))

(* operator=: a view forgets its data first; the allocation is sized for    *)
(* the payload alone.                                                       *)
Assign(p, other) ==
  [Resize([p EXCEPT !.cap = 0], Len(other.payload))
     EXCEPT !.valid = TRUE, !.header = other.header,
            !.payload = other.payload, !.offset = other.offset]

Reserve(p, length) ==
  LET new_size == p.offset + AlignInt(length, WordSize)
  IN IF p.cap # ReadOnly /\ new_size > p.cap THEN Resize(p, p.cap * 2 + new_size) ELSE p

(* The bytes and their padding go to write_offset_, payload_size ends there. *)
WriteBytesCommon(p, bytes) ==
  LET data_len == AlignInt(Len(bytes), WordSize)
      new_size == p.offset + data_len
      grown == IF p.cap # ReadOnly /\ new_size > p.cap
               THEN Resize(p, Largest(p.cap * 2, new_size)) ELSE p
  IN [grown EXCEPT !.payload = SubSeq(@, 1, p.offset) \o bytes
                                 \o Repeat(0, data_len - Len(bytes)),
                   !.offset = new_size]

WriteInt(p, n) == WriteBytesCommon(p, IntBytes(n))

(* A bug: the length of a wide string is counted in bytes.                   *)
WriteByteCounts(p, item) ==
  CASE item.kind \in {"string", "data", "wstring"} ->
         WriteBytesCommon(WriteInt(p, Len(item.bytes)), item.bytes)
    [] item.kind = "bool" -> WriteInt(p, item.bytes[1])
    [] OTHER -> WriteBytesCommon(p, item.bytes)

(* Strings and data carry their length, wide strings count characters, a    *)
(* bool is written as an int.                                               *)
Write(p, item) ==
  CASE item.kind \in {"string", "data"} ->
         WriteBytesCommon(WriteInt(p, Len(item.bytes)), item.bytes)
    [] item.kind = "wstring" ->
         WriteBytesCommon(WriteInt(p, Len(item.bytes) \div WordSize), item.bytes)
    [] item.kind = "bool" -> WriteInt(p, item.bytes[1])
    [] OTHER -> WriteBytesCommon(p, item.bytes)

Null == -1

(* FindNext: where the pickle that starts a stream ends.                    *)
FindNext(header_size, stream) ==
  IF \/ Len(stream) < WordSize \/ Len(stream) < header_size
     \/ Len(stream) - header_size < IntOf(stream)
  THEN Null ELSE header_size + IntOf(stream)

-----------------------------------------------------------------------------
(* PickleIterator.  A read gives whether it succeeded, the new read_index_  *)
(* and the bytes.                                                           *)

Left(i) == Len(i.payload) - i.index
Failed(index) == [ok |-> FALSE, index |-> index, out |-> <<>>]

(* A bug: the padding is not skipped.                                       *)
AdvanceUnaligned(i, n) == i.index + n

Advance(i, n) ==
  IF Left(i) < AlignInt(n, WordSize) THEN Len(i.payload) ELSE i.index + AlignInt(n, WordSize)

(* Both GetReadPointerAndAdvance<Type>() and the one for a length.          *)
GetReadPointerAndAdvance(i, n) ==
  IF n < 0 \/ Left(i) < n THEN Failed(Len(i.payload))
  ELSE [ok |-> TRUE, index |-> Advance(i, n), out |-> SubSeq(i.payload, i.index + 1, i.index + n)]

(* The one for elements: a product that is no int32 fails on the spot.      *)
GetElements(i, n, size) ==
  IF n > 2147483647 \div size \/ n < -(2147483647 \div size) - 1 THEN Failed(i.index)
  ELSE GetReadPointerAndAdvance(i, n * size)

ReadBuiltinType(i, size) == GetReadPointerAndAdvance(i, size)
ReadInt(i) == ReadBuiltinType(i, WordSize)

(* What follows a length that was read.                                     *)
Then(i, length, Get(_, _)) ==
  IF ~length.ok THEN length ELSE Get([i EXCEPT !.index = length.index], IntOf(length.out))

ReadString(i) == Then(i, ReadInt(i), GetReadPointerAndAdvance)
ReadWString(i) == Then(i, ReadInt(i), LAMBDA j, n : GetElements(j, n, WordSize))
ReadData(i) == Then(i, ReadInt(i), GetReadPointerAndAdvance)
ReadBytes(i, length) == GetReadPointerAndAdvance(i, length)
ReadLength(i) ==
  LET n == ReadInt(i) IN IF n.ok /\ IntOf(n.out) < 0 THEN Failed(n.index) ELSE n

SizeOf(kind) ==
  CASE kind = "bool" -> 1 [] kind = "uint16" -> 2
    [] kind \in {"int", "uint32", "float"} -> 4
    [] kind \in {"long", "int64", "uint64", "double"} -> 8

Read(i, kind, length) ==
  CASE kind = "string" -> ReadString(i)
    [] kind = "wstring" -> ReadWString(i)
    [] kind = "data" -> ReadData(i)
    [] kind = "bytes" -> ReadBytes(i, length)
    [] kind = "length" -> ReadLength(i)
    [] OTHER -> ReadBuiltinType(i, SizeOf(kind))

-----------------------------------------------------------------------------
Fixed == {"bool", "uint16", "int", "uint32", "float", "long", "int64", "uint64", "double"}

(* A value: a wide string has whole characters, a value of a fixed size has  *)
(* that many bytes.                                                         *)
Value(item) ==
  /\ item.bytes \in Seq(0 .. 255)
  /\ \/ item.kind \in {"string", "data", "bytes"}
     \/ item.kind = "wstring" /\ Len(item.bytes) % WordSize = 0
     \/ item.kind \in Fixed /\ Len(item.bytes) = SizeOf(item.kind)

ASSUME ItemAssumption == \A item \in Items : Value(item)

(* A header has room for payload_size, and lengths are ints.                *)
ASSUME SizeAssumption ==
  /\ Unit \in Nat \ {0} /\ \A h \in HeaderSizes : h \in Nat /\ h >= WordSize
  /\ Skips \subseteq Int /\ Noise \subseteq Int

NoRead == [ok |-> TRUE, want |-> <<>>, got |-> <<>>]
NoIterator == [payload |-> <<>>, index |-> -1, todo |-> <<>>]
Writing == it = NoIterator /\ ~dead

Init ==
  /\ pickle \in {NewPickle(header_size) : header_size \in HeaderSizes}
  /\ values = <<>> /\ received = FALSE
  /\ it = NoIterator /\ last = NoRead
  /\ dead = FALSE

Becomes(p, expected, viewed) ==
  /\ pickle' = p /\ values' = expected /\ received' = viewed
  /\ UNCHANGED <<it, last, dead>>

MayWrite == Writing /\ pickle.valid /\ pickle.cap # ReadOnly /\ (received => WritesCopies)

WriteItem(item) ==
  /\ MayWrite /\ values # Unknown /\ Len(values) < MaxItems
  /\ Becomes(Write(pickle, item), Append(values, item), received)

ReserveFor(item) ==
  /\ MayWrite /\ pickle.cap < MaxUnits * Unit
  /\ Becomes(Reserve(pickle, Len(item.bytes)), values, received)

(* What arrives of a stream: some of its end may be missing, and other      *)
(* bytes may follow.                                                        *)
Arrived(data, n) ==
  IF n >= 0 THEN data \o Repeat(Junk, n) ELSE SubSeq(data, 1, Len(data) + n)

(* A receiver that cuts the stream with FindNext.                           *)
Receive(n) ==
  LET stream == Arrived(Data(pickle), n)
      next == FindNext(pickle.header, stream)
  IN /\ Writing /\ ~received /\ next # Null
     /\ Becomes(FromData(SubSeq(stream, 1, next)), values, TRUE)

(* A receiver that takes all that arrived for one pickle.                   *)
ReceiveAll(n) ==
  /\ Writing /\ ~received
  /\ Becomes(FromData(Arrived(Data(pickle), n)), Unknown, TRUE)

(* A copy, by either way of copying, takes the pickle's place.  Without a   *)
(* header it is a null dereference.                                         *)
CopyPickle ==
  /\ Writing
  /\ \/ /\ ~pickle.valid
        /\ dead' = TRUE /\ UNCHANGED <<pickle, values, received, it, last>>
     \/ pickle.valid /\ Becomes(Copy(pickle), values, received)
     \/ pickle.valid /\ Becomes(Assign(NewPickle(WordSize), pickle), values, received)

NewIterator ==
  /\ Writing
  /\ it' = [payload |-> pickle.payload, index |-> 0, todo |-> values]
  /\ UNCHANGED <<pickle, values, received, last, dead>>

(* The next value is read as the kind it was written as.                    *)
ReadNext ==
  /\ it.todo \notin {<<>>, Unknown}
  /\ LET item == Head(it.todo)
         result == Read(it, item.kind, Len(item.bytes))
     IN /\ it' = [it EXCEPT !.index = result.index, !.todo = Tail(@)]
        /\ last' = [ok |-> result.ok, want |-> item.bytes, got |-> result.out]
  /\ UNCHANGED <<pickle, values, received, dead>>

(* A reader asks for anything, in any order.                                *)
ReadAnything(kind, length) ==
  /\ it # NoIterator
  /\ it' = [it EXCEPT !.index = Read(it, kind, length).index, !.todo = Unknown]
  /\ last' = NoRead
  /\ UNCHANGED <<pickle, values, received, dead>>

Kinds == {item.kind : item \in Items} \cup {"length"}

Next ==
  \/ \E item \in Items : WriteItem(item) \/ ReserveFor(item)
  \/ \E n \in Noise : Receive(n) \/ ReceiveAll(n)
  \/ CopyPickle \/ NewIterator \/ ReadNext
  \/ \E kind \in Kinds, length \in Skips : ReadAnything(kind, length)

Spec == Init /\ [][Next]_vars

-----------------------------------------------------------------------------
(* What is written to a pickle, in whatever order and sizes, is read back   *)
(* value for value: from the pickle, from a copy made either way, and from  *)
(* the bytes of it that FindNext cuts out of a stream, however much else    *)
(* the stream holds.  No such read fails, not even that of an empty value.  *)
RoundTrip == last.ok /\ last.want = last.got

(* A write never passes the end of the allocation, though a pickle grows,   *)
(* reserves, and is copied or assigned with an allocation of another size;  *)
(* and write_offset_ is where the payload of a written pickle ends.         *)
FitsAllocation ==
  /\ pickle.cap # ReadOnly => Len(pickle.payload) <= pickle.cap
  /\ ~received => pickle.offset = Len(pickle.payload)

(* A reader that asks for the wrong kinds, or reads what is left of a       *)
(* damaged stream, is never taken past the payload, and stays on the four   *)
(* byte grid that the writes keep.                                          *)
ReaderStaysInside ==
  it # NoIterator => /\ it.index \in 0 .. Len(it.payload)
                     /\ it.index % WordSize = 0

(* "These values are appended to the end of the Pickle's payload"           *)
(* (Pickle.h): a write leaves the payload that is already there in place.   *)
WritesAppend ==
  [][\A item \in Items :
       WriteItem(item) => SubSeq(pickle'.payload, 1, Len(pickle.payload)) = pickle.payload]_vars
=============================================================================
