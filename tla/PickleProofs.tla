---------------------------- MODULE PickleProofs ----------------------------
(***************************************************************************)
(* Proofs about pickles, for any values, header sizes, units of allocation *)
(* and disturbances of a stream.                                           *)
(***************************************************************************)
EXTENDS Pickle, SequenceTheorems, TLAPS

Byte == 0 .. 255
Bytes == Seq(Byte)
MaxInt == 2147483647

---------------------------------------------------------------------------
(* The invariants.                                                         *)

\* What every pickle has, whatever was done to it: the offset and the payload are on the
\* grid of words, and an allocated payload fits its allocation.
Sound(p) ==
    /\ p \in [valid : BOOLEAN, header : Nat, cap : Int, offset : Nat, payload : Bytes]
    /\ p.offset % WordSize = 0 /\ Len(p.payload) % WordSize = 0
    /\ p.offset <= Len(p.payload)
    /\ p.cap # ReadOnly => p.cap \in Nat /\ Len(p.payload) <= p.cap

\* A pickle that is still the writer's own.
Own(p) ==
    /\ p.valid /\ p.header >= WordSize /\ p.header % WordSize = 0
    /\ p.cap # ReadOnly /\ p.offset = Len(p.payload)

Iterator == [payload : Bytes, index : Nat, todo : Seq(Items) \cup {Unknown}]

\* An iterator inside a payload.
Inside(i) ==
    /\ i.payload \in Bytes /\ Len(i.payload) % WordSize = 0
    /\ i.index \in 0 .. Len(i.payload) /\ i.index % WordSize = 0

Inv ==
    /\ Sound(pickle) /\ (~received => Own(pickle))
    /\ values = Unknown \/ values \in Seq(Items)
    /\ it = NoIterator \/ (it \in Iterator /\ Inside(it))

---------------------------------------------------------------------------
(* Arithmetic and bytes.                                                   *)

\* AlignInt rounds up.
LEMMA AlignUp ==
    ASSUME NEW i \in Nat, NEW a \in Nat \ {0}
    PROVE  AlignInt(i, a) \in Nat /\ AlignInt(i, a) >= i
<1>1. i % a \in 0 .. a - 1
    OBVIOUS
<1>2. (a - (i % a)) % a \in 0 .. a - 1
    BY <1>1
<1>3. QED BY <1>2 DEF AlignInt

\* AlignInt to words: to the next multiple, by less than a word.
LEMMA AlignWord ==
    ASSUME NEW i \in Nat
    PROVE  /\ AlignInt(i, WordSize) \in Nat /\ AlignInt(i, WordSize) % WordSize = 0
           /\ AlignInt(i, WordSize) >= i /\ AlignInt(i, WordSize) < i + WordSize
BY DEF AlignInt, WordSize

\* The grid of words.
LEMMA OnTheGrid ==
    ASSUME NEW x \in Nat, NEW y \in Nat, x % 4 = 0, y % 4 = 0
    PROVE  x + y \in Nat /\ (x + y) % 4 = 0
OBVIOUS

\* The bytes of an int, and the int of four bytes.
LEMMA IntBytesFacts ==
    ASSUME NEW n \in Nat
    PROVE  /\ IntBytes(n) \in Bytes /\ Len(IntBytes(n)) = WordSize
           /\ IntBytes(n)[1] = n % 256
           /\ \A b : (\A i \in 1 .. WordSize : b[i] = IntBytes(n)[i]) =>
                 /\ IntOf(b) \in Int /\ IntOf(b) % WordSize = n % WordSize
                 /\ n <= 2147483647 => IntOf(b) = n
<1> DEFINE x1 == n % 256
           x2 == (n \div 256) % 256
           x3 == (n \div 65536) % 256
           x4 == (n \div 16777216) % 256
<1>1. x1 \in Byte /\ x2 \in Byte /\ x3 \in Byte /\ x4 \in Byte
    BY SMTT(30) DEF Byte
<1>2. IntBytes(n) = <<x1, x2, x3, x4>>
    BY SMTT(30) DEF IntBytes
<1>3. x1 % 4 = n % 4
    BY SMTT(30)
<1>4. n <= 2147483647 => x1 + 256 * x2 + 65536 * x3 + 16777216 * x4 = n /\ x4 < 128
    BY SMTT(30)
<1> HIDE DEF x1, x2, x3, x4
<1>5. ASSUME NEW b, \A i \in 1 .. 4 : b[i] = <<x1, x2, x3, x4>>[i]
      PROVE  /\ IntOf(b) \in Int /\ IntOf(b) % 4 = n % 4
             /\ n <= 2147483647 => IntOf(b) = n
  <2>1. b[1] = x1 /\ b[2] = x2 /\ b[3] = x3 /\ b[4] = x4
    BY <1>5, SMTT(30)
  <2>2. IntOf(b) = x1 + 256 * x2 + 65536 * x3
                     + 16777216 * (IF x4 >= 128 THEN x4 - 256 ELSE x4)
    BY <2>1, SMTT(30) DEF IntOf
  <2>3. QED BY <1>1, <1>3, <1>4, <2>2, SMTT(30) DEF Byte
<1>6. QED BY <1>1, <1>2, <1>5, SMTT(30) DEF WordSize, Bytes, x1

\* The same, with the largest int by its name.
LEMMA IntBytesType ==
    ASSUME NEW n \in Nat
    PROVE  /\ IntBytes(n) \in Bytes /\ Len(IntBytes(n)) = WordSize
           /\ \A b : (\A i \in 1 .. WordSize : b[i] = IntBytes(n)[i]) =>
                 /\ IntOf(b) \in Int /\ IntOf(b) % WordSize = n % WordSize
                 /\ n <= MaxInt => IntOf(b) = n
BY IntBytesFacts, SMTT(30) DEF MaxInt

\* Four bytes make an int.
LEMMA IntOfType ==
    ASSUME NEW b \in Bytes, Len(b) = WordSize
    PROVE  IntOf(b) \in Int
<1>1. \A i \in 1 .. 4 : b[i] \in Byte
    BY ElementOfSeq DEF WordSize, Bytes
<1> DEFINE x1 == b[1]
           x2 == b[2]
           x3 == b[3]
           x4 == b[4]
<1>2. x1 \in Byte /\ x2 \in Byte /\ x3 \in Byte /\ x4 \in Byte
    BY <1>1, 1 \in 1 .. 4, 2 \in 1 .. 4, 3 \in 1 .. 4, 4 \in 1 .. 4
<1>3. IntOf(b) = x1 + 256 * x2 + 65536 * x3 + 16777216 * (IF x4 >= 128 THEN x4 - 256 ELSE x4)
    BY SMTT(30) DEF IntOf
<1> HIDE DEF x1, x2, x3, x4
<1>4. QED BY <1>2, <1>3, SMTT(30) DEF Byte

\* A byte repeated.
LEMMA RepeatFacts ==
    ASSUME NEW byte \in Byte, NEW n \in Nat
    PROVE  Repeat(byte, n) \in Bytes /\ Len(Repeat(byte, n)) = n
<1>1. [i \in 1 .. n |-> byte] \in [1 .. n -> Byte]
    OBVIOUS
<1>2. QED BY <1>1 DEF Repeat, Bytes

---------------------------------------------------------------------------
(* The operations of a pickle keep it sound.                               *)

\* Growing the allocation.
LEMMA ResizeSound ==
    ASSUME NEW p, p \in [valid : BOOLEAN, header : Nat, cap : Int, offset : Nat, payload : Bytes],
           NEW n \in Nat
    PROVE  /\ Resize(p, n) \in [valid : BOOLEAN, header : Nat, cap : Int, offset : Nat, payload : Bytes]
           /\ Resize(p, n).cap \in Nat /\ Resize(p, n).cap >= n /\ Resize(p, n).cap # ReadOnly
           /\ Resize(p, n).valid = p.valid /\ Resize(p, n).header = p.header
           /\ Resize(p, n).offset = p.offset /\ Resize(p, n).payload = p.payload
<1>1. AlignInt(n, Unit) \in Nat /\ AlignInt(n, Unit) >= n
    BY AlignUp, SizeAssumption
<1>2. QED BY <1>1 DEF Resize, ReadOnly

\* A new pickle.
LEMMA NewPickleSound ==
    ASSUME NEW h \in Nat, h >= WordSize
    PROVE  Sound(NewPickle(h)) /\ Own(NewPickle(h)) /\ NewPickle(h).payload = <<>>
<1> DEFINE p == [valid |-> TRUE, header |-> AlignInt(h, WordSize), cap |-> 0, offset |-> 0, payload |-> <<>>]
<1>1. /\ AlignInt(h, WordSize) \in Nat /\ AlignInt(h, WordSize) >= WordSize
      /\ AlignInt(h, WordSize) % WordSize = 0
    BY AlignWord DEF WordSize
<1>2. <<>> \in Bytes /\ Len(<<>>) = 0 /\ 0 % WordSize = 0 /\ Unit \in Nat
    BY SizeAssumption DEF Bytes, WordSize
<1>3. /\ p \in [valid : BOOLEAN, header : Nat, cap : Int, offset : Nat, payload : Bytes]
      /\ p.valid /\ p.header >= WordSize /\ p.header % WordSize = 0 /\ p.offset = 0 /\ p.payload = <<>>
    BY <1>1, <1>2
<1>4. NewPickle(h) = Resize(p, Unit)
    BY DEF NewPickle
<1> HIDE DEF p
<1>5. /\ Resize(p, Unit) \in [valid : BOOLEAN, header : Nat, cap : Int, offset : Nat, payload : Bytes]
      /\ Resize(p, Unit).cap \in Nat /\ Resize(p, Unit).cap # ReadOnly
      /\ Resize(p, Unit).valid = p.valid /\ Resize(p, Unit).header = p.header
      /\ Resize(p, Unit).offset = p.offset /\ Resize(p, Unit).payload = p.payload
  <2>1. p \in [valid : BOOLEAN, header : Nat, cap : Int, offset : Nat, payload : Bytes]
    BY <1>3
  <2>2. Unit \in Nat
    BY <1>2
  <2>3. QED BY <2>1, <2>2, ResizeSound
<1>6. QED BY <1>2, <1>3, <1>4, <1>5 DEF Sound, Own

\* Writing: the bytes go to the offset, and the payload ends behind their padding.
LEMMA WriteBytesSound ==
    ASSUME NEW p, Sound(p), p.cap # ReadOnly, NEW bytes \in Bytes
    PROVE  LET q == WriteBytesCommon(p, bytes)
               pad == Repeat(0, AlignInt(Len(bytes), WordSize) - Len(bytes))
           IN  /\ Sound(q) /\ q.cap # ReadOnly /\ q.offset = Len(q.payload)
               /\ q.valid = p.valid /\ q.header = p.header
               /\ q.offset = p.offset + AlignInt(Len(bytes), WordSize)
               /\ q.payload = SubSeq(p.payload, 1, p.offset) \o bytes \o pad
<1> DEFINE data_len == AlignInt(Len(bytes), WordSize)
           new_size == p.offset + data_len
           grown == IF p.cap # ReadOnly /\ new_size > p.cap
                    THEN Resize(p, Largest(p.cap * 2, new_size)) ELSE p
           pad == Repeat(0, data_len - Len(bytes))
           kept == SubSeq(p.payload, 1, p.offset)
           q == [grown EXCEPT !.payload = kept \o bytes \o pad, !.offset = new_size]
<1>1. /\ data_len \in Nat /\ data_len % WordSize = 0 /\ data_len >= Len(bytes)
      /\ Len(bytes) \in Nat /\ p.offset \in Nat /\ p.cap \in Nat
    BY AlignWord DEF Sound, Bytes
<1>2. new_size \in Nat /\ new_size % WordSize = 0
  <2>1. PICK x \in Nat, y \in Nat : x = p.offset /\ y = data_len /\ x % 4 = 0 /\ y % 4 = 0
    BY <1>1 DEF Sound, WordSize
  <2>2. x + y \in Nat /\ (x + y) % 4 = 0
    BY <2>1, OnTheGrid, Zenon
  <2>3. QED BY <2>1, <2>2 DEF WordSize
<1>3. pad \in Bytes /\ Len(pad) = data_len - Len(bytes)
  <2>1. data_len - Len(bytes) \in Nat /\ 0 \in Byte
    BY <1>1 DEF Byte
  <2>2. QED BY <2>1, RepeatFacts
<1>4. kept \in Bytes /\ Len(kept) = p.offset
  <2>1. \A i \in 1 .. p.offset : p.payload[i] \in Byte
    BY ElementOfSeq DEF Sound, Bytes
  <2>2. QED BY <1>1, <2>1, SubSeqProperties DEF Bytes
<1>5. kept \o bytes \o pad \in Bytes /\ Len(kept \o bytes \o pad) = new_size
    BY <1>1, <1>3, <1>4, ConcatProperties DEF Bytes
<1>6. /\ grown \in [valid : BOOLEAN, header : Nat, cap : Int, offset : Nat, payload : Bytes]
      /\ grown.cap \in Nat /\ grown.cap >= new_size /\ grown.cap # ReadOnly
      /\ grown.valid = p.valid /\ grown.header = p.header
  <2>1. Largest(p.cap * 2, new_size) \in Nat /\ Largest(p.cap * 2, new_size) >= new_size
    <3>1. \A x, y \in Nat : Largest(x * 2, y) \in Nat /\ Largest(x * 2, y) >= y
      BY DEF Largest
    <3>2. QED BY <1>1, <1>2, <3>1
  <2>2. p \in [valid : BOOLEAN, header : Nat, cap : Int, offset : Nat, payload : Bytes]
    BY DEF Sound
  <2>3. CASE new_size > p.cap
    <3> DEFINE n == Largest(p.cap * 2, new_size)
    <3>1. grown = Resize(p, n)
      BY <2>3
    <3> HIDE DEF n, grown, new_size
    <3>2. n \in Nat /\ n >= new_size
      BY <2>1 DEF n
    <3>3. QED BY <1>2, <2>2, <3>1, <3>2, ResizeSound
  <2>4. CASE ~(new_size > p.cap)
    BY <1>1, <1>2, <2>2, <2>4
  <2>5. QED BY <2>3, <2>4
<1>7. WriteBytesCommon(p, bytes) = [grown EXCEPT !.payload = SubSeq(@, 1, p.offset) \o bytes \o pad,
                                                 !.offset = new_size]
    BY DEF WriteBytesCommon
<1>8. grown.payload = p.payload
  <2>1. Largest(p.cap * 2, new_size) \in Nat
    <3>1. \A x, y \in Nat : Largest(x * 2, y) \in Nat
      BY DEF Largest
    <3>2. QED BY <1>1, <1>2, <3>1
  <2>2. p \in [valid : BOOLEAN, header : Nat, cap : Int, offset : Nat, payload : Bytes]
    BY DEF Sound
  <2>3. QED BY <2>1, <2>2, ResizeSound
<1> HIDE DEF grown, pad, new_size, data_len
<1>9. WriteBytesCommon(p, bytes) = q
    BY <1>7, <1>8
<1> HIDE DEF kept
<1>10. /\ q \in [valid : BOOLEAN, header : Nat, cap : Int, offset : Nat, payload : Bytes]
       /\ q.payload = kept \o bytes \o pad /\ q.offset = new_size /\ q.cap = grown.cap
       /\ q.valid = p.valid /\ q.header = p.header
    BY <1>2, <1>5, <1>6
<1> HIDE DEF q
<1>11. Sound(q) /\ q.cap # ReadOnly /\ q.offset = Len(q.payload)
    BY <1>2, <1>5, <1>6, <1>10 DEF Sound
<1>12. QED BY <1>9, <1>10, <1>11 DEF new_size, data_len, pad, kept

\* Writing an int.
LEMMA WriteIntSound ==
    ASSUME NEW p, Sound(p), p.cap # ReadOnly, NEW n \in Nat
    PROVE  LET q == WriteInt(p, n)
           IN  /\ Sound(q) /\ q.cap # ReadOnly /\ q.offset = Len(q.payload)
               /\ q.valid = p.valid /\ q.header = p.header
               /\ q.offset = p.offset + WordSize
               /\ q.payload = SubSeq(p.payload, 1, p.offset) \o IntBytes(n)
<1>1. IntBytes(n) \in Bytes /\ Len(IntBytes(n)) = WordSize
    BY IntBytesType
<1>2. AlignInt(WordSize, WordSize) = WordSize
    BY DEF AlignInt, WordSize
<1>3. Repeat(0, WordSize - WordSize) = <<>>
    BY DEF Repeat, WordSize
<1> DEFINE kept == SubSeq(p.payload, 1, p.offset)
<1>4. kept \o IntBytes(n) \in Bytes
  <2>1. \A i \in 1 .. p.offset : p.payload[i] \in Byte
    BY ElementOfSeq DEF Sound, Bytes
  <2>2. kept \in Bytes
    BY <2>1, SubSeqProperties DEF Sound, Bytes
  <2>3. QED BY <1>1, <2>2, ConcatProperties DEF Bytes
<1>5. kept \o IntBytes(n) \o <<>> = kept \o IntBytes(n)
    BY <1>4, ConcatEmptySeq DEF Bytes
<1>6. QED BY <1>1, <1>2, <1>3, <1>5, WriteBytesSound DEF WriteInt

\* Writing a value.
LEMMA WriteSound ==
    ASSUME NEW p, Sound(p), p.cap # ReadOnly, NEW item \in Items
    PROVE  LET q == Write(p, item)
           IN  /\ Sound(q) /\ q.cap # ReadOnly /\ q.offset = Len(q.payload)
               /\ q.valid = p.valid /\ q.header = p.header
<1>1. item.bytes \in Bytes
    BY ItemAssumption DEF Value, Bytes, Byte
<1>2. Len(item.bytes) \in Nat
    BY <1>1 DEF Bytes
<1>3. ASSUME NEW n \in Nat
      PROVE  LET q == WriteBytesCommon(WriteInt(p, n), item.bytes)
             IN  /\ Sound(q) /\ q.cap # ReadOnly /\ q.offset = Len(q.payload)
                 /\ q.valid = p.valid /\ q.header = p.header
  <2> DEFINE o == WriteInt(p, n)
  <2>1. Sound(o) /\ o.cap # ReadOnly /\ o.valid = p.valid /\ o.header = p.header
    BY WriteIntSound
  <2> HIDE DEF o
  <2>2. LET q == WriteBytesCommon(o, item.bytes)
        IN  /\ Sound(q) /\ q.cap # ReadOnly /\ q.offset = Len(q.payload)
            /\ q.valid = o.valid /\ q.header = o.header
    BY <1>1, <2>1, WriteBytesSound
  <2>3. QED BY <2>1, <2>2 DEF o
<1>4. CASE item.kind \in {"string", "data"}
  <2>1. Write(p, item) = WriteBytesCommon(WriteInt(p, Len(item.bytes)), item.bytes)
    BY <1>4 DEF Write
  <2>2. QED BY <1>2, <1>3, <2>1
<1>5. CASE item.kind = "wstring"
  <2>1. Write(p, item) = WriteBytesCommon(WriteInt(p, Len(item.bytes) \div WordSize), item.bytes)
    BY <1>5 DEF Write
  <2>2. Len(item.bytes) \div WordSize \in Nat
    <3>1. \A n \in Nat : n \div 4 \in Nat
      OBVIOUS
    <3>2. QED BY <1>2, <3>1 DEF WordSize
  <2>3. QED BY <1>3, <2>1, <2>2
<1>6. CASE item.kind = "bool"
  <2>1. Write(p, item) = WriteInt(p, item.bytes[1])
    BY <1>6 DEF Write
  <2>2. Len(item.bytes) = 1
    BY <1>6, ItemAssumption DEF Value, SizeOf
  <2>3. 1 \in 1 .. Len(item.bytes)
    BY <2>2
  <2>4. item.bytes[1] \in Byte
    BY <1>1, <2>3, ElementOfSeq DEF Bytes
  <2>5. item.bytes[1] \in Nat
    BY <2>4 DEF Byte
  <2>6. QED BY <2>1, <2>5, WriteIntSound
<1>7. CASE item.kind \notin {"string", "data", "wstring", "bool"}
  <2>1. Write(p, item) = WriteBytesCommon(p, item.bytes)
    BY <1>7 DEF Write
  <2>2. QED BY <1>1, <2>1, WriteBytesSound
<1>8. QED BY <1>4, <1>5, <1>6, <1>7

\* Reserving room changes the allocation only.
LEMMA ReserveSound ==
    ASSUME NEW p, Sound(p), p.cap # ReadOnly, NEW n \in Nat
    PROVE  LET q == Reserve(p, n)
           IN  /\ Sound(q) /\ q.cap # ReadOnly /\ q.valid = p.valid /\ q.header = p.header
               /\ q.offset = p.offset /\ q.payload = p.payload
<1> DEFINE new_size == p.offset + AlignInt(n, WordSize)
           m == p.cap * 2 + new_size
<1>1. p \in [valid : BOOLEAN, header : Nat, cap : Int, offset : Nat, payload : Bytes]
    BY DEF Sound
<1>2. m \in Nat /\ m >= p.cap /\ p.cap \in Nat
  <2>1. AlignInt(n, WordSize) \in Nat
    BY AlignWord
  <2>2. p.cap \in Nat /\ p.offset \in Nat
    BY DEF Sound
  <2>3. QED BY <2>1, <2>2
<1>3. Reserve(p, n) = IF p.cap # ReadOnly /\ new_size > p.cap THEN Resize(p, m) ELSE p
    BY DEF Reserve
<1> HIDE DEF m, new_size
<1>4. /\ Resize(p, m) \in [valid : BOOLEAN, header : Nat, cap : Int, offset : Nat, payload : Bytes]
      /\ Resize(p, m).cap \in Nat /\ Resize(p, m).cap >= m /\ Resize(p, m).cap # ReadOnly
      /\ Resize(p, m).valid = p.valid /\ Resize(p, m).header = p.header
      /\ Resize(p, m).offset = p.offset /\ Resize(p, m).payload = p.payload
    BY <1>1, <1>2, ResizeSound
<1>5. Len(p.payload) \in Nat /\ Len(p.payload) <= p.cap
    BY DEF Sound, Bytes
<1>6. Sound(Resize(p, m))
    BY <1>2, <1>4, <1>5 DEF Sound
<1>7. QED BY <1>3, <1>4, <1>6

\* A copy, made either way, has the payload and an allocation that holds it.
LEMMA CopySound ==
    ASSUME NEW p, Sound(p)
    PROVE  \A q \in {Copy(p), Assign(NewPickle(WordSize), p)} :
               /\ Sound(q) /\ q.cap # ReadOnly /\ (p.valid => q.valid)
               /\ q.header = p.header /\ q.offset = p.offset /\ q.payload = p.payload
<1> DEFINE R == [valid : BOOLEAN, header : Nat, cap : Int, offset : Nat, payload : Bytes]
<1>1. /\ p \in R /\ Len(p.payload) \in Nat /\ p.header \in Nat
    BY DEF Sound, Bytes
<1>2. ASSUME NEW q, q = Copy(p)
      PROVE  /\ Sound(q) /\ q.cap # ReadOnly /\ (p.valid => q.valid)
             /\ q.header = p.header /\ q.offset = p.offset /\ q.payload = p.payload
  <2> DEFINE o == [p EXCEPT !.cap = 0]
             n == p.header + Len(p.payload)
  <2>1. o \in R /\ o.valid = p.valid /\ o.header = p.header /\ o.offset = p.offset /\ o.payload = p.payload
    BY <1>1
  <2>2. n \in Nat /\ n >= Len(p.payload)
    BY <1>1
  <2>3. q = Resize(o, n)
    BY <1>2 DEF Copy
  <2> HIDE DEF o, n
  <2>4. /\ q \in R /\ q.cap \in Nat /\ q.cap >= n /\ q.cap # ReadOnly
        /\ q.valid = o.valid /\ q.header = o.header /\ q.offset = o.offset /\ q.payload = o.payload
    <3>1. o \in R /\ n \in Nat
      BY <2>1, <2>2
    <3>2. QED BY <2>3, <3>1, ResizeSound
  <2>5. QED BY <1>1, <2>1, <2>2, <2>4 DEF Sound
<1>3. ASSUME NEW q, q = Assign(NewPickle(WordSize), p)
      PROVE  /\ Sound(q) /\ q.cap # ReadOnly /\ (p.valid => q.valid)
             /\ q.header = p.header /\ q.offset = p.offset /\ q.payload = p.payload
  <2> DEFINE o == [NewPickle(WordSize) EXCEPT !.cap = 0]
             n == Len(p.payload)
  <2>1. NewPickle(WordSize) \in R
    <3>1. WordSize \in Nat /\ WordSize >= WordSize
      BY DEF WordSize
    <3>2. Sound(NewPickle(WordSize))
      BY <3>1, NewPickleSound
    <3>3. QED BY <3>2 DEF Sound
  <2>2. o \in R
    BY <2>1
  <2>3. q = [Resize(o, n) EXCEPT !.valid = TRUE, !.header = p.header, !.payload = p.payload, !.offset = p.offset]
    BY <1>3 DEF Assign
  <2> HIDE DEF o
  <2>4. Resize(o, n) \in R /\ Resize(o, n).cap \in Nat /\ Resize(o, n).cap >= n /\ Resize(o, n).cap # ReadOnly
    BY <1>1, <2>2, ResizeSound
  <2>5. /\ q \in R /\ q.cap = Resize(o, n).cap /\ q.valid
        /\ q.header = p.header /\ q.offset = p.offset /\ q.payload = p.payload
    BY <1>1, <2>3, <2>4
  <2>6. QED BY <1>1, <2>4, <2>5 DEF Sound
<1>4. QED BY <1>2, <1>3

---------------------------------------------------------------------------
(* Pickles as bytes.                                                       *)

\* Two byte strings one after the other.
LEMMA Joined ==
    ASSUME NEW a \in Bytes, NEW b \in Bytes
    PROVE  /\ a \o b \in Bytes /\ Len(a) \in Nat /\ Len(b) \in Nat
           /\ Len(a \o b) = Len(a) + Len(b)
           /\ \A i \in 1 .. Len(a) : (a \o b)[i] = a[i]
           /\ \A j \in 1 .. Len(b) : (a \o b)[Len(a) + j] = b[j]
<1>1. /\ a \o b \in Bytes /\ Len(a) \in Nat /\ Len(b) \in Nat
      /\ Len(a \o b) = Len(a) + Len(b)
      /\ \A i \in 1 .. Len(a) + Len(b) : (a \o b)[i] = IF i <= Len(a) THEN a[i] ELSE b[i - Len(a)]
    BY ConcatProperties DEF Bytes
<1>2. \A i \in 1 .. Len(a) : i \in 1 .. Len(a) + Len(b) /\ i <= Len(a)
    BY <1>1
<1>3. \A j \in 1 .. Len(b) : /\ Len(a) + j \in 1 .. Len(a) + Len(b)
                             /\ ~(Len(a) + j <= Len(a)) /\ (Len(a) + j) - Len(a) = j
    BY <1>1
<1>4. QED BY <1>1, <1>2, <1>3

\* What a pickle is sent as: payload_size comes first and the payload last.
LEMMA DataFacts ==
    ASSUME NEW p, Sound(p), Own(p)
    PROVE  /\ Data(p) \in Bytes /\ Len(Data(p)) = p.header + Len(p.payload)
           /\ \A i \in 1 .. WordSize : Data(p)[i] = IntBytes(Len(p.payload))[i]
           /\ \A j \in 1 .. Len(p.payload) : Data(p)[p.header + j] = p.payload[j]
<1>1. PICK body \in Bytes, h \in Nat : body = p.payload /\ h = p.header /\ h >= WordSize
    BY DEF Sound, Own
<1>2. Len(body) \in Nat /\ h - WordSize \in Nat
    BY <1>1 DEF Bytes, WordSize
<1>3. PICK size \in Bytes : size = IntBytes(Len(body)) /\ Len(size) = WordSize
    BY <1>2, IntBytesType
<1>4. PICK rest \in Bytes : rest = Repeat(Junk, h - WordSize) /\ Len(rest) = h - WordSize
  <2>1. Junk \in Byte
    BY DEF Junk, Byte
  <2>2. QED BY <1>2, <2>1, RepeatFacts
<1>5. Data(p) = size \o rest \o body
    BY <1>1, <1>3, <1>4 DEF Data
<1>6. PICK front \in Bytes : /\ front = size \o rest /\ Len(front) = h
                             /\ \A i \in 1 .. WordSize : front[i] = size[i]
  <2>1. WordSize + (h - WordSize) = h
    BY <1>2 DEF WordSize
  <2>2. /\ size \o rest \in Bytes /\ Len(size \o rest) = Len(size) + Len(rest)
        /\ \A i \in 1 .. Len(size) : (size \o rest)[i] = size[i]
    BY Joined
  <2>3. /\ size \o rest \in Bytes /\ Len(size \o rest) = h
        /\ \A i \in 1 .. WordSize : (size \o rest)[i] = size[i]
    BY <1>3, <1>4, <2>1, <2>2, Zenon
  <2>4. QED BY <2>3, Zenon
<1>7. /\ front \o body \in Bytes /\ Len(front \o body) = h + Len(body)
      /\ \A i \in 1 .. h : (front \o body)[i] = front[i]
      /\ \A j \in 1 .. Len(body) : (front \o body)[h + j] = body[j]
    BY <1>6, Joined
<1>8. \A i \in 1 .. WordSize : i \in 1 .. h
    BY <1>1 DEF WordSize
<1>9. PICK data : data = Data(p)
    OBVIOUS
<1>10. data = front \o body
    BY <1>5, <1>6, <1>9
<1>11. \A i \in 1 .. WordSize : data[i] = IntBytes(Len(body))[i]
    BY <1>3, <1>6, <1>7, <1>8, <1>10, Zenon
<1>12. data \in Bytes /\ Len(data) = h + Len(body) /\ \A j \in 1 .. Len(body) : data[h + j] = body[j]
    BY <1>7, <1>10, Zenon
<1>13. QED BY <1>1, <1>9, <1>11, <1>12, Zenon

\* What arrives of a stream agrees with it.
LEMMA ArrivedFacts ==
    ASSUME NEW data \in Bytes, NEW n \in Int
    PROVE  /\ Arrived(data, n) \in Bytes
           /\ \A i \in 1 .. Len(Arrived(data, n)) : i <= Len(data) => Arrived(data, n)[i] = data[i]
<1>1. Len(data) \in Nat
    BY DEF Bytes
<1>2. CASE n >= 0
  <2>1. Junk \in Byte /\ n \in Nat
    BY <1>2 DEF Junk, Byte
  <2>2. Repeat(Junk, n) \in Bytes
    BY <2>1, RepeatFacts
  <2>3. Arrived(data, n) = data \o Repeat(Junk, n)
    BY <1>2 DEF Arrived
  <2>4. QED BY <1>1, <1>2, <2>2, <2>3, ConcatProperties DEF Bytes
<1>3. CASE n < 0
  <2>1. Arrived(data, n) = SubSeq(data, 1, Len(data) + n)
    BY <1>3 DEF Arrived
  <2>2. \A i \in 1 .. Len(data) + n : data[i] \in Byte
    BY <1>1, <1>3, ElementOfSeq DEF Bytes
  <2>3. /\ SubSeq(data, 1, Len(data) + n) \in Seq(Byte)
        /\ Len(SubSeq(data, 1, Len(data) + n)) = IF 1 <= Len(data) + n THEN (Len(data) + n) - 1 + 1 ELSE 0
        /\ \A i \in 1 .. (Len(data) + n) - 1 + 1 : SubSeq(data, 1, Len(data) + n)[i] = data[1 + i - 1]
    BY <1>1, <2>2, SubSeqProperties
  <2>4. QED
    <3>1. CASE 1 <= Len(data) + n
      BY <1>1, <1>3, <2>1, <2>3, <3>1 DEF Bytes
    <3>2. CASE ~(1 <= Len(data) + n)
      <4>1. Len(Arrived(data, n)) = 0 /\ Len(data) + n \in Int
        BY <1>1, <2>1, <2>3, <3>2
      <4>2. 1 .. Len(Arrived(data, n)) = {}
        BY <4>1
      <4>3. QED BY <2>1, <2>3, <4>2 DEF Bytes
    <3>3. QED BY <3>1, <3>2
<1>4. QED BY <1>2, <1>3

\* The prefix of a byte string.
LEMMA Cut ==
    ASSUME NEW data \in Bytes, NEW n \in Int, n <= Len(data)
    PROVE  /\ SubSeq(data, 1, n) \in Bytes
           /\ Len(SubSeq(data, 1, n)) = IF 0 <= n THEN n ELSE 0
           /\ \A i \in 1 .. n : SubSeq(data, 1, n)[i] = data[i]
<1>1. Len(data) \in Nat
    BY DEF Bytes
<1>2. \A i \in 1 .. n : data[i] \in Byte
    BY <1>1, ElementOfSeq DEF Bytes
<1>3. /\ SubSeq(data, 1, n) \in Seq(Byte)
      /\ Len(SubSeq(data, 1, n)) = IF 1 <= n THEN n - 1 + 1 ELSE 0
      /\ \A i \in 1 .. n - 1 + 1 : SubSeq(data, 1, n)[i] = data[1 + i - 1]
    BY <1>2, SubSeqProperties
<1>4. n - 1 + 1 = n /\ \A i \in 1 .. n : 1 + i - 1 = i
    OBVIOUS
<1>5. QED BY <1>3, <1>4 DEF Bytes

\* A suffix of a byte string.
LEMMA Behind ==
    ASSUME NEW data \in Bytes, NEW h \in Nat, h <= Len(data)
    PROVE  /\ SubSeq(data, h + 1, Len(data)) \in Bytes
           /\ Len(SubSeq(data, h + 1, Len(data))) = Len(data) - h
           /\ \A j \in 1 .. Len(data) - h : SubSeq(data, h + 1, Len(data))[j] = data[h + j]
<1>1. PICK m \in Nat : m = Len(data)
    BY DEF Bytes
<1>2. \A i \in h + 1 .. m : data[i] \in Byte
    BY <1>1, ElementOfSeq DEF Bytes
<1>3. /\ SubSeq(data, h + 1, m) \in Seq(Byte)
      /\ Len(SubSeq(data, h + 1, m)) = IF h + 1 <= m THEN m - (h + 1) + 1 ELSE 0
      /\ \A i \in 1 .. m - (h + 1) + 1 : SubSeq(data, h + 1, m)[i] = data[(h + 1) + i - 1]
    BY <1>2, SubSeqProperties
<1>4. m - (h + 1) + 1 = m - h /\ \A i \in 1 .. m - h : (h + 1) + i - 1 = h + i
    BY <1>1
<1>5. (IF h + 1 <= m THEN m - h ELSE 0) = m - h
    BY <1>1
<1>6. /\ SubSeq(data, h + 1, m) \in Bytes /\ Len(SubSeq(data, h + 1, m)) = m - h
      /\ \A j \in 1 .. m - h : SubSeq(data, h + 1, m)[j] = data[h + j]
    BY <1>3, <1>4, <1>5, Zenon DEF Bytes
<1>7. QED BY <1>1, <1>6, Zenon

\* A pickle made from bytes that begin as those of a sound one: it is sound, and when
\* none of them is missing and none follows it is the one that was sent.
LEMMA FromDataSound ==
    ASSUME NEW data \in Bytes, NEW n \in Nat, n % WordSize = 0,
           \A i \in 1 .. WordSize : i <= Len(data) => data[i] = IntBytes(n)[i]
    PROVE  /\ Sound(FromData(data)) /\ FromData(data).cap = ReadOnly
           /\ \A h \in Nat :
                 /\ h >= WordSize /\ h % WordSize = 0 /\ Len(data) = h + n /\ n <= MaxInt
                 => /\ Len(FromData(data).payload) = n
                    /\ \A j \in 1 .. n : FromData(data).payload[j] = data[h + j]
<1>1. PICK m \in Nat : m = Len(data)
    BY DEF Bytes
<1>2. <<>> \in Bytes /\ Len(<<>>) = 0 /\ 0 % WordSize = 0
    BY DEF Bytes, WordSize
<1>3. Sound(Invalid) /\ Invalid.cap = ReadOnly
    BY <1>2 DEF Sound, Invalid, ReadOnly
<1>4. CASE m < WordSize
  <2>1. FromData(data) = Invalid
    BY <1>1, <1>4 DEF FromData
  <2>2. \A h \in Nat : ~(h >= WordSize /\ Len(data) = h + n)
    BY <1>1, <1>4 DEF WordSize
  <2>3. QED BY <1>3, <2>1, <2>2
<1>5. CASE m >= WordSize
  <2>1. \A i \in 1 .. WordSize : i <= Len(data)
    BY <1>1, <1>5 DEF WordSize
  <2>2. PICK x \in Int : x = IntOf(data) /\ x % WordSize = 0 /\ (n <= MaxInt => x = n)
    BY <2>1, IntBytesType
  <2>3. FromData(data) =
          IF m < WordSize \/ m - x <= 0 \/ m - x > m \/ (m - x) % WordSize # 0
          THEN Invalid
          ELSE [valid |-> TRUE, header |-> m - x, cap |-> ReadOnly, offset |-> 0,
                payload |-> SubSeq(data, (m - x) + 1, m)]
    BY <1>1, <2>2 DEF FromData
  <2>4. CASE m - x <= 0 \/ m - x > m \/ (m - x) % WordSize # 0
    <3>1. FromData(data) = Invalid
      BY <2>3, <2>4
    <3>2. \A h \in Nat : ~(h >= WordSize /\ h % WordSize = 0 /\ m = h + n /\ n <= MaxInt)
      <4>1. SUFFICES ASSUME NEW h \in Nat, h >= WordSize, h % WordSize = 0, m = h + n, n <= MaxInt
                     PROVE  FALSE
        OBVIOUS
      <4>2. m - x = h
        BY <2>2, <4>1
      <4>3. h > 0 /\ h <= m
        BY <4>1 DEF WordSize
      <4>4. QED BY <2>4, <4>1, <4>2, <4>3
    <3>3. QED BY <1>1, <1>3, <3>1, <3>2
  <2>5. CASE ~(m - x <= 0 \/ m - x > m \/ (m - x) % WordSize # 0)
    <3>1. PICK k \in Nat : k = m - x /\ k <= m /\ m - k = x
      BY <2>5
    <3>2. PICK body \in Bytes : /\ body = SubSeq(data, k + 1, m) /\ Len(body) = x
                                /\ \A j \in 1 .. x : body[j] = data[k + j]
      <4>1. /\ SubSeq(data, k + 1, Len(data)) \in Bytes
            /\ Len(SubSeq(data, k + 1, Len(data))) = Len(data) - k
            /\ \A j \in 1 .. Len(data) - k : SubSeq(data, k + 1, Len(data))[j] = data[k + j]
        BY <1>1, <3>1, Behind
      <4>2. /\ SubSeq(data, k + 1, m) \in Bytes /\ Len(SubSeq(data, k + 1, m)) = x
        BY <1>1, <3>1, <4>1
      <4>3. \A j \in 1 .. x : SubSeq(data, k + 1, m)[j] = data[k + j]
        BY <1>1, <3>1, <4>1, Zenon
      <4>4. QED BY <4>2, <4>3, Zenon
    <3>3. FromData(data) = [valid |-> TRUE, header |-> k, cap |-> ReadOnly, offset |-> 0, payload |-> body]
      BY <1>5, <2>3, <2>5, <3>1, <3>2 DEF WordSize
    <3>4. Sound(FromData(data)) /\ FromData(data).cap = ReadOnly /\ FromData(data).payload = body
      <4>1. Len(body) \in Nat /\ 0 % WordSize = 0 /\ ReadOnly \in Int
        BY DEF Bytes, WordSize, ReadOnly
      <4>2. PICK q : q = FromData(data)
        OBVIOUS
      <4>3. /\ q \in [valid : BOOLEAN, header : Nat, cap : Int, offset : Nat, payload : Bytes]
            /\ q.cap = ReadOnly /\ q.offset = 0 /\ q.payload = body
        BY <3>3, <4>1, <4>2
      <4>4. q.offset <= Len(q.payload) /\ Len(q.payload) % WordSize = 0 /\ q.offset % WordSize = 0
        BY <2>2, <3>2, <4>1, <4>3
      <4>5. QED BY <4>2, <4>3, <4>4 DEF Sound
    <3>5. \A h \in Nat : Len(data) = h + n /\ n <= MaxInt => h = k /\ x = n
      BY <1>1, <2>2, <3>1
    <3>6. QED BY <3>2, <3>4, <3>5
  <2>6. QED BY <2>4, <2>5
<1>6. m < WordSize \/ m >= WordSize
    BY DEF WordSize
<1>7. QED BY <1>4, <1>5, <1>6

\* What a receiver takes for the whole of a disturbed stream is sound.
LEMMA ReceiveAllSound ==
    ASSUME NEW p, Sound(p), Own(p), NEW n \in Int
    PROVE  LET q == FromData(Arrived(Data(p), n)) IN Sound(q) /\ q.cap = ReadOnly
<1>1. PICK m \in Nat, h \in Nat : /\ m = Len(p.payload) /\ m % WordSize = 0
                                  /\ h = p.header /\ h >= WordSize
    BY DEF Sound, Own, Bytes
<1>2. PICK data \in Bytes : /\ data = Data(p) /\ Len(data) = h + m
                            /\ \A i \in 1 .. WordSize : data[i] = IntBytes(m)[i]
    BY <1>1, DataFacts
<1>3. PICK stream \in Bytes : /\ stream = Arrived(data, n)
                              /\ \A i \in 1 .. Len(stream) : i <= Len(data) => stream[i] = data[i]
    BY <1>2, ArrivedFacts
<1>4. \A i \in 1 .. WordSize : i <= Len(stream) => i \in 1 .. Len(stream) /\ i <= Len(data)
  <2>1. Len(stream) \in Nat
    BY DEF Bytes
  <2>2. Len(data) = h + m /\ h >= 4
    BY <1>1, <1>2 DEF WordSize
  <2>3. QED BY <2>1, <2>2 DEF WordSize
<1>5. \A i \in 1 .. WordSize : i <= Len(stream) => stream[i] = IntBytes(m)[i]
    BY <1>2, <1>3, <1>4, Zenon
<1>6. QED BY <1>1, <1>2, <1>3, <1>5, FromDataSound

\* What FindNext cuts out of a stream is sound, and it is the payload that was sent.
LEMMA ReceiveSound ==
    ASSUME NEW p, Sound(p), Own(p), NEW n \in Int,
           NEW stream, stream = Arrived(Data(p), n),
           NEW next, next = FindNext(p.header, stream), next # Null
    PROVE  LET q == FromData(SubSeq(stream, 1, next))
           IN  /\ Sound(q) /\ q.cap = ReadOnly
               /\ Len(p.payload) <= MaxInt => q.payload = p.payload
<1>1. PICK m \in Nat, h \in Nat, body \in Bytes :
        /\ m = Len(p.payload) /\ m % WordSize = 0 /\ body = p.payload
        /\ h = p.header /\ h >= WordSize /\ h % WordSize = 0
    BY DEF Sound, Own, Bytes
<1>2. PICK data \in Bytes : /\ data = Data(p) /\ Len(data) = h + m
                            /\ \A i \in 1 .. WordSize : data[i] = IntBytes(m)[i]
                            /\ \A j \in 1 .. m : data[h + j] = body[j]
    BY <1>1, DataFacts
<1>3. /\ stream \in Bytes
      /\ \A i \in 1 .. Len(stream) : i <= Len(data) => stream[i] = data[i]
    BY <1>2, ArrivedFacts
<1>4. PICK k \in Nat : k = Len(stream)
    BY <1>3 DEF Bytes
<1>5. k >= WordSize /\ ~(k - h < IntOf(stream)) /\ next = h + IntOf(stream)
  <2>1. FindNext(h, stream) = IF k < WordSize \/ k < h \/ k - h < IntOf(stream)
                              THEN Null ELSE h + IntOf(stream)
    BY <1>4 DEF FindNext
  <2>2. ~(k < WordSize)
    BY <1>1, <2>1
  <2>3. k >= WordSize
    BY <2>2 DEF WordSize
  <2>4. QED BY <1>1, <2>1, <2>3
<1>6. \A i \in 1 .. WordSize : i \in 1 .. k /\ i <= Len(data)
  <2>1. k >= 4 /\ h >= 4 /\ Len(data) = h + m
    BY <1>1, <1>2, <1>5 DEF WordSize
  <2>2. QED BY <2>1 DEF WordSize
<1>7. \A i \in 1 .. WordSize : stream[i] = IntBytes(m)[i]
    BY <1>2, <1>3, <1>4, <1>6, Zenon
<1>8. IntOf(stream) \in Int /\ (m <= MaxInt => IntOf(stream) = m)
    BY <1>7, IntBytesType
<1>9. next \in Int /\ next <= k /\ (m <= MaxInt => next = h + m)
    BY <1>5, <1>8
<1>10. PICK cut \in Bytes : /\ cut = SubSeq(stream, 1, next)
                            /\ Len(cut) = IF 0 <= next THEN next ELSE 0
                            /\ \A i \in 1 .. next : cut[i] = stream[i]
  <2>1. next \in Int /\ next <= Len(stream)
    BY <1>4, <1>9
  <2>2. /\ SubSeq(stream, 1, next) \in Bytes
        /\ Len(SubSeq(stream, 1, next)) = IF 0 <= next THEN next ELSE 0
        /\ \A i \in 1 .. next : SubSeq(stream, 1, next)[i] = stream[i]
    BY <1>3, <2>1, Cut
  <2>3. QED BY <2>2, Zenon
<1>11. \A i \in 1 .. WordSize : i <= Len(cut) => cut[i] = IntBytes(m)[i]
  <2>1. \A i \in 1 .. WordSize : i <= Len(cut) => i \in 1 .. next
    BY <1>9, <1>10 DEF WordSize
  <2>2. QED BY <1>7, <1>10, <2>1, Zenon
<1>12. Sound(FromData(cut)) /\ FromData(cut).cap = ReadOnly
    BY <1>1, <1>11, FromDataSound
<1>13. ASSUME m <= MaxInt PROVE FromData(cut).payload = body
  <2>1. next = h + m /\ Len(cut) = h + m
    BY <1>9, <1>10, <1>13
  <2>2. PICK got \in Bytes : /\ got = FromData(cut).payload /\ Len(got) = m
                             /\ \A j \in 1 .. m : got[j] = cut[h + j]
    <3>1. /\ Len(FromData(cut).payload) = m
          /\ \A j \in 1 .. m : FromData(cut).payload[j] = cut[h + j]
      <4>1. m % WordSize = 0 /\ h >= WordSize /\ h % WordSize = 0
        BY <1>1
      <4>2. \A g \in Nat :
              g >= WordSize /\ g % WordSize = 0 /\ Len(cut) = g + m /\ m <= MaxInt
              => /\ Len(FromData(cut).payload) = m
                 /\ \A j \in 1 .. m : FromData(cut).payload[j] = cut[g + j]
        BY <1>11, <4>1, FromDataSound
      <4>3. QED BY <1>13, <2>1, <4>1, <4>2, Zenon
    <3>2. FromData(cut).payload \in Bytes
      BY <1>12 DEF Sound
    <3>3. QED BY <3>1, <3>2
  <2>3. \A j \in 1 .. m : /\ h + j \in 1 .. next /\ h + j \in 1 .. k
                          /\ h + j <= Len(data)
    BY <1>2, <1>9, <2>1
  <2>4. ASSUME NEW j \in 1 .. m PROVE got[j] = body[j]
    <3>1. got[j] = cut[h + j] /\ data[h + j] = body[j]
      BY <1>2, <2>2
    <3>2. cut[h + j] = stream[h + j]
      BY <1>10, <2>3
    <3>3. stream[h + j] = data[h + j]
      BY <1>3, <1>4, <2>3
    <3>4. QED BY <3>1, <3>2, <3>3
  <2>5. Len(body) = Len(got)
    BY <1>1, <2>2
  <2>6. QED BY <1>1, <2>2, <2>4, <2>5, SeqEqual DEF Bytes
<1>14. QED BY <1>1, <1>10, <1>12, <1>13

---------------------------------------------------------------------------
(* The reader.                                                             *)

\* A read of n bytes, any int: the reader stays inside, and what it takes are the n bytes
\* behind its index.
LEMMA GetInside ==
    ASSUME NEW i \in Iterator, Inside(i), NEW n \in Int
    PROVE  LET r == GetReadPointerAndAdvance(i, n)
           IN  /\ r.index \in 0 .. Len(i.payload) /\ r.index % WordSize = 0
               /\ r.ok => r.out \in Bytes /\ Len(r.out) = n
               /\ 0 <= n /\ i.index + AlignInt(n, WordSize) <= Len(i.payload) =>
                    /\ r.ok /\ r.index = i.index + AlignInt(n, WordSize)
                    /\ \A j \in 1 .. n : r.out[j] = i.payload[i.index + j]
<1>1. PICK body \in Bytes, at \in Nat, m \in Nat :
        /\ body = i.payload /\ at = i.index /\ m = Len(body) /\ at <= m
        /\ m % WordSize = 0 /\ at % WordSize = 0
    BY DEF Inside, Iterator, Bytes
<1>2. CASE n < 0 \/ m - at < n
  <2>1. GetReadPointerAndAdvance(i, n) = [ok |-> FALSE, index |-> m, out |-> <<>>]
    BY <1>1, <1>2 DEF GetReadPointerAndAdvance, Failed, Left
  <2>2. ~(0 <= n /\ at + AlignInt(n, WordSize) <= m)
    <3>1. CASE n \in Nat
      <4>1. PICK a \in Nat : a = AlignInt(n, WordSize) /\ a >= n
        BY <3>1, AlignWord
      <4>2. ~(at + a <= m)
        BY <1>2, <3>1, <4>1
      <4>3. QED BY <4>1, <4>2
    <3>2. CASE n \notin Nat
      BY <3>2
    <3>3. QED BY <3>1, <3>2
  <2>3. m \in 0 .. m
    OBVIOUS
  <2>4. QED BY <1>1, <2>1, <2>2, <2>3
<1>3. CASE ~(n < 0 \/ m - at < n)
  <2>1. PICK a \in Nat : a = AlignInt(n, WordSize) /\ a >= n /\ a % WordSize = 0
    BY <1>3, AlignWord
  <2>2. GetReadPointerAndAdvance(i, n) =
          [ok |-> TRUE, index |-> IF m - at < a THEN m ELSE at + a, out |-> SubSeq(body, at + 1, at + n)]
    BY <1>1, <1>3, <2>1 DEF GetReadPointerAndAdvance, Advance, Left
  <2>3. /\ SubSeq(body, at + 1, at + n) \in Bytes /\ Len(SubSeq(body, at + 1, at + n)) = n
        /\ \A j \in 1 .. n : SubSeq(body, at + 1, at + n)[j] = body[at + j]
    <3>1. \A k \in at + 1 .. at + n : body[k] \in Byte
      BY <1>1, <1>3, ElementOfSeq DEF Bytes
    <3>2. /\ SubSeq(body, at + 1, at + n) \in Seq(Byte)
          /\ Len(SubSeq(body, at + 1, at + n)) = IF at + 1 <= at + n THEN (at + n) - (at + 1) + 1 ELSE 0
          /\ \A k \in 1 .. (at + n) - (at + 1) + 1 :
                SubSeq(body, at + 1, at + n)[k] = body[(at + 1) + k - 1]
      <4>1. at + 1 \in Int /\ at + n \in Int
        OBVIOUS
      <4>2. QED BY <3>1, <4>1, SubSeqProperties
    <3>3. (at + n) - (at + 1) + 1 = n /\ \A k \in 1 .. n : (at + 1) + k - 1 = at + k
      OBVIOUS
    <3>4. (IF at + 1 <= at + n THEN n ELSE 0) = n
      BY <1>3
    <3>5. QED BY <3>2, <3>3, <3>4 DEF Bytes
  <2>4. PICK x \in 0 .. m : /\ x = IF m - at < a THEN m ELSE at + a
                            /\ x % WordSize = 0 /\ (at + a <= m => x = at + a)
    <3>1. CASE m - at < a
      <4>1. m \in 0 .. m /\ ~(at + a <= m)
        BY <2>1, <3>1
      <4>2. QED BY <1>1, <3>1, <4>1
    <3>2. CASE ~(m - at < a)
      <4>1. at + a \in 0 .. m /\ (at + a) % WordSize = 0
        <5>1. at % 4 = 0 /\ a % 4 = 0
          BY <1>1, <2>1 DEF WordSize
        <5>2. (at + a) % 4 = 0
          BY <5>1, OnTheGrid, Zenon
        <5>3. QED BY <3>2, <5>2 DEF WordSize
      <4>2. QED BY <3>2, <4>1
    <3>3. QED BY <3>1, <3>2
  <2>5. PICK out \in Bytes : /\ out = SubSeq(body, at + 1, at + n) /\ Len(out) = n
                             /\ \A j \in 1 .. n : out[j] = body[at + j]
    BY <2>3
  <2>6. GetReadPointerAndAdvance(i, n) = [ok |-> TRUE, index |-> x, out |-> out]
    BY <2>2, <2>4, <2>5
  <2>7. PICK r : r = GetReadPointerAndAdvance(i, n)
    OBVIOUS
  <2>8. r.ok /\ r.index = x /\ r.out = out
    BY <2>6, <2>7
  <2>9. /\ r.index \in 0 .. m /\ r.index % WordSize = 0
        /\ r.out \in Bytes /\ Len(r.out) = n
        /\ (at + a <= m => r.index = at + a)
        /\ \A j \in 1 .. n : r.out[j] = body[at + j]
    BY <2>4, <2>5, <2>8, Zenon
  <2>10. QED BY <1>1, <2>1, <2>7, <2>8, <2>9, Zenon
<1>4. QED BY <1>2, <1>3

\* A read of elements.
LEMMA ElementsInside ==
    ASSUME NEW i \in Iterator, Inside(i), NEW n \in Int
    PROVE  /\ GetElements(i, n, WordSize).index \in 0 .. Len(i.payload)
           /\ GetElements(i, n, WordSize).index % WordSize = 0
           /\ 0 <= n /\ n * WordSize <= MaxInt =>
                GetElements(i, n, WordSize) = GetReadPointerAndAdvance(i, n * WordSize)
<1>1. GetElements(i, n, WordSize) \in {Failed(i.index), GetReadPointerAndAdvance(i, n * WordSize)}
    BY SMT DEF GetElements
<1>2. Failed(i.index).index = i.index
    BY DEF Failed
<1>3. n * WordSize \in Int
    BY DEF WordSize
<1>4. /\ GetReadPointerAndAdvance(i, n * WordSize).index \in 0 .. Len(i.payload)
      /\ GetReadPointerAndAdvance(i, n * WordSize).index % WordSize = 0
    BY <1>3, GetInside
<1>5. 0 <= n /\ n * WordSize <= MaxInt =>
         GetElements(i, n, WordSize) = GetReadPointerAndAdvance(i, n * WordSize)
  <2>1. ASSUME 0 <= n, n * 4 <= 2147483647
        PROVE  ~(n > 2147483647 \div 4 \/ n < -(2147483647 \div 4) - 1)
    BY <2>1, SMTT(30)
  <2>2. QED BY <2>1, SMTT(30) DEF GetElements, MaxInt, WordSize
<1>6. QED BY <1>1, <1>2, <1>4, <1>5 DEF Inside

\* The size of a fixed kind.
LEMMA SizeOfFixed ==
    ASSUME NEW kind \in Fixed
    PROVE  SizeOf(kind) \in {1, 2, 4, 8}
BY DEF Fixed, SizeOf

\* Whatever a reader asks for, it stays inside.
LEMMA ReadInside ==
    ASSUME NEW i \in Iterator, Inside(i), NEW n \in Int,
           NEW kind \in Fixed \cup {"string", "wstring", "data", "bytes", "length"}
    PROVE  /\ Read(i, kind, n).index \in 0 .. Len(i.payload)
           /\ Read(i, kind, n).index % WordSize = 0
<1> DEFINE Stays(r) == r.index \in 0 .. Len(i.payload) /\ r.index % WordSize = 0
           r == ReadInt(i)
<1>1. WordSize \in Int
    BY DEF WordSize
<1>2. Stays(r) /\ (r.ok => r.out \in Bytes /\ Len(r.out) = WordSize)
    BY <1>1, GetInside DEF ReadInt, ReadBuiltinType
<1>3. r.ok => IntOf(r.out) \in Int
    BY <1>2, IntOfType
<1> HIDE DEF r
<1>4. PICK k : k = [i EXCEPT !.index = r.index]
    OBVIOUS
<1>5. k \in Iterator /\ Inside(k) /\ k.payload = i.payload
    BY <1>2, <1>4 DEF Inside, Iterator, Bytes
<1>6. r.ok => /\ Stays(GetReadPointerAndAdvance(k, IntOf(r.out)))
              /\ Stays(GetElements(k, IntOf(r.out), WordSize))
    BY <1>3, <1>5, GetInside, ElementsInside
<1>7. CASE kind \in {"string", "data"}
    BY <1>2, <1>4, <1>6, <1>7 DEF Read, ReadString, ReadData, Then, r
<1>8. CASE kind = "wstring"
    BY <1>2, <1>4, <1>6, <1>8 DEF Read, ReadWString, Then, r
<1>9. CASE kind = "bytes"
    BY <1>9, GetInside DEF Read, ReadBytes
<1>10. CASE kind = "length"
  <2>1. Read(i, kind, n) \in {r, Failed(r.index)}
    BY <1>10 DEF Read, ReadLength, r
  <2>2. QED BY <1>2, <2>1 DEF Failed
<1>11. CASE kind \in Fixed
  <2>1. Read(i, kind, n) = GetReadPointerAndAdvance(i, SizeOf(kind))
    BY <1>11 DEF Read, ReadBuiltinType, Fixed
  <2>2. SizeOf(kind) \in Int
    BY <1>11, SizeOfFixed
  <2>3. QED BY <2>1, <2>2, GetInside
<1>12. QED BY <1>7, <1>8, <1>9, <1>10, <1>11

---------------------------------------------------------------------------
(* Every step keeps the invariant.                                         *)

\* The kinds of the values and of the reads.
LEMMA KindFacts ==
    /\ \A item \in Items : /\ item.kind \in Fixed \cup {"string", "wstring", "data", "bytes"}
                            /\ item.bytes \in Bytes /\ Len(item.bytes) \in Nat
    /\ \A kind \in Kinds : kind \in Fixed \cup {"string", "wstring", "data", "bytes", "length"}
<1>1. ASSUME NEW item \in Items
      PROVE  /\ item.kind \in Fixed \cup {"string", "wstring", "data", "bytes"}
             /\ item.bytes \in Bytes
    BY ItemAssumption DEF Value, Bytes, Byte
<1>2. \A b \in Bytes : Len(b) \in Nat
    BY DEF Bytes
<1>3. QED BY <1>1, <1>2 DEF Kinds

\* What was written is not taken for what is unknown.
LEMMA KnownValues == Unknown \notin Seq(Items)
<1>1. SUFFICES ASSUME Unknown \in Seq(Items) PROVE FALSE
    OBVIOUS
<1>2. Len(Unknown) = 1 /\ Unknown[1].kind = "unknown"
    BY DEF Unknown
<1>3. Unknown[1] \in Items
    BY <1>1, <1>2, 1 \in 1 .. 1, ElementOfSeq
<1>4. QED BY <1>2, <1>3, KindFacts DEF Fixed

LEMMA InitInv == Init => Inv
<1>1. SUFFICES ASSUME Init PROVE Inv
    OBVIOUS
<1>2. PICK h \in HeaderSizes : pickle = NewPickle(h)
    BY <1>1 DEF Init
<1>3. h \in Nat /\ h >= WordSize
    BY SizeAssumption
<1>4. Sound(pickle) /\ Own(pickle)
    BY <1>2, <1>3, NewPickleSound
<1>5. values \in Seq(Items) /\ it = NoIterator
    BY <1>1 DEF Init
<1>6. QED BY <1>4, <1>5, Zenon DEF Inv

LEMMA StepInv == Inv /\ [Next]_vars => Inv'
<1>1. SUFFICES ASSUME Inv, [Next]_vars PROVE Inv'
    OBVIOUS
<1> DEFINE Values(v) == v = Unknown \/ v \in Seq(Items)
           Reader(i) == i = NoIterator \/ (i \in Iterator /\ Inside(i))
<1>2. /\ Sound(pickle) /\ (~received => Own(pickle)) /\ Values(values) /\ Reader(it)
    BY <1>1, Zenon DEF Inv
<1>3. SUFFICES /\ Sound(pickle') /\ (~received' => Own(pickle')) /\ Values(values') /\ Reader(it')
    BY DEF Inv, Iterator, Sound, Own, Inside, NoIterator
<1> HIDE DEF Values, Reader
<1>4. Values(Unknown)
    BY DEF Values
<1>5. ASSUME NEW item \in Items, WriteItem(item) PROVE <1>3!1
  <2>1. pickle' = Write(pickle, item) /\ pickle.valid /\ pickle.cap # ReadOnly
        /\ values' = Append(values, item) /\ values # Unknown
        /\ received' = received /\ it' = it
    BY <1>5 DEF WriteItem, MayWrite, Becomes
  <2>2. /\ Sound(pickle') /\ pickle'.cap # ReadOnly /\ pickle'.offset = Len(pickle'.payload)
        /\ pickle'.valid = pickle.valid /\ pickle'.header = pickle.header
    BY <1>2, <2>1, WriteSound
  <2>3. Values(values')
    BY <1>2, <2>1, AppendProperties DEF Values
  <2>4. QED BY <1>2, <2>1, <2>2, <2>3 DEF Own
<1>6. ASSUME NEW item \in Items, ReserveFor(item) PROVE <1>3!1
  <2>1. pickle' = Reserve(pickle, Len(item.bytes)) /\ pickle.cap # ReadOnly
        /\ values' = values /\ received' = received /\ it' = it
    BY <1>6 DEF ReserveFor, MayWrite, Becomes
  <2>2. /\ Sound(pickle') /\ pickle'.cap # ReadOnly /\ pickle'.valid = pickle.valid
        /\ pickle'.header = pickle.header /\ pickle'.offset = pickle.offset
        /\ pickle'.payload = pickle.payload
    BY <1>2, <2>1, KindFacts, ReserveSound
  <2>3. QED BY <1>2, <2>1, <2>2 DEF Own
<1>7. ASSUME NEW n \in Noise, Receive(n) PROVE <1>3!1
  <2>1. n \in Int
    BY SizeAssumption
  <2>2. PICK stream : stream = Arrived(Data(pickle), n)
    OBVIOUS
  <2>3. PICK next : next = FindNext(pickle.header, stream)
    OBVIOUS
  <2>4. /\ ~received /\ next # Null /\ pickle' = FromData(SubSeq(stream, 1, next))
        /\ values' = values /\ received' = TRUE /\ it' = it
    BY <1>7, <2>2, <2>3 DEF Receive, Becomes
  <2>5. Sound(pickle')
    BY <1>2, <2>1, <2>2, <2>3, <2>4, ReceiveSound
  <2>6. QED BY <1>2, <2>4, <2>5
<1>8. ASSUME NEW n \in Noise, ReceiveAll(n) PROVE <1>3!1
  <2>1. n \in Int
    BY SizeAssumption
  <2>2. /\ ~received /\ pickle' = FromData(Arrived(Data(pickle), n))
        /\ values' = Unknown /\ received' = TRUE /\ it' = it
    BY <1>8 DEF ReceiveAll, Becomes
  <2>3. Sound(pickle')
    BY <1>2, <2>1, <2>2, ReceiveAllSound
  <2>4. QED BY <1>2, <1>4, <2>2, <2>3
<1>9. ASSUME CopyPickle PROVE <1>3!1
  <2>1. CASE dead' = TRUE /\ UNCHANGED <<pickle, values, received, it, last>>
    BY <1>2, <2>1 DEF Own
  <2>2. CASE /\ pickle.valid /\ pickle' \in {Copy(pickle), Assign(NewPickle(WordSize), pickle)}
             /\ values' = values /\ received' = received /\ it' = it
    <3>1. /\ Sound(pickle') /\ pickle'.cap # ReadOnly /\ pickle'.valid
          /\ pickle'.header = pickle.header /\ pickle'.offset = pickle.offset
          /\ pickle'.payload = pickle.payload
      BY <1>2, <2>2, CopySound
    <3>2. QED BY <1>2, <2>2, <3>1 DEF Own
  <2>3. QED BY <1>9, <2>1, <2>2 DEF CopyPickle, Becomes
<1>10. ASSUME NewIterator PROVE <1>3!1
  <2>1. /\ it' = [payload |-> pickle.payload, index |-> 0, todo |-> values]
        /\ UNCHANGED <<pickle, values, received>>
    BY <1>10 DEF NewIterator
  <2>2. 0 \in 0 .. Len(pickle.payload) /\ 0 % WordSize = 0
    BY <1>2 DEF Sound, Bytes, WordSize
  <2>3. it' \in Iterator /\ Inside(it')
    BY <1>2, <2>1, <2>2 DEF Iterator, Inside, Sound, Values
  <2>4. QED BY <1>2, <2>1, <2>3 DEF Reader, Own
<1>11. ASSUME NEW kind, NEW n \in Int, NEW rest \in Seq(Items) \cup {Unknown}, it # NoIterator,
              kind \in Fixed \cup {"string", "wstring", "data", "bytes", "length"},
              it' = [it EXCEPT !.index = Read(it, kind, n).index, !.todo = rest],
              UNCHANGED <<pickle, values, received>>
       PROVE  <1>3!1
  <2>1. it \in Iterator /\ Inside(it)
    BY <1>2, <1>11 DEF Reader
  <2>2. PICK x : /\ x = Read(it, kind, n).index
                 /\ x \in 0 .. Len(it.payload) /\ x % WordSize = 0
    BY <1>11, <2>1, ReadInside
  <2>3. it' = [it EXCEPT !.index = x, !.todo = rest] /\ x \in Nat
    BY <1>11, <2>2
  <2>4. it' \in Iterator /\ it'.payload = it.payload /\ it'.index = x
    BY <2>1, <2>3 DEF Iterator
  <2>5. Inside(it')
    BY <2>1, <2>2, <2>4 DEF Inside
  <2>6. QED BY <1>2, <1>11, <2>4, <2>5 DEF Reader, Own
<1>12. ASSUME ReadNext PROVE <1>3!1
  <2>1. it.todo # <<>> /\ it.todo # Unknown /\ UNCHANGED <<pickle, values, received>>
    BY <1>12 DEF ReadNext
  <2>2. it # NoIterator
    BY <2>1 DEF NoIterator
  <2>3. it \in Iterator
    BY <1>2, <2>2 DEF Reader
  <2>4. it.todo \in Seq(Items)
    BY <2>1, <2>3 DEF Iterator
  <2>5. PICK item \in Items, rest \in Seq(Items) : item = Head(it.todo) /\ rest = Tail(it.todo)
    BY <2>1, <2>4, HeadTailProperties
  <2>6. it' = [it EXCEPT !.index = Read(it, item.kind, Len(item.bytes)).index, !.todo = rest]
    BY <1>12, <2>5 DEF ReadNext
  <2>7. /\ Len(item.bytes) \in Int
        /\ item.kind \in Fixed \cup {"string", "wstring", "data", "bytes", "length"}
    BY KindFacts
  <2>8. Len(item.bytes) \in Int /\ rest \in Seq(Items) \cup {Unknown}
    BY <2>7
  <2>9. QED BY <1>11, <2>1, <2>2, <2>6, <2>7, <2>8, Zenon
<1>13. ASSUME NEW kind \in Kinds, NEW n \in Skips, ReadAnything(kind, n) PROVE <1>3!1
  <2>1. /\ it # NoIterator /\ UNCHANGED <<pickle, values, received>>
        /\ it' = [it EXCEPT !.index = Read(it, kind, n).index, !.todo = Unknown]
    BY <1>13 DEF ReadAnything
  <2>2. n \in Int /\ kind \in Fixed \cup {"string", "wstring", "data", "bytes", "length"}
    BY KindFacts, SizeAssumption
  <2>3. Unknown \in Seq(Items) \cup {Unknown}
    OBVIOUS
  <2>4. QED BY <1>11, <2>1, <2>2, <2>3, Zenon
<1>14. CASE UNCHANGED vars
    BY <1>2, <1>14 DEF vars, Own
<1>15. QED BY <1>1, <1>5, <1>6, <1>7, <1>8, <1>9, <1>10, <1>12, <1>13, <1>14 DEF Next

---------------------------------------------------------------------------
(* The theorems.                                                           *)

LEMMA InvHolds == Spec => []Inv
BY InitInv, StepInv, PTL DEF Spec

\* No write passes the end of the allocation, for any values, reservations, copies and
\* assignments, although operator= allocates for the payload alone and a copy for the
\* header as well.
THEOREM AllocationIsEnough == Spec => []FitsAllocation
<1>1. Inv => FitsAllocation
    BY DEF Inv, FitsAllocation, Sound, Own
<1>2. QED BY <1>1, InvHolds, PTL

\* Whatever a reader asks for, and whatever lengths it finds in a damaged payload, its
\* index stays in the payload and on the grid of words.
THEOREM ReaderIsContained == Spec => []ReaderStaysInside
<1>1. Inv => ReaderStaysInside
    BY DEF Inv, ReaderStaysInside, Inside
<1>2. QED BY <1>1, InvHolds, PTL

---------------------------------------------------------------------------
(* What was written is read back.  A value lies at a place of the payload: *)
(* its length, where it has one, then its bytes.                           *)

Prefix(item) == IF item.kind \in {"string", "data", "wstring"} THEN WordSize ELSE 0
Count(item) == IF item.kind = "wstring" THEN Len(item.bytes) \div WordSize ELSE Len(item.bytes)
Width(item) == Prefix(item) + AlignInt(Len(item.bytes), WordSize)

Found(body, at, item) ==
    /\ at + Width(item) <= Len(body)
    /\ Prefix(item) # 0 => \A j \in 1 .. WordSize : body[at + j] = IntBytes(Count(item))[j]
    /\ \A j \in 1 .. Len(item.bytes) : body[at + Prefix(item) + j] = item.bytes[j]

\* The values lie one behind the other, from start to the end of the payload.
Chain(body, start, items) ==
    \E e \in [0 .. Len(items) -> Nat] :
        /\ e[0] = start /\ e[Len(items)] = Len(body)
        /\ \A k \in 1 .. Len(items) :
               e[k] = e[k - 1] + Width(items[k]) /\ Found(body, e[k - 1], items[k])

\* The payload holds the values that were written, the iterator stands before those it has
\* still to read, and no read has gone wrong.  No value is wider than widest.
Carried(widest) ==
    /\ values # Unknown => /\ Len(values) <= MaxItems
                           /\ Len(pickle.payload) <= Len(values) * widest
                           /\ Chain(pickle.payload, 0, values)
    /\ it # NoIterator /\ it.todo # Unknown =>
           Len(it.payload) <= MaxInt /\ Chain(it.payload, it.index, it.todo)
    /\ RoundTrip

\* The width of a value.
LEMMA WidthFacts ==
    ASSUME NEW item \in Items
    PROVE  /\ Prefix(item) \in Nat /\ Width(item) \in Nat /\ Count(item) \in Nat
           /\ AlignInt(Len(item.bytes), WordSize) \in Nat
           /\ Len(item.bytes) <= AlignInt(Len(item.bytes), WordSize)
           /\ Prefix(item) + Len(item.bytes) <= Width(item)
<1>1. PICK n \in Nat, a \in Nat : n = Len(item.bytes) /\ a = AlignInt(n, WordSize) /\ n <= a
    BY KindFacts, AlignWord
<1>2. Prefix(item) \in Nat
    BY DEF Prefix, WordSize
<1>3. n \div 4 \in Nat
    OBVIOUS
<1>4. Count(item) \in Nat
    BY <1>1, <1>3 DEF Count, WordSize
<1>5. QED BY <1>1, <1>2, <1>4 DEF Width

\* Bytes written to a pickle of one's own: they follow the payload, which stays.
LEMMA Written ==
    ASSUME NEW p, Sound(p), Own(p), NEW bytes \in Bytes
    PROVE  LET q == WriteBytesCommon(p, bytes)
           IN  /\ Sound(q) /\ Own(q)
               /\ Len(q.payload) = Len(p.payload) + AlignInt(Len(bytes), WordSize)
               /\ \A j \in 1 .. Len(p.payload) : q.payload[j] = p.payload[j]
               /\ \A j \in 1 .. Len(bytes) : q.payload[Len(p.payload) + j] = bytes[j]
<1>1. PICK body \in Bytes, m \in Nat, n \in Nat, a \in Nat :
        /\ body = p.payload /\ m = Len(body) /\ p.offset = m
        /\ n = Len(bytes) /\ a = AlignInt(n, WordSize) /\ n <= a
    BY AlignWord DEF Sound, Own, Bytes
<1>2. PICK kept \in Bytes : /\ kept = SubSeq(body, 1, m) /\ Len(kept) = m
                            /\ \A j \in 1 .. m : kept[j] = body[j]
  <2>1. m \in Int /\ m <= Len(body) /\ 0 <= m
    BY <1>1
  <2>2. QED BY <2>1, Cut
<1>3. PICK pad \in Bytes : pad = Repeat(0, a - n) /\ Len(pad) = a - n
  <2>1. a - n \in Nat /\ 0 \in Byte
    BY <1>1 DEF Byte
  <2>2. QED BY <2>1, RepeatFacts
<1>4. PICK front \in Bytes : /\ front = kept \o bytes /\ Len(front) = m + n
                             /\ \A j \in 1 .. m : front[j] = kept[j]
                             /\ \A j \in 1 .. n : front[m + j] = bytes[j]
  <2>1. /\ kept \o bytes \in Bytes /\ Len(kept \o bytes) = Len(kept) + Len(bytes)
        /\ \A j \in 1 .. Len(kept) : (kept \o bytes)[j] = kept[j]
        /\ \A j \in 1 .. Len(bytes) : (kept \o bytes)[Len(kept) + j] = bytes[j]
    BY Joined
  <2>2. /\ Len(kept \o bytes) = m + n
        /\ \A j \in 1 .. m : (kept \o bytes)[j] = kept[j]
    BY <1>1, <1>2, <2>1, Zenon
  <2>3. \A j \in 1 .. n : (kept \o bytes)[m + j] = bytes[j]
    BY <1>1, <1>2, <2>1, Zenon
  <2>4. QED BY <2>1, <2>2, <2>3, Zenon
<1>5. PICK full \in Bytes : /\ full = front \o pad /\ Len(full) = (m + n) + (a - n)
                            /\ \A j \in 1 .. m + n : full[j] = front[j]
  <2>1. /\ front \o pad \in Bytes /\ Len(front \o pad) = Len(front) + Len(pad)
        /\ \A j \in 1 .. Len(front) : (front \o pad)[j] = front[j]
    BY Joined
  <2>2. QED BY <1>3, <1>4, <2>1, Zenon
<1>6. PICK q : q = WriteBytesCommon(p, bytes)
    OBVIOUS
<1>7. /\ Sound(q) /\ q.cap # ReadOnly /\ q.offset = Len(q.payload)
      /\ q.valid = p.valid /\ q.header = p.header
      /\ q.payload = SubSeq(p.payload, 1, p.offset) \o bytes
                      \o Repeat(0, AlignInt(Len(bytes), WordSize) - Len(bytes))
  <2>1. p.cap # ReadOnly
    BY DEF Own
  <2>2. QED BY <1>6, <2>1, WriteBytesSound
<1>8. q.payload = full
    BY <1>1, <1>2, <1>3, <1>4, <1>5, <1>7, Zenon
<1>9. Len(full) = m + a
    BY <1>1, <1>5
<1>10. \A j \in 1 .. m : j \in 1 .. m + n
    OBVIOUS
<1>11. \A j \in 1 .. n : m + j \in 1 .. m + n
    OBVIOUS
<1>12. \A j \in 1 .. m : full[j] = body[j]
    BY <1>2, <1>4, <1>5, <1>10, Zenon
<1>13. \A j \in 1 .. n : full[m + j] = bytes[j]
    BY <1>4, <1>5, <1>11, Zenon
<1>14. Own(q)
    BY <1>7 DEF Own
<1>15. QED BY <1>1, <1>6, <1>7, <1>8, <1>9, <1>12, <1>13, <1>14, Zenon

\* A value that was written is found at the former end of the payload.
LEMMA WriteFound ==
    ASSUME NEW p, Sound(p), Own(p), NEW item \in Items
    PROVE  LET q == Write(p, item)
           IN  /\ Len(q.payload) = Len(p.payload) + Width(item)
               /\ \A j \in 1 .. Len(p.payload) : q.payload[j] = p.payload[j]
               /\ Found(q.payload, Len(p.payload), item)
<1>1. PICK bytes \in Bytes, n \in Nat, a \in Nat, m \in Nat :
        /\ bytes = item.bytes /\ n = Len(bytes) /\ a = AlignInt(n, WordSize) /\ n <= a
        /\ m = Len(p.payload)
  <2>1. item.bytes \in Bytes /\ Len(item.bytes) \in Nat
    BY KindFacts
  <2>2. Len(p.payload) \in Nat
    BY DEF Sound, Bytes
  <2>3. /\ AlignInt(Len(item.bytes), WordSize) \in Nat
        /\ Len(item.bytes) <= AlignInt(Len(item.bytes), WordSize)
    BY WidthFacts
  <2>4. QED BY <2>1, <2>2, <2>3, Zenon
<1>2. CASE item.kind \in {"string", "data", "wstring"}
  <2>1. PICK c \in Nat : c = Count(item)
    BY WidthFacts
  <2>2. Prefix(item) = WordSize /\ Width(item) = WordSize + a
    BY <1>1, <1>2 DEF Prefix, Width
  <2>3. PICK size \in Bytes : size = IntBytes(c) /\ Len(size) = WordSize
    BY IntBytesType
  <2>4. PICK o : o = WriteBytesCommon(p, size)
    OBVIOUS
  <2>5. PICK q : q = WriteBytesCommon(o, bytes)
    OBVIOUS
  <2>6. Write(p, item) = q
    BY <1>1, <1>2, <2>1, <2>3, <2>4, <2>5 DEF Write, WriteInt, Count
  <2>7. AlignInt(WordSize, WordSize) = WordSize
    BY DEF AlignInt, WordSize
  <2>8. /\ Sound(o) /\ Own(o) /\ Len(o.payload) = m + WordSize
        /\ \A j \in 1 .. m : o.payload[j] = p.payload[j]
        /\ \A j \in 1 .. WordSize : o.payload[m + j] = size[j]
    <3>1. /\ Sound(o) /\ Own(o) /\ Len(o.payload) = Len(p.payload) + AlignInt(Len(size), WordSize)
          /\ \A j \in 1 .. Len(p.payload) : o.payload[j] = p.payload[j]
          /\ \A j \in 1 .. Len(size) : o.payload[Len(p.payload) + j] = size[j]
      BY <2>4, Written
    <3>2. QED BY <1>1, <2>3, <2>7, <3>1, Zenon
  <2>9. /\ Len(q.payload) = (m + WordSize) + a
        /\ \A j \in 1 .. m + WordSize : q.payload[j] = o.payload[j]
        /\ \A j \in 1 .. n : q.payload[(m + WordSize) + j] = bytes[j]
    <3>1. /\ Len(q.payload) = Len(o.payload) + AlignInt(Len(bytes), WordSize)
          /\ \A j \in 1 .. Len(o.payload) : q.payload[j] = o.payload[j]
          /\ \A j \in 1 .. Len(bytes) : q.payload[Len(o.payload) + j] = bytes[j]
      BY <2>5, <2>8, Written
    <3>2. QED BY <1>1, <2>8, <3>1, Zenon
  <2>10. /\ (m + WordSize) + a = m + (WordSize + a) /\ m + (WordSize + a) <= m + (WordSize + a)
         /\ \A j \in 1 .. m : j \in 1 .. m + WordSize
         /\ \A j \in 1 .. WordSize : m + j \in 1 .. m + WordSize
    BY DEF WordSize
  <2>11. /\ \A j \in 1 .. m : q.payload[j] = p.payload[j]
         /\ \A j \in 1 .. WordSize : q.payload[m + j] = IntBytes(c)[j]
    BY <2>3, <2>8, <2>9, <2>10, Zenon
  <2>12. Found(q.payload, m, item)
    BY <1>1, <2>1, <2>2, <2>9, <2>10, <2>11, Zenon DEF Found
  <2>13. QED BY <1>1, <2>2, <2>6, <2>9, <2>10, <2>11, <2>12, Zenon
<1>3. CASE item.kind \notin {"string", "data", "wstring"}
  <2>1. Prefix(item) = 0 /\ Width(item) = 0 + a
    BY <1>1, <1>3 DEF Prefix, Width
  <2>2. PICK out \in Bytes : /\ Write(p, item) = WriteBytesCommon(p, out)
                             /\ AlignInt(Len(out), WordSize) = a
                             /\ \A j \in 1 .. n : j \in 1 .. Len(out) /\ out[j] = bytes[j]
    <3>1. CASE item.kind = "bool"
      <4>1. Len(item.bytes) = 1
        BY <3>1, ItemAssumption DEF Value, SizeOf
      <4>2. n = 1 /\ a = WordSize
        BY <1>1, <4>1 DEF AlignInt, WordSize
      <4>3. 1 \in 1 .. Len(bytes)
        BY <1>1, <4>2
      <4>4. PICK b \in Nat : b = bytes[1] /\ b % 256 = b
        <5>1. bytes[1] \in Byte
          BY <4>3, ElementOfSeq DEF Bytes
        <5>2. \A b \in Byte : b \in Nat /\ b % 256 = b
          BY DEF Byte
        <5>3. QED BY <5>1, <5>2
      <4>5. PICK out \in Bytes : out = IntBytes(b) /\ Len(out) = WordSize
        BY IntBytesType
      <4>6. out[1] = b % 256
        BY <4>5, SMTT(30) DEF IntBytes
      <4>7. Write(p, item) = WriteBytesCommon(p, out)
        BY <1>1, <3>1, <4>4, <4>5 DEF Write, WriteInt
      <4>8. AlignInt(WordSize, WordSize) = WordSize
        BY DEF AlignInt, WordSize
      <4>9. \A j \in 1 .. n : j = 1 /\ j \in 1 .. WordSize
        BY <4>2 DEF WordSize
      <4>10. AlignInt(Len(out), WordSize) = a
        BY <4>2, <4>5, <4>8
      <4>11. ASSUME NEW j \in 1 .. n PROVE j \in 1 .. Len(out) /\ out[j] = bytes[j]
        <5>1. j = 1 /\ j \in 1 .. WordSize
          BY <4>9
        <5>2. out[1] = bytes[1]
          BY <4>4, <4>6
        <5>3. QED BY <4>5, <5>1, <5>2, Zenon
      <4>12. QED BY <4>7, <4>10, <4>11, Zenon
    <3>2. CASE item.kind # "bool"
      <4>1. Write(p, item) = WriteBytesCommon(p, bytes)
        BY <1>1, <1>3, <3>2 DEF Write
      <4>2. QED BY <1>1, <4>1, Zenon
    <3>3. QED BY <3>1, <3>2
  <2>3. PICK q : q = WriteBytesCommon(p, out)
    OBVIOUS
  <2>4. /\ Len(q.payload) = m + a
        /\ \A j \in 1 .. m : q.payload[j] = p.payload[j]
        /\ \A j \in 1 .. Len(out) : q.payload[m + j] = out[j]
    <3>1. /\ Len(q.payload) = Len(p.payload) + AlignInt(Len(out), WordSize)
          /\ \A j \in 1 .. Len(p.payload) : q.payload[j] = p.payload[j]
          /\ \A j \in 1 .. Len(out) : q.payload[Len(p.payload) + j] = out[j]
      BY <2>3, Written
    <3>2. QED BY <1>1, <2>2, <3>1, Zenon
  <2>5. m + 0 = m /\ 0 + a = a /\ m + a <= m + a
    OBVIOUS
  <2>6. \A j \in 1 .. n : q.payload[m + j] = bytes[j]
    BY <2>2, <2>4, Zenon
  <2>7. Found(q.payload, m, item)
    BY <1>1, <2>1, <2>4, <2>5, <2>6, Zenon DEF Found
  <2>8. QED BY <1>1, <2>1, <2>2, <2>3, <2>4, <2>5, <2>7, Zenon
<1>4. QED BY <1>2, <1>3

\* A value is still found in a payload that begins as the old one.
LEMMA FoundKept ==
    ASSUME NEW a \in Bytes, NEW b \in Bytes, Len(a) <= Len(b),
           \A j \in 1 .. Len(a) : b[j] = a[j],
           NEW at \in Nat, NEW item \in Items, Found(a, at, item)
    PROVE  Found(b, at, item)
<1>1. PICK m \in Nat, k \in Nat, w \in Nat, f \in Nat, n \in Nat :
        /\ m = Len(a) /\ k = Len(b) /\ w = Width(item) /\ f = Prefix(item) /\ n = Len(item.bytes)
        /\ f + n <= w /\ m <= k /\ at + w <= m
  <2>1. Len(a) \in Nat /\ Len(b) \in Nat
    BY DEF Bytes
  <2>2. at + Width(item) <= Len(a)
    BY DEF Found
  <2>3. QED BY <2>1, <2>2, WidthFacts, KindFacts
<1>2. at + w <= k
    BY <1>1
<1>3. ASSUME f # 0
      PROVE  \A j \in 1 .. WordSize : b[at + j] = IntBytes(Count(item))[j]
  <2>1. f = WordSize
    BY <1>1, <1>3 DEF Prefix
  <2>2. \A j \in 1 .. WordSize : at + j \in 1 .. m
    BY <1>1, <2>1 DEF WordSize
  <2>3. \A j \in 1 .. WordSize : a[at + j] = IntBytes(Count(item))[j]
    BY <1>1, <1>3 DEF Found
  <2>4. QED BY <1>1, <2>2, <2>3
<1>4. \A j \in 1 .. n : b[at + f + j] = item.bytes[j]
  <2>1. \A j \in 1 .. n : at + f + j \in 1 .. m
    <3>1. f + n <= w /\ at + w <= m
      BY <1>1
    <3>2. QED BY <3>1
  <2>2. \A j \in 1 .. n : a[at + f + j] = item.bytes[j]
    BY <1>1 DEF Found
  <2>3. QED BY <1>1, <2>1, <2>2
<1>5. QED BY <1>1, <1>2, <1>3, <1>4, Zenon DEF Found

\* No values in no payload.
LEMMA ChainEmpty == Chain(<<>>, 0, <<>>)
<1> DEFINE e == [k \in 0 .. 0 |-> 0]
<1>1. e \in [0 .. 0 -> Nat] /\ e[0] = 0
    OBVIOUS
<1>2. Len(<<>>) = 0 /\ \A k \in 1 .. 0 : FALSE
    OBVIOUS
<1> HIDE DEF e
<1>3. QED BY <1>1, <1>2, Zenon DEF Chain

\* One more value behind a chain.
LEMMA ChainGrows ==
    ASSUME NEW a \in Bytes, NEW b \in Bytes, NEW items \in Seq(Items), NEW item \in Items,
           Chain(a, 0, items), \A j \in 1 .. Len(a) : b[j] = a[j],
           Len(b) = Len(a) + Width(item), Found(b, Len(a), item)
    PROVE  Chain(b, 0, Append(items, item))
<1>1. PICK n \in Nat, m \in Nat, w \in Nat, more \in Seq(Items) :
        /\ n = Len(items) /\ m = Len(a) /\ w = Width(item) /\ more = Append(items, item)
        /\ Len(more) = n + 1 /\ more[n + 1] = item /\ \A k \in 1 .. n : more[k] = items[k]
  <2>1. Len(items) \in Nat /\ Len(a) \in Nat /\ Width(item) \in Nat
    BY WidthFacts DEF Bytes
  <2>2. /\ Append(items, item) \in Seq(Items) /\ Len(Append(items, item)) = Len(items) + 1
        /\ \A k \in 1 .. Len(items) : Append(items, item)[k] = items[k]
        /\ Append(items, item)[Len(items) + 1] = item
    BY AppendProperties
  <2>3. QED BY <2>1, <2>2, Zenon
<1>2. PICK e \in [0 .. n -> Nat] :
        /\ e[0] = 0 /\ e[n] = m
        /\ \A k \in 1 .. n : e[k] = e[k - 1] + Width(items[k]) /\ Found(a, e[k - 1], items[k])
    BY <1>1, Zenon DEF Chain
<1>3. PICK f : f = [k \in 0 .. n + 1 |-> IF k <= n THEN e[k] ELSE m + w]
    OBVIOUS
<1>4. /\ f \in [0 .. n + 1 -> Nat] /\ f[n + 1] = m + w
      /\ \A k \in 0 .. n : f[k] = e[k] /\ f[k] \in Nat
    BY <1>3
<1>5. f[0] = 0 /\ f[n] = m
    BY <1>2, <1>4
<1>6. Len(a) <= Len(b)
    BY <1>1
<1>7. ASSUME NEW k \in 1 .. n + 1
      PROVE  f[k] = f[k - 1] + Width(more[k]) /\ Found(b, f[k - 1], more[k])
  <2>1. CASE k \in 1 .. n
    <3>1. k - 1 \in 0 .. n /\ k \in 0 .. n /\ items[k] \in Items
      BY <1>1, <2>1, ElementOfSeq
    <3>2. /\ f[k] = e[k] /\ f[k - 1] = e[k - 1] /\ e[k - 1] \in Nat /\ more[k] = items[k]
      BY <1>1, <1>4, <2>1, <3>1
    <3>3. e[k] = e[k - 1] + Width(items[k]) /\ Found(a, e[k - 1], items[k])
      BY <1>2, <2>1
    <3>4. Found(b, e[k - 1], items[k])
      BY <1>6, <3>1, <3>2, <3>3, FoundKept
    <3>5. QED BY <3>2, <3>3, <3>4
  <2>2. CASE k = n + 1
    <3>1. k - 1 = n
      BY <2>2
    <3>2. QED BY <1>1, <1>4, <1>5, <2>2, <3>1
  <2>3. QED BY <2>1, <2>2
<1>8. Len(b) = m + w
    BY <1>1
<1>9. /\ f[0] = 0 /\ f[Len(more)] = Len(b) /\ f \in [0 .. Len(more) -> Nat]
      /\ \A k \in 1 .. Len(more) : f[k] = f[k - 1] + Width(more[k]) /\ Found(b, f[k - 1], more[k])
    BY <1>1, <1>4, <1>5, <1>7, <1>8, Zenon
<1>10. QED BY <1>1, <1>9, Zenon DEF Chain

\* The first value of a chain, and the chain behind it.
LEMMA ChainPops ==
    ASSUME NEW body \in Bytes, NEW at \in Nat, NEW items \in Seq(Items), items # <<>>,
           Chain(body, at, items)
    PROVE  /\ Found(body, at, Head(items))
           /\ Chain(body, at + Width(Head(items)), Tail(items))
<1>1. PICK n \in Nat, item \in Items, rest \in Seq(Items) :
        /\ n = Len(rest) /\ Len(items) = n + 1 /\ item = Head(items) /\ rest = Tail(items)
        /\ item = items[1] /\ \A k \in 1 .. n : rest[k] = items[k + 1]
  <2>1. /\ Head(items) \in Items /\ Tail(items) \in Seq(Items) /\ Len(Tail(items)) = Len(items) - 1
        /\ \A k \in 1 .. Len(Tail(items)) : Tail(items)[k] = items[k + 1]
    BY HeadTailProperties
  <2>2. Head(items) = items[1] /\ Len(items) \in Nat /\ Len(Tail(items)) \in Nat
    BY <2>1
  <2>3. Len(items) = Len(Tail(items)) + 1
    BY <2>1, <2>2
  <2>4. QED BY <2>1, <2>2, <2>3, Zenon
<1>2. PICK e \in [0 .. n + 1 -> Nat] :
        /\ e[0] = at /\ e[n + 1] = Len(body)
        /\ \A k \in 1 .. n + 1 : e[k] = e[k - 1] + Width(items[k]) /\ Found(body, e[k - 1], items[k])
    BY <1>1, Zenon DEF Chain
<1>3. 1 \in 1 .. n + 1 /\ 1 - 1 = 0
    OBVIOUS
<1>4. e[1] = at + Width(item) /\ Found(body, at, item)
    BY <1>1, <1>2, <1>3
<1>5. PICK f : f = [k \in 0 .. n |-> e[k + 1]]
    OBVIOUS
<1>6. f \in [0 .. n -> Nat] /\ \A k \in 0 .. n : f[k] = e[k + 1]
    BY <1>5
<1>7. 0 \in 0 .. n /\ n \in 0 .. n /\ 0 + 1 = 1
    OBVIOUS
<1>8. f[0] = at + Width(item) /\ f[n] = Len(body)
    BY <1>2, <1>4, <1>6, <1>7
<1>9. ASSUME NEW k \in 1 .. n
      PROVE  f[k] = f[k - 1] + Width(rest[k]) /\ Found(body, f[k - 1], rest[k])
  <2>1. /\ k \in 0 .. n /\ k - 1 \in 0 .. n /\ (k - 1) + 1 = k
        /\ k + 1 \in 1 .. n + 1 /\ (k + 1) - 1 = k
    OBVIOUS
  <2>2. f[k] = e[k + 1] /\ f[k - 1] = e[k] /\ rest[k] = items[k + 1]
    BY <1>1, <1>6, <2>1
  <2>3. e[k + 1] = e[k] + Width(items[k + 1]) /\ Found(body, e[k], items[k + 1])
    BY <1>2, <2>1
  <2>4. QED BY <2>2, <2>3
<1>10. Chain(body, at + Width(item), rest)
    BY <1>1, <1>6, <1>8, <1>9, Zenon DEF Chain
<1>11. QED BY <1>1, <1>4, <1>10

\* A read of bytes that lie behind the index.
LEMMA Taken ==
    ASSUME NEW i \in Iterator, Inside(i), NEW bytes \in Bytes,
           i.index + AlignInt(Len(bytes), WordSize) <= Len(i.payload),
           \A j \in 1 .. Len(bytes) : i.payload[i.index + j] = bytes[j]
    PROVE  LET r == GetReadPointerAndAdvance(i, Len(bytes))
           IN  r.ok /\ r.index = i.index + AlignInt(Len(bytes), WordSize) /\ r.out = bytes
<1>1. PICK n \in Nat : n = Len(bytes)
    BY DEF Bytes
<1>2. PICK r : r = GetReadPointerAndAdvance(i, n)
    OBVIOUS
<1>3. n \in Int /\ 0 <= n
    OBVIOUS
<1>4. /\ r.ok => r.out \in Bytes /\ Len(r.out) = n
      /\ 0 <= n /\ i.index + AlignInt(n, WordSize) <= Len(i.payload) =>
           /\ r.ok /\ r.index = i.index + AlignInt(n, WordSize)
           /\ \A j \in 1 .. n : r.out[j] = i.payload[i.index + j]
    BY <1>2, <1>3, GetInside
<1>5. /\ r.ok /\ r.index = i.index + AlignInt(n, WordSize)
      /\ \A j \in 1 .. n : r.out[j] = i.payload[i.index + j]
    BY <1>1, <1>3, <1>4, Zenon
<1>6. PICK out \in Bytes : out = r.out /\ Len(out) = n
    BY <1>4, <1>5, Zenon
<1>7. \A j \in 1 .. Len(out) : out[j] = bytes[j]
    BY <1>1, <1>5, <1>6, Zenon
<1>8. out = bytes
  <2>1. Len(out) = Len(bytes)
    BY <1>1, <1>6
  <2>2. QED BY <1>7, <2>1, SeqEqual DEF Bytes
<1>9. QED BY <1>1, <1>2, <1>5, <1>6, <1>8, Zenon

\* A value that is found is read, and the reader stands behind it.
LEMMA ReadFound ==
    ASSUME NEW i \in Iterator, Inside(i), Len(i.payload) <= MaxInt,
           NEW item \in Items, Found(i.payload, i.index, item)
    PROVE  LET r == Read(i, item.kind, Len(item.bytes))
           IN  r.ok /\ r.index = i.index + Width(item) /\ r.out = item.bytes
<1>1. PICK body \in Bytes, m \in Nat, at \in Nat, bytes \in Bytes, n \in Nat, a \in Nat :
        /\ body = i.payload /\ m = Len(body) /\ at = i.index /\ m <= MaxInt
        /\ bytes = item.bytes /\ n = Len(bytes) /\ a = AlignInt(n, WordSize) /\ n <= a
  <2>1. i.payload \in Bytes /\ i.index \in Nat
    BY DEF Iterator
  <2>2. Len(i.payload) \in Nat
    BY <2>1 DEF Bytes
  <2>3. item.bytes \in Bytes /\ Len(item.bytes) \in Nat
    BY KindFacts
  <2>4. AlignInt(Len(item.bytes), WordSize) \in Nat /\ Len(item.bytes) <= AlignInt(Len(item.bytes), WordSize)
    BY WidthFacts
  <2>5. QED BY <2>1, <2>2, <2>3, <2>4, Zenon
<1>2. CASE item.kind \in {"string", "data", "wstring"}
  <2>1. PICK c \in Nat : c = Count(item)
    BY WidthFacts
  <2>2. Prefix(item) = WordSize /\ Prefix(item) # 0 /\ Width(item) = WordSize + a
    BY <1>1, <1>2 DEF Prefix, Width, WordSize
  <2>3. /\ at + (WordSize + a) <= m
        /\ \A j \in 1 .. WordSize : body[at + j] = IntBytes(c)[j]
        /\ \A j \in 1 .. n : body[at + WordSize + j] = bytes[j]
    BY <1>1, <2>1, <2>2, Zenon DEF Found
  <2>4. PICK size \in Bytes : /\ size = IntBytes(c) /\ Len(size) = WordSize
                              /\ (c <= MaxInt => IntOf(size) = c)
    BY IntBytesType
  <2>5. c <= n /\ (item.kind = "wstring" => c * WordSize = n)
    <3>1. CASE item.kind = "wstring"
      <4>1. n % 4 = 0 /\ c = n \div 4
        BY <1>1, <2>1, <3>1, ItemAssumption DEF Value, Count, WordSize, Fixed
      <4>2. c * 4 = n
        BY <4>1
      <4>3. c <= n
        BY <4>2
      <4>4. QED BY <4>2, <4>3 DEF WordSize
    <3>2. CASE item.kind # "wstring"
      BY <1>1, <2>1, <3>2 DEF Count
    <3>3. QED BY <3>1, <3>2
  <2>6. MaxInt \in Nat
    BY SMTT(30) DEF MaxInt
  <2>7. c <= MaxInt /\ n <= MaxInt
    <3>1. n <= m
      <4>1. at + (4 + a) <= m /\ n <= a
        BY <1>1, <2>3 DEF WordSize
      <4>2. QED BY <4>1
    <3>2. QED BY <1>1, <2>5, <2>6, <3>1
  <2>8. AlignInt(WordSize, WordSize) = WordSize /\ at + WordSize <= m
    BY <2>3 DEF AlignInt, WordSize
  <2>9. PICK r : r = ReadInt(i)
    OBVIOUS
  <2>10. r.ok /\ r.index = at + WordSize /\ r.out = size
    <3>1. /\ i.index + AlignInt(Len(size), WordSize) <= Len(i.payload)
          /\ \A j \in 1 .. Len(size) : i.payload[i.index + j] = size[j]
      BY <1>1, <2>3, <2>4, <2>8, Zenon
    <3>2. r = GetReadPointerAndAdvance(i, Len(size))
      BY <2>4, <2>9 DEF ReadInt, ReadBuiltinType
    <3>3. r.ok /\ r.index = i.index + AlignInt(Len(size), WordSize) /\ r.out = size
      BY <3>1, <3>2, Taken
    <3>4. QED BY <1>1, <2>4, <2>8, <3>3, Zenon
  <2>11. PICK k : k = [i EXCEPT !.index = r.index]
    OBVIOUS
  <2>12. k \in Iterator /\ k.payload = body /\ k.index = at + WordSize
    <3>1. at + WordSize \in Nat
      BY DEF WordSize
    <3>2. QED BY <1>1, <2>10, <2>11, <3>1 DEF Iterator
  <2>13. Inside(k)
    <3>1. /\ r.index \in 0 .. Len(i.payload) /\ r.index % WordSize = 0
      <4>1. WordSize \in Int
        BY DEF WordSize
      <4>2. QED BY <2>9, <4>1, GetInside DEF ReadInt, ReadBuiltinType
    <3>2. QED BY <1>1, <2>10, <2>12, <3>1 DEF Inside
  <2>14. PICK q : q = GetReadPointerAndAdvance(k, n)
    OBVIOUS
  <2>15. q.ok /\ q.index = at + (WordSize + a) /\ q.out = bytes
    <3>1. (at + WordSize) + a = at + (WordSize + a)
      BY DEF WordSize
    <3>2. /\ k.index + AlignInt(Len(bytes), WordSize) <= Len(k.payload)
          /\ \A j \in 1 .. Len(bytes) : k.payload[k.index + j] = bytes[j]
      BY <1>1, <2>3, <2>12, <3>1, Zenon
    <3>3. q.ok /\ q.index = k.index + AlignInt(Len(bytes), WordSize) /\ q.out = bytes
      BY <1>1, <2>12, <2>13, <2>14, <3>2, Taken
    <3>4. QED BY <1>1, <2>12, <3>1, <3>3, Zenon
  <2>16. IntOf(r.out) = c
    BY <2>4, <2>7, <2>10
  <2>17. Read(i, item.kind, Len(item.bytes)) = q
    <3>1. CASE item.kind \in {"string", "data"}
      <4>1. c = n
        BY <1>1, <2>1, <3>1 DEF Count
      <4>2. Read(i, item.kind, Len(item.bytes)) = GetReadPointerAndAdvance(k, IntOf(r.out))
        BY <2>9, <2>10, <2>11, <3>1 DEF Read, ReadString, ReadData, Then
      <4>3. QED BY <2>14, <2>16, <4>1, <4>2
    <3>2. CASE item.kind = "wstring"
      <4>1. Read(i, item.kind, Len(item.bytes)) = GetElements(k, IntOf(r.out), WordSize)
        BY <2>9, <2>10, <2>11, <3>2 DEF Read, ReadWString, Then
      <4>2. c \in Int /\ 0 <= c /\ c * WordSize <= MaxInt /\ c * WordSize = n
        BY <2>5, <2>7, <3>2
      <4>3. GetElements(k, c, WordSize) = GetReadPointerAndAdvance(k, c * WordSize)
        BY <2>12, <2>13, <4>2, ElementsInside
      <4>4. QED BY <2>14, <2>16, <4>1, <4>2, <4>3
    <3>3. QED BY <1>2, <3>1, <3>2
  <2>18. QED BY <1>1, <2>2, <2>15, <2>17, Zenon
<1>3. CASE item.kind \notin {"string", "data", "wstring"}
  <2>1. Prefix(item) = 0 /\ Width(item) = a
    BY <1>1, <1>3 DEF Prefix, Width
  <2>2. /\ at + a <= m /\ \A j \in 1 .. n : body[at + j] = bytes[j]
    <3>1. at + 0 = at
      OBVIOUS
    <3>2. QED BY <1>1, <2>1, <3>1, Zenon DEF Found
  <2>3. Read(i, item.kind, Len(item.bytes)) = GetReadPointerAndAdvance(i, Len(bytes))
    <3>1. CASE item.kind = "bytes"
      BY <1>1, <3>1 DEF Read, ReadBytes
    <3>2. CASE item.kind # "bytes"
      <4>1. item.kind \in Fixed /\ Len(item.bytes) = SizeOf(item.kind)
        BY <1>3, <3>2, ItemAssumption DEF Value
      <4>2. QED BY <1>1, <1>3, <3>2, <4>1 DEF Read, ReadBuiltinType, Fixed
    <3>3. QED BY <3>1, <3>2
  <2>4. PICK q : q = GetReadPointerAndAdvance(i, Len(bytes))
    OBVIOUS
  <2>5. q.ok /\ q.index = i.index + AlignInt(Len(bytes), WordSize) /\ q.out = bytes
    <3>1. /\ i.index + AlignInt(Len(bytes), WordSize) <= Len(i.payload)
          /\ \A j \in 1 .. Len(bytes) : i.payload[i.index + j] = bytes[j]
      BY <1>1, <2>2, Zenon
    <3>2. QED BY <2>4, <3>1, Taken
  <2>6. QED BY <1>1, <2>1, <2>3, <2>4, <2>5, Zenon
<1>4. QED BY <1>2, <1>3

\* A pickle is small: no value is wider than widest, and MaxItems of them are an int.
Small(widest) ==
    /\ widest \in Nat /\ MaxItems \in Nat /\ MaxItems * widest <= MaxInt
    /\ \A item \in Items : Width(item) <= widest

LEMMA SmallPayload ==
    ASSUME NEW widest, Small(widest), NEW n \in Nat, n <= MaxItems, NEW m \in Nat, m <= n * widest
    PROVE  m <= MaxInt
<1>1. widest \in Nat /\ MaxItems \in Nat /\ MaxItems * widest <= MaxInt
    BY Zenon DEF Small
<1>2. MaxInt \in Nat
    BY SMTT(30) DEF MaxInt
<1>3. n * widest <= MaxItems * widest
    BY <1>1, SMT
<1>4. n * widest \in Nat /\ MaxItems * widest \in Nat
    BY <1>1, SMT
<1>5. QED BY <1>1, <1>2, <1>3, <1>4, SMT

LEMMA InitCarried ==
    ASSUME NEW widest, Small(widest), Init
    PROVE  Carried(widest)
<1>1. PICK h \in HeaderSizes : pickle = NewPickle(h)
    BY DEF Init
<1>2. pickle.payload = <<>>
    BY <1>1, SizeAssumption, NewPickleSound
<1>3. values = <<>> /\ it = NoIterator /\ last = NoRead
    BY DEF Init
<1>4. Len(values) <= MaxItems /\ Len(pickle.payload) <= Len(values) * widest
  <2>1. Len(values) = 0 /\ Len(pickle.payload) = 0
    BY <1>2, <1>3
  <2>2. widest \in Nat /\ MaxItems \in Nat
    BY Zenon DEF Small
  <2>3. 0 <= MaxItems /\ 0 <= 0 * widest
    BY <2>2
  <2>4. QED BY <2>1, <2>3, Zenon
<1>5. Chain(pickle.payload, 0, values)
    BY <1>2, <1>3, ChainEmpty
<1>6. RoundTrip
    BY <1>3 DEF RoundTrip, NoRead
<1>7. QED BY <1>3, <1>4, <1>5, <1>6, Zenon DEF Carried

LEMMA StepCarried ==
    ASSUME NEW widest, Small(widest), ~WritesCopies, Inv, Carried(widest), [Next]_vars
    PROVE  Carried(widest)'
<1> DEFINE Packed(p, v) == v # Unknown => /\ Len(v) <= MaxItems
                                         /\ Len(p.payload) <= Len(v) * widest
                                         /\ Chain(p.payload, 0, v)
           Ready(i) == i # NoIterator /\ i.todo # Unknown =>
                           Len(i.payload) <= MaxInt /\ Chain(i.payload, i.index, i.todo)
           Right(l) == l.ok /\ l.want = l.got
<1>1. /\ Sound(pickle) /\ (~received => Own(pickle))
      /\ values = Unknown \/ values \in Seq(Items)
      /\ it = NoIterator \/ (it \in Iterator /\ Inside(it))
    BY Zenon DEF Inv
<1>2. Packed(pickle, values) /\ Ready(it) /\ Right(last)
    BY Zenon DEF Carried, RoundTrip
<1>3. SUFFICES Packed(pickle', values') /\ Ready(it') /\ Right(last')
  <2>1. Carried(widest)' <=> Packed(pickle', values') /\ Ready(it') /\ Right(last')
    BY Zenon DEF Carried, RoundTrip
  <2>2. QED BY <2>1
<1>4. widest \in Nat /\ MaxItems \in Nat /\ \A item \in Items : Width(item) <= widest
    BY Zenon DEF Small
<1> HIDE DEF Packed, Ready, Right
<1>5. ASSUME NEW item \in Items, WriteItem(item) PROVE <1>3!1
  <2>1. /\ pickle' = Write(pickle, item) /\ values' = Append(values, item)
        /\ values # Unknown /\ Len(values) < MaxItems /\ ~received /\ it' = it /\ last' = last
    BY <1>5 DEF WriteItem, MayWrite, Becomes
  <2>2. Own(pickle) /\ values \in Seq(Items)
    BY <1>1, <2>1
  <2>3. pickle.cap # ReadOnly
    BY <2>2 DEF Own
  <2>4. PICK a \in Bytes, b \in Bytes : a = pickle.payload /\ b = pickle'.payload
    <3>1. Sound(pickle')
      BY <1>1, <2>1, <2>3, WriteSound
    <3>2. QED BY <1>1, <3>1 DEF Sound
  <2>5. /\ Len(b) = Len(a) + Width(item) /\ \A j \in 1 .. Len(a) : b[j] = a[j]
        /\ Found(b, Len(a), item)
    BY <1>1, <2>1, <2>2, <2>4, WriteFound
  <2>6. /\ Len(values) <= MaxItems /\ Len(a) <= Len(values) * widest /\ Chain(a, 0, values)
    BY <1>2, <2>1, <2>4, Zenon DEF Packed
  <2>7. Chain(b, 0, values')
    BY <2>1, <2>2, <2>5, <2>6, ChainGrows
  <2>8. PICK n \in Nat, m \in Nat, w \in Nat :
          /\ n = Len(values) /\ m = Len(a) /\ w = Width(item) /\ w <= widest
          /\ n < MaxItems /\ m <= n * widest
    <3>1. Len(values) \in Nat /\ Len(a) \in Nat /\ Width(item) \in Nat
      BY <2>2, WidthFacts DEF Bytes
    <3>2. QED BY <1>4, <2>1, <2>6, <3>1, Zenon
  <2>9. Len(values') = n + 1
    BY <2>1, <2>2, <2>8, AppendProperties
  <2>10. n + 1 <= MaxItems /\ m + w <= (n + 1) * widest
    <3>1. (n + 1) * widest = n * widest + widest /\ n * widest \in Nat
      BY <1>4, SMT
    <3>2. QED BY <1>4, <2>8, <3>1
  <2>11. Packed(pickle', values')
    BY <2>4, <2>5, <2>7, <2>8, <2>9, <2>10, Zenon DEF Packed
  <2>12. QED BY <1>2, <2>1, <2>11
<1>6. ASSUME pickle'.payload = pickle.payload, UNCHANGED <<values, it, last>> PROVE <1>3!1
    BY <1>2, <1>6 DEF Packed
<1>7. ASSUME NEW item \in Items, ReserveFor(item) PROVE <1>3!1
  <2>1. /\ pickle' = Reserve(pickle, Len(item.bytes)) /\ pickle.cap # ReadOnly
        /\ UNCHANGED <<values, it, last>>
    BY <1>7 DEF ReserveFor, MayWrite, Becomes
  <2>2. pickle'.payload = pickle.payload
    BY <1>1, <2>1, KindFacts, ReserveSound
  <2>3. QED BY <1>6, <2>1, <2>2
<1>8. ASSUME values # Unknown PROVE Len(pickle.payload) <= MaxInt
  <2>1. Len(values) \in Nat /\ Len(pickle.payload) \in Nat
    BY <1>1, <1>8 DEF Sound, Bytes
  <2>2. Len(values) <= MaxItems /\ Len(pickle.payload) <= Len(values) * widest
    BY <1>2, <1>8, Zenon DEF Packed
  <2>3. QED BY <2>1, <2>2, SmallPayload
<1>9. ASSUME NEW n \in Noise, Receive(n) PROVE <1>3!1
  <2>1. n \in Int
    BY SizeAssumption
  <2>2. PICK stream : stream = Arrived(Data(pickle), n)
    OBVIOUS
  <2>3. PICK next : next = FindNext(pickle.header, stream)
    OBVIOUS
  <2>4. /\ ~received /\ next # Null /\ pickle' = FromData(SubSeq(stream, 1, next))
        /\ UNCHANGED <<values, it, last>>
    BY <1>9, <2>2, <2>3 DEF Receive, Becomes
  <2>5. CASE values = Unknown
    BY <1>2, <2>4, <2>5 DEF Packed
  <2>6. CASE values # Unknown
    <3>1. pickle'.payload = pickle.payload
      BY <1>1, <1>8, <2>1, <2>2, <2>3, <2>4, <2>6, ReceiveSound
    <3>2. QED BY <1>6, <2>4, <3>1
  <2>7. QED BY <2>5, <2>6
<1>10. ASSUME NEW n \in Noise, ReceiveAll(n) PROVE <1>3!1
  <2>1. values' = Unknown /\ it' = it /\ last' = last
    BY <1>10 DEF ReceiveAll, Becomes
  <2>2. QED BY <1>2, <2>1 DEF Packed
<1>11. ASSUME CopyPickle PROVE <1>3!1
  <2>1. UNCHANGED <<values, it, last>>
    BY <1>11 DEF CopyPickle, Becomes
  <2>2. pickle' \in {pickle, Copy(pickle), Assign(NewPickle(WordSize), pickle)}
    BY <1>11 DEF CopyPickle, Becomes
  <2>3. pickle'.payload = pickle.payload
    BY <1>1, <2>2, CopySound
  <2>4. QED BY <1>6, <2>1, <2>3
<1>12. ASSUME NewIterator PROVE <1>3!1
  <2>1. /\ it' = [payload |-> pickle.payload, index |-> 0, todo |-> values]
        /\ UNCHANGED <<pickle, values, last>>
    BY <1>12 DEF NewIterator
  <2>2. it'.payload = pickle.payload /\ it'.index = 0 /\ it'.todo = values
    BY <2>1
  <2>3. values # Unknown => Len(pickle.payload) <= MaxInt /\ Chain(pickle.payload, 0, values)
    BY <1>2, <1>8, Zenon DEF Packed
  <2>4. Ready(it')
    BY <2>2, <2>3, Zenon DEF Ready
  <2>5. QED BY <1>2, <2>1, <2>4
<1>13. ASSUME ReadNext PROVE <1>3!1
  <2>1. it.todo # <<>> /\ it.todo # Unknown /\ UNCHANGED <<pickle, values>>
    BY <1>13 DEF ReadNext
  <2>2. it # NoIterator
    BY <2>1 DEF NoIterator
  <2>3. it \in Iterator /\ Inside(it)
    BY <1>1, <2>2
  <2>4. PICK body \in Bytes, at \in Nat, todo \in Seq(Items) :
          body = it.payload /\ at = it.index /\ todo = it.todo
    BY <2>1, <2>3 DEF Iterator
  <2>5. Len(body) <= MaxInt /\ Chain(body, at, todo)
    BY <1>2, <2>1, <2>2, <2>4, Zenon DEF Ready
  <2>6. PICK item \in Items, rest \in Seq(Items) : item = Head(todo) /\ rest = Tail(todo)
    BY <2>1, <2>4, HeadTailProperties
  <2>7. Found(body, at, item) /\ Chain(body, at + Width(item), rest)
    BY <2>1, <2>4, <2>5, <2>6, ChainPops
  <2>8. PICK r : r = Read(it, item.kind, Len(item.bytes))
    OBVIOUS
  <2>9. r.ok /\ r.index = at + Width(item) /\ r.out = item.bytes
    BY <2>3, <2>4, <2>5, <2>7, <2>8, ReadFound
  <2>10. /\ it' = [it EXCEPT !.index = r.index, !.todo = rest]
         /\ last' = [ok |-> r.ok, want |-> item.bytes, got |-> r.out]
    BY <1>13, <2>4, <2>6, <2>8 DEF ReadNext
  <2>11. it'.payload = body /\ it'.index = at + Width(item) /\ it'.todo = rest
    BY <2>3, <2>4, <2>9, <2>10 DEF Iterator
  <2>12. Ready(it')
    BY <2>5, <2>7, <2>11, Zenon DEF Ready
  <2>13. Right(last')
    BY <2>9, <2>10 DEF Right
  <2>14. QED BY <1>2, <2>1, <2>12, <2>13
<1>14. ASSUME NEW kind \in Kinds, NEW n \in Skips, ReadAnything(kind, n) PROVE <1>3!1
  <2>1. /\ it # NoIterator /\ UNCHANGED <<pickle, values>> /\ last' = NoRead
        /\ it' = [it EXCEPT !.index = Read(it, kind, n).index, !.todo = Unknown]
    BY <1>14 DEF ReadAnything
  <2>2. it'.todo = Unknown
    BY <1>1, <2>1 DEF Iterator
  <2>3. QED BY <1>2, <2>1, <2>2 DEF Ready, Right, NoRead
<1>15. CASE UNCHANGED vars
    BY <1>6, <1>15 DEF vars
<1>16. QED BY <1>5, <1>7, <1>9, <1>10, <1>11, <1>12, <1>13, <1>14, <1>15 DEF Next

\* What is written is read back, value for value, from the pickle, from a copy made either
\* way and from what FindNext cuts out of a stream: for any values and header sizes, as
\* long as no copy of a received pickle is written to and the payload is small enough that
\* its size is an int.
THEOREM ValuesSurvive ==
    ASSUME ~WritesCopies, NEW widest, Small(widest)
    PROVE  Spec => []RoundTrip
<1>1. Init => Carried(widest)
    BY InitCarried
<1>2. Inv /\ Carried(widest) /\ [Next]_vars => Carried(widest)'
    BY StepCarried
<1>3. Carried(widest) => RoundTrip
    BY DEF Carried
<1>4. QED BY <1>1, <1>2, <1>3, InvHolds, PTL DEF Spec
=============================================================================
