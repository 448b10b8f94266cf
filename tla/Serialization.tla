--------------------------- MODULE Serialization ----------------------------
(***************************************************************************)
(* The byte encoding of messages: include/rix/msg/serialization.hpp and    *)
(* its counterpart for the Python programs, gui/rixmsg/message.py. A       *)
(* message class lists its fields; here the list is a layout and one       *)
(* operator walks it, where each class has a size(), a serialize() and a   *)
(* deserialize() that name the fields one after the other.                 *)
(*                                                                         *)
(* A number is its memory image, a sequence of bytes: both languages copy  *)
(* it as it lies in memory and nothing below computes with it. A Python    *)
(* program's number is one its field can hold: struct.pack raises on an    *)
(* integer out of range and rounds to a float, before any byte is written. *)
(* Only the length written before a string or a vector is interpreted.     *)
(* Sizes stay below the 2^32 at which the code's uint32_t would wrap.      *)
(*                                                                         *)
(* A string is the sequence of its bytes, those of a Python program's in   *)
(* UTF-8: str.encode() and bytes.decode() are where they are counted, cut  *)
(* and refused.                                                            *)
(***************************************************************************)
EXTENDS Naturals, SequencesExt

CONSTANTS
    Beyond,     \* what a read past the end of the buffer returns
    Depth       \* how deep layouts nest: a class is a finite text

ASSUME DepthIsNatural == Depth \in Nat

Languages == {"cpp", "python"}

Byte == 0 .. 255

-----------------------------------------------------------------------------
(* Texts *)

Ascii == 0 .. 127

(* A byte that goes on with a character another one began. *)
Continuation == 128 .. 191

(* The bytes of a character, one set for each: those of UTF-8, which has no
   longer form of a character than is needed and no half of a surrogate pair. *)
Characters ==
  { <<Ascii>>,
    <<194 .. 223, Continuation>>,
    <<{224}, 160 .. 191, Continuation>>,
    <<225 .. 236, Continuation, Continuation>>,
    <<{237}, 128 .. 159, Continuation>>,
    <<238 .. 239, Continuation, Continuation>>,
    <<{240}, 144 .. 191, Continuation, Continuation>>,
    <<241 .. 243, Continuation, Continuation, Continuation>>,
    <<{244}, 128 .. 143, Continuation, Continuation>> }

CharacterStarts(v) == {i \in DOMAIN v : v[i] \notin Continuation}

(* Each character is whole and the next one begins where it ends. *)
IsUtf8(v) ==
  /\ v # <<>> => 1 \in CharacterStarts(v)
  /\ \A i \in CharacterStarts(v) : \E c \in Characters :
        /\ i + Len(c) \in CharacterStarts(v) \cup {Len(v) + 1}
        /\ \A k \in DOMAIN c : v[i + k - 1] \in c[k]

(* A std::string holds any bytes, a str only characters. *)
TextsOf(lang) == IF lang = "python" THEN {v \in Seq(Byte) : IsUtf8(v)} ELSE Seq(Byte)

(* What a program takes for the length of a string: C++ its bytes, Python its
   characters.                                                              *)
TextLength(lang, v) ==
  IF lang = "python" THEN Cardinality(CharacterStarts(v)) ELSE Len(v)

-----------------------------------------------------------------------------
(* Layouts *)

Number(w)     == [kind |-> "number", width |-> w]
Text          == [kind |-> "string"]
Message(ts)   == [kind |-> "message", fields |-> ts]
Array(t, n)   == [kind |-> "array", of |-> t, length |-> n]
Vector(t)     == [kind |-> "vector", of |-> t]

Widths == {1, 2, 4, 8}
Simple == {Text} \cup {Number(w) : w \in Widths}

(* What is made of given layouts: no class has no field, no array no
   element.                                                                 *)
MessagesOver(parts) == [kind : {"message"}, fields : Seq(parts) \ {<<>>}]
ArraysOver(parts)   == [kind : {"array"}, of : parts, length : Nat \ {0}]
VectorsOver(parts)  == [kind : {"vector"}, of : parts]

(* By depth, the layouts nested no deeper that have no vector of anything in
   avoided.                                                                 *)
LayoutsWithout(avoided) ==
  LET layouts[d \in 0 .. Depth] ==
        IF d = 0 THEN Simple
        ELSE Simple \cup MessagesOver(layouts[d - 1]) \cup ArraysOver(layouts[d - 1])
                    \cup VectorsOver(layouts[d - 1] \ avoided)
  IN  layouts

Layouts == LayoutsWithout({})

WideVectorFree(t) == t \in LayoutsWithout({Number(w) : w \in Widths \ {1}})[Depth]
TextVectorFree(t) == t \in LayoutsWithout({Text})[Depth]

(* The layouts of the n parts of a composite value, in their order. *)
Parts(t, n) ==
  CASE t.kind = "message" -> t.fields
    [] t.kind = "array"   -> [i \in 1 .. t.length |-> t.of]
    [] t.kind = "vector"  -> [i \in 1 .. n |-> t.of]

-----------------------------------------------------------------------------
(* Objects: values that know their class. *)

Object(t, v) == [type |-> t, value |-> v]

(* n is less than 2^32. *)
FitsLength(n) == n \div 16777216 < 256

SimpleObjectsOf(texts) ==
  {o \in [type : Simple, value : Seq(Byte)] :
      IF o.type = Text THEN o.value \in texts /\ FitsLength(Len(o.value))
      ELSE Len(o.value) = o.type.width}

Composites(layouts, parts) ==
  {o \in [type : layouts \ Simple, value : Seq(parts)] :
      /\ FitsLength(Len(o.value))
      /\ Parts(o.type, Len(o.value)) = [i \in DOMAIN o.value |-> o.value[i].type]}

(* By depth, the objects whose strings are among texts. *)
ObjectsOf(texts) ==
  LET objects[d \in 0 .. Depth] ==
        IF d = 0 THEN SimpleObjectsOf(texts)
        ELSE SimpleObjectsOf(texts) \cup Composites(Layouts[d], objects[d - 1])
  IN  objects

Objects == ObjectsOf(Seq(Byte))

-----------------------------------------------------------------------------
(* Lengths: a uint32_t in the machine's byte order, the least first. *)

LengthWidth == 4
LengthBytes(n) ==
  <<n % 256, (n \div 256) % 256, (n \div 65536) % 256, (n \div 16777216) % 256>>
LengthOf(b) == b[1] + 256 * b[2] + 65536 * b[3] + 16777216 * b[4]

-----------------------------------------------------------------------------
(* size(): what the program announces and allocates before it serializes.
   Python leaves out the length of each string of a vector of strings.      *)

(* Forgets the length in front of the string. *)
UnprefixedSizeOfText(lang, v) == TextLength(lang, v)

SizeOfText(lang, v) == LengthWidth + TextLength(lang, v)

SizeOfSimple(lang, o) ==
  IF o.type = Text THEN SizeOfText(lang, o.value) ELSE o.type.width

Total(sizes) ==
  LET sum[k \in 0 .. Len(sizes)] == IF k = 0 THEN 0 ELSE sum[k - 1] + sizes[k]
  IN  sum[Len(sizes)]

SizeOfParts(t, sizes) == (IF t.kind = "vector" THEN LengthWidth ELSE 0) + Total(sizes)

SizeAt(lang) ==
  LET size[d \in 0 .. Depth] ==
        [o \in Objects[d] |->
            IF o.type \in Simple THEN SizeOfSimple(lang, o)
            ELSE SizeOfParts(o.type,
                   [i \in DOMAIN o.value |->
                      IF lang = "python" /\ o.type = Vector(Text)
                      THEN TextLength(lang, o.value[i].value)
                      ELSE size[d - 1][o.value[i]]])]
  IN  size

SizeOf(lang, o) == SizeAt(lang)[Depth][o]

-----------------------------------------------------------------------------
(* serialize(): the bytes appended to the buffer. *)

(* Ends the string as C does. *)
TerminatedText(lang, v) ==
  LengthBytes(TextLength(lang, v)) \o SubSeq(v, 1, TextLength(lang, v)) \o <<0>>

(* As many bytes as the length says: Python's struct.pack cuts the UTF-8 of a
   string to the number of its characters.                                  *)
SerializeText(lang, v) ==
  LengthBytes(TextLength(lang, v)) \o SubSeq(v, 1, TextLength(lang, v))

SerializeSimple(lang, o) ==
  IF o.type = Text THEN SerializeText(lang, o.value) ELSE o.value

(* The memory image of a vector of numbers is its elements' end to end. *)
SerializeParts(t, parts) ==
  (IF t.kind = "vector" THEN LengthBytes(Len(parts)) ELSE <<>>) \o FlattenSeq(parts)

SerializeAt(lang) ==
  LET serialize[d \in 0 .. Depth] ==
        [o \in Objects[d] |->
            IF o.type \in Simple THEN SerializeSimple(lang, o)
            ELSE SerializeParts(o.type,
                   [i \in DOMAIN o.value |-> serialize[d - 1][o.value[i]]])]
  IN  serialize

Serialize(lang, o) == SerializeAt(lang)[Depth][o]

(* The strings that arrive as they were written: those the writer does not cut
   and the reader does not refuse.                                          *)
Intact(out, lang) == IF out = "python" THEN Seq(Ascii) ELSE TextsOf(lang)

-----------------------------------------------------------------------------
(* deserialize(): reads at an offset of a buffer and either gives a value
   and the offset after it, or refuses.                                     *)

Refused == [ok |-> FALSE]
Read(v, next) == [ok |-> TRUE, value |-> v, next |-> next]

(* A memcpy of n bytes, the buffer's end notwithstanding. *)
Copy(src, offset, n) ==
  [i \in 1..n |-> IF offset + i <= Len(src) THEN src[offset + i] ELSE Beyond]

DeserializeNumber(w, src, offset) ==
  IF offset + w > Len(src) THEN Refused ELSE Read(Copy(src, offset, w), offset + w)

(* Trusts the length it has read. *)
UncheckedText(lang, src, offset) ==
  LET size == DeserializeNumber(LengthWidth, src, offset) IN
  IF ~size.ok THEN Refused
  ELSE Read(Copy(src, size.next, LengthOf(size.value)),
            size.next + LengthOf(size.value))

(* Python's ends in decode(), which raises unless the bytes are UTF-8. *)
DeserializeText(lang, src, offset) ==
  LET size == DeserializeNumber(LengthWidth, src, offset)
      text == DeserializeNumber(LengthOf(size.value), src, size.next)
  IN IF ~size.ok THEN Refused
     ELSE IF text.ok /\ lang = "python" /\ ~IsUtf8(text.value) THEN Refused
     ELSE text

DeserializeSimple(lang, t, src, offset) ==
  IF t = Text THEN DeserializeText(lang, src, offset)
  ELSE DeserializeNumber(t.width, src, offset)

(* One part after the other, until one is refused. read[t][offset] reads a
   part.                                                                    *)
DeserializeParts(ts, read, offset) ==
  LET parts[k \in 0 .. Len(ts)] ==
        IF k = 0 THEN Read(<<>>, offset)
        ELSE LET before == parts[k - 1] IN
             IF ~before.ok THEN Refused
             ELSE LET part == read[ts[k]][before.next] IN
                  IF ~part.ok THEN Refused
                  ELSE Read(Append(before.value, part.value), part.next)
  IN  parts[Len(ts)]

(* deserialize_number_vector compares the number of elements, not of bytes,
   with what the buffer still holds; struct.unpack_from compares bytes.     *)
DeserializeNumberVector(lang, w, src, offset) ==
  LET size == DeserializeNumber(LengthWidth, src, offset)
      n    == LengthOf(size.value)
  IN IF ~size.ok THEN Refused
     ELSE IF size.next + (IF lang = "cpp" THEN n ELSE n * w) > Len(src) THEN Refused
     ELSE Read([i \in 1..n |-> Object(Number(w), Copy(src, size.next + (i - 1) * w, w))],
               size.next + n * w)

DeserializeVector(t, read, src, offset) ==
  LET size == DeserializeNumber(LengthWidth, src, offset) IN
  IF ~size.ok THEN Refused
  ELSE DeserializeParts(Parts(t, LengthOf(size.value)), read, size.next)

DeserializeComposite(lang, t, read, src, offset) ==
  CASE t.kind \in {"message", "array"} -> DeserializeParts(Parts(t, 0), read, offset)
    [] t.kind = "vector" ->
         IF t.of.kind = "number"
         THEN DeserializeNumberVector(lang, t.of.width, src, offset)
         ELSE DeserializeVector(t, read, src, offset)

(* The value read is an object of the class that reads. *)
As(t, read) == IF read.ok THEN Read(Object(t, read.value), read.next) ELSE Refused

DeserializeAt(lang, src) ==
  LET read[d \in 0 .. Depth] ==
        [t \in Layouts[d] |-> [offset \in Nat |->
            As(t, IF t \in Simple THEN DeserializeSimple(lang, t, src, offset)
                  ELSE DeserializeComposite(lang, t, read[d - 1], src, offset))]]
  IN  read

Deserialize(lang, t, src, offset) == DeserializeAt(lang, src)[Depth][t][offset]
=============================================================================
