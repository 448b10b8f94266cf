------------------------ MODULE MessageBuffer_proofs ------------------------
(***************************************************************************)
(* What is written is what is read, for any messages of any classes whose  *)
(* strings both languages carry: the layouts may nest to any depth,        *)
(* vectors and strings have any length that four bytes can announce, and   *)
(* any number of messages, these and others, share a buffer that may end   *)
(* anywhere.  The encoding is a recursion over layouts, so what            *)
(* serialize() wrote and deserialize() makes of it is shown by induction   *)
(* on the depth, with an induction over the parts inside.                  *)
(***************************************************************************)
EXTENDS MessageBuffer, SequenceTheorems, FiniteSetTheorems, WellFoundedInduction, TLAPS

-----------------------------------------------------------------------------
(* Induction over the naturals, for properties written as a set.           *)
LEMMA SetInduction ==
    ASSUME NEW S, 0 \in S, \A n \in Nat : n \in S => n + 1 \in S
    PROVE  Nat \subseteq S
<1> DEFINE B == Nat \ S
<1>1. ASSUME B # {} PROVE FALSE
  <2>1. PICK x \in B : \A y \in B : ~(<<y, x>> \in OpToRel(<, Nat))
    BY <1>1, NatLessThanWellFounded, WFMin
  <2>2. x \in Nat /\ x \notin S /\ x # 0
    BY <2>1
  <2>3. x - 1 \in Nat /\ x - 1 < x
    BY <2>2
  <2>4. <<x - 1, x>> \in {ss \in Nat \X Nat : ss[1] < ss[2]}
    BY <2>2, <2>3
  <2>5. x - 1 \notin B
    BY <2>1, <2>4 DEF OpToRel
  <2>6. (x - 1) + 1 \in S
    BY <2>3, <2>5
  <2>7. (x - 1) + 1 = x
    BY <2>2
  <2>8. QED
    BY <2>2, <2>6, <2>7
<1>2. QED
  BY <1>1

(* Four bytes hold a length.                                               *)
LEMMA LengthBytesAre ==
    ASSUME NEW n \in Nat, FitsLength(n)
    PROVE  /\ LengthBytes(n) \in Seq(Byte)
           /\ Len(LengthBytes(n)) = LengthWidth
           /\ LengthOf(LengthBytes(n)) = n
<1> DEFINE a == n \div 256
           b == n \div 65536
           c == n \div 16777216
<1>1. /\ n % 256 \in Byte /\ a % 256 \in Byte /\ b % 256 \in Byte /\ c % 256 \in Byte
      /\ a \in Nat /\ b \in Nat /\ c \in Nat
  BY DEF Byte
<1>2. n = 256 * a + (n % 256) /\ b = a \div 256 /\ c = b \div 256
  <2>1. n = 256 * a + (n % 256)
    OBVIOUS
  <2>2. b = a \div 256
    OBVIOUS
  <2>3. c = b \div 256
    OBVIOUS
  <2>4. QED
    BY <2>1, <2>2, <2>3
<1>3. a = 256 * b + (a % 256) /\ b = 256 * c + (b % 256)
  <2> HIDE DEF a, b, c
  <2>1. QED
    BY <1>1, <1>2
<1>4. c < 256
  BY DEF FitsLength
<1>5. c % 256 = c
  BY <1>1, <1>4
<1>6. n = (n % 256) + 256 * (a % 256) + 65536 * (b % 256) + 16777216 * (c % 256)
  <2> HIDE DEF a, b, c
  <2>1. n % 256 \in Nat /\ a % 256 \in Nat /\ b % 256 \in Nat
    BY <1>1
  <2>2. QED
    BY <1>1, <1>2, <1>3, <1>5, <2>1
<1>7. LengthBytes(n) = <<n % 256, a % 256, b % 256, c % 256>>
  BY DEF LengthBytes
<1> HIDE DEF a, b, c
<1>8. QED
  BY <1>1, <1>6, <1>7 DEF LengthWidth, LengthOf

-----------------------------------------------------------------------------
(* A string has no more characters than bytes, so that many are there to   *)
(* write and four bytes hold their number if they hold that of the bytes.  *)
LEMMA TextLengthIs ==
    ASSUME NEW lang, NEW v \in Seq(Byte)
    PROVE  /\ TextLength(lang, v) \in Nat /\ TextLength(lang, v) <= Len(v)
           /\ FitsLength(Len(v)) => FitsLength(TextLength(lang, v))
<1> DEFINE n == Len(v)
           m == TextLength(lang, v)
<1>1. n \in Nat /\ DOMAIN v = 1 .. n
  OBVIOUS
<1>2. m \in Nat /\ m <= n
  <2>1. CASE lang = "python"
    <3>1. IsFiniteSet(1 .. n) /\ Cardinality(1 .. n) = n
      BY <1>1, FS_Interval
    <3>2. CharacterStarts(v) \subseteq 1 .. n
      BY <1>1 DEF CharacterStarts
    <3>3. IsFiniteSet(CharacterStarts(v)) /\ Cardinality(CharacterStarts(v)) <= n
      BY <3>1, <3>2, FS_Subset
    <3>4. Cardinality(CharacterStarts(v)) \in Nat
      BY <3>3, FS_CardinalityType
    <3>5. QED
      BY <2>1, <3>3, <3>4 DEF TextLength
  <2>2. CASE lang # "python"
    BY <1>1, <2>2 DEF TextLength
  <2>3. QED
    BY <2>1, <2>2
<1> HIDE DEF n, m
<1>3. FitsLength(n) => FitsLength(m)
  BY <1>1, <1>2 DEF FitsLength
<1>4. QED
  BY <1>2, <1>3 DEF n, m

LEMMA TextKept ==
    ASSUME NEW lang, NEW v \in Seq(Byte)
    PROVE  LET kept == SubSeq(v, 1, TextLength(lang, v)) IN
           kept \in Seq(Byte) /\ Len(kept) = TextLength(lang, v)
<1> DEFINE n == Len(v)
           m == TextLength(lang, v)
<1>1. m \in Nat /\ n \in Nat /\ m <= n
  BY TextLengthIs
<1>2. \A i \in 1 .. n : v[i] \in Byte
  OBVIOUS
<1> HIDE DEF m
<1>3. SubSeq(v, 1, m) = [i \in 1 .. m |-> v[i]]
  BY <1>1
<1>4. [i \in 1 .. m |-> v[i]] \in Seq(Byte)
  BY <1>1, <1>2
<1>5. QED
  BY <1>1, <1>3, <1>4 DEF m

LEMMA SerializeTextIs ==
    ASSUME NEW lang, NEW v \in Seq(Byte), FitsLength(Len(v))
    PROVE  /\ SerializeText(lang, v) \in Seq(Byte)
           /\ Len(SerializeText(lang, v)) = LengthWidth + TextLength(lang, v)
<1> DEFINE m == TextLength(lang, v)
           kept == SubSeq(v, 1, m)
<1>1. m \in Nat /\ FitsLength(m)
  BY TextLengthIs
<1>2. LengthBytes(m) \in Seq(Byte) /\ Len(LengthBytes(m)) = LengthWidth
  BY <1>1, LengthBytesAre
<1>3. kept \in Seq(Byte) /\ Len(kept) = m
  BY TextKept
<1> HIDE DEF m, kept
<1>4. LengthBytes(m) \o kept \in Seq(Byte) /\ Len(LengthBytes(m) \o kept) = LengthWidth + m
  BY <1>2, <1>3, ConcatProperties
<1>5. QED
  BY <1>4 DEF SerializeText, m, kept

(* ASCII is the part of UTF-8 in which a character is a byte.              *)
LEMMA AsciiIs ==
    ASSUME NEW v \in Seq(Ascii)
    PROVE  v \in Seq(Byte) /\ IsUtf8(v) /\ \A lang : TextLength(lang, v) = Len(v)
<1> DEFINE n == Len(v)
<1>1. n \in Nat /\ DOMAIN v = 1 .. n /\ \A i \in 1 .. n : v[i] \in Ascii
  OBVIOUS
<1>2. \A b \in Ascii : b \in Byte /\ b \notin Continuation
  BY DEF Ascii, Byte, Continuation
<1>3. v \in Seq(Byte)
  BY <1>1, <1>2
<1>4. CharacterStarts(v) = 1 .. n
  BY <1>1, <1>2 DEF CharacterStarts
<1>5. IsUtf8(v)
  <2>1. v # <<>> => 1 \in CharacterStarts(v)
    BY <1>1, <1>4
  <2> DEFINE c == <<Ascii>>
  <2>2. c \in Characters /\ Len(c) = 1 /\ DOMAIN c = 1 .. 1 /\ c[1] = Ascii
    BY DEF Characters
  <2> HIDE DEF c
  <2>3. ASSUME NEW i \in CharacterStarts(v)
        PROVE  /\ i + Len(c) \in CharacterStarts(v) \cup {Len(v) + 1}
               /\ \A k \in DOMAIN c : v[i + k - 1] \in c[k]
    <3>1. i \in 1 .. n /\ i + 1 \in (1 .. n) \cup {n + 1}
      BY <1>1, <1>4, <2>3
    <3>2. \A k \in DOMAIN c : k = 1 /\ i + k - 1 = i
      BY <2>2, <3>1
    <3>3. QED
      BY <1>1, <1>4, <2>2, <3>1, <3>2
  <2>4. QED
    BY <2>1, <2>2, <2>3 DEF IsUtf8
<1>6. Cardinality(CharacterStarts(v)) = n
  <2> HIDE DEF n
  <2>1. IsFiniteSet(1 .. n) /\ Cardinality(1 .. n) = n
    BY <1>1, FS_Interval
  <2>2. QED
    BY <1>4, <2>1
<1>7. QED
  BY <1>3, <1>5, <1>6 DEF TextLength

(* A string that arrives as it was written is whole when it is written and *)
(* not refused when it is read.                                            *)
LEMMA IntactIs ==
    ASSUME NEW out, NEW lang, NEW v \in Intact(out, lang)
    PROVE  /\ v \in Seq(Byte)
           /\ SubSeq(v, 1, TextLength(out, v)) = v
           /\ lang = "python" => IsUtf8(v)
<1>1. v \in Seq(Byte) /\ TextLength(out, v) = Len(v) /\ (lang = "python" => IsUtf8(v))
  <2>1. CASE out = "python"
    BY <2>1, AsciiIs DEF Intact
  <2>2. CASE out # "python"
    <3>1. v \in TextsOf(lang)
      BY <2>2 DEF Intact
    <3>2. v \in Seq(Byte) /\ (lang = "python" => IsUtf8(v))
      BY <3>1 DEF TextsOf
    <3>3. QED
      BY <2>2, <3>2 DEF TextLength
  <2>3. QED
    BY <2>1, <2>2
<1>2. SubSeq(v, 1, Len(v)) = v
  BY <1>1
<1>3. QED
  BY <1>1, <1>2

-----------------------------------------------------------------------------
(* The tables of layouts, by depth.                                        *)
Made(avoided, inner) ==
    Simple \cup MessagesOver(inner) \cup ArraysOver(inner) \cup VectorsOver(inner \ avoided)

IsLayouts(avoided, n, f) ==
    f = [d \in 0 .. n |-> IF d = 0 THEN Simple
                          ELSE Simple \cup MessagesOver(f[d - 1]) \cup ArraysOver(f[d - 1])
                                      \cup VectorsOver(f[d - 1] \ avoided)]

LEMMA LayoutsExist ==
    ASSUME NEW avoided
    PROVE  \A n \in Nat : \E f : IsLayouts(avoided, n, f)
<1> DEFINE M(L) == Made(avoided, L)
           S == {n \in Nat : \E f : f = [d \in 0 .. n |-> IF d = 0 THEN Simple ELSE M(f[d - 1])]}
<1> HIDE DEF M
<1>1. 0 \in S
  <2> DEFINE f == [d \in 0 .. 0 |-> Simple]
  <2>1. f = [d \in 0 .. 0 |-> IF d = 0 THEN Simple ELSE M(f[d - 1])]
    OBVIOUS
  <2>2. QED
    BY <2>1
<1>2. ASSUME NEW m \in Nat, m \in S PROVE m + 1 \in S
  <2>1. PICK f : f = [d \in 0 .. m |-> IF d = 0 THEN Simple ELSE M(f[d - 1])]
    BY <1>2
  <2> DEFINE h == [d \in 0 .. m + 1 |-> IF d = m + 1 THEN M(f[m]) ELSE f[d]]
  <2>2. ASSUME NEW d \in 0 .. m + 1
        PROVE  h[d] = IF d = 0 THEN Simple ELSE M(h[d - 1])
    <3>1. CASE d = m + 1
      <4>1. m \in 0 .. m + 1 /\ d # 0 /\ d - 1 = m /\ m # m + 1
        BY <3>1
      <4>2. h[d] = M(f[m]) /\ h[m] = f[m]
        BY <3>1, <4>1
      <4> HIDE DEF h
      <4>3. QED
        BY <3>1, <4>1, <4>2
    <3>2. CASE d # m + 1
      <4>1. d \in 0 .. m /\ h[d] = f[d]
        BY <3>2
      <4>2. f[d] = IF d = 0 THEN Simple ELSE M(f[d - 1])
        BY <2>1, <4>1
      <4>3. d # 0 => d - 1 \in 0 .. m + 1 /\ d - 1 # m + 1
        BY <4>1
      <4>4. d # 0 => h[d - 1] = f[d - 1]
        BY <4>3
      <4> HIDE DEF h
      <4>5. QED
        BY <4>1, <4>2, <4>4
    <3>3. QED
      BY <3>1, <3>2
  <2>3. h = [d \in 0 .. m + 1 |-> h[d]]
    OBVIOUS
  <2> HIDE DEF h
  <2>4. h = [d \in 0 .. m + 1 |-> IF d = 0 THEN Simple ELSE M(h[d - 1])]
    BY <2>2, <2>3
  <2>5. QED
    BY <2>4
<1> HIDE DEF S
<1>3. Nat \subseteq S
  BY <1>1, <1>2, SetInduction
<1>4. QED
  BY <1>3 DEF S, IsLayouts, M, Made

LEMMA LayoutsAre ==
    ASSUME NEW avoided
    PROVE  /\ LayoutsWithout(avoided)[0] = Simple
           /\ \A d \in 1 .. Depth :
                 LayoutsWithout(avoided)[d] = Made(avoided, LayoutsWithout(avoided)[d - 1])
<1> DEFINE f == CHOOSE h : IsLayouts(avoided, Depth, h)
<1>1. LayoutsWithout(avoided) = f
  BY DEF LayoutsWithout, IsLayouts
<1>2. IsLayouts(avoided, Depth, f)
  BY LayoutsExist, DepthIsNatural
<1> HIDE DEF f
<1>3. 0 \in 0 .. Depth /\ \A d \in 1 .. Depth : d \in 0 .. Depth /\ d # 0
  BY DepthIsNatural
<1>4. f[0] = Simple
  BY <1>2, <1>3 DEF IsLayouts
<1>5. \A d \in 1 .. Depth : f[d] = Made(avoided, f[d - 1])
  BY <1>2, <1>3 DEF IsLayouts, Made
<1>6. QED
  BY <1>1, <1>4, <1>5

(* The tables of objects.                                                  *)
ObjectsOver(texts, d, inner) == SimpleObjectsOf(texts) \cup Composites(Layouts[d], inner)

IsObjects(texts, n, f) ==
    f = [d \in 0 .. n |-> IF d = 0 THEN SimpleObjectsOf(texts)
                          ELSE SimpleObjectsOf(texts) \cup Composites(Layouts[d], f[d - 1])]

LEMMA ObjectsExist ==
    ASSUME NEW texts
    PROVE  \A n \in Nat : \E f : IsObjects(texts, n, f)
<1> DEFINE M(d, x) == ObjectsOver(texts, d, x)
           S == {n \in Nat : \E f : f = [d \in 0 .. n |-> IF d = 0 THEN SimpleObjectsOf(texts) ELSE M(d, f[d - 1])]}
<1> HIDE DEF M
<1>1. 0 \in S
  <2> DEFINE f == [d \in 0 .. 0 |-> SimpleObjectsOf(texts)]
  <2>1. f = [d \in 0 .. 0 |-> IF d = 0 THEN SimpleObjectsOf(texts) ELSE M(d, f[d - 1])]
    OBVIOUS
  <2>2. QED
    BY <2>1
<1>2. ASSUME NEW m \in Nat, m \in S PROVE m + 1 \in S
  <2>1. PICK f : f = [d \in 0 .. m |-> IF d = 0 THEN SimpleObjectsOf(texts) ELSE M(d, f[d - 1])]
    BY <1>2
  <2> DEFINE h == [d \in 0 .. m + 1 |-> IF d = m + 1 THEN M(m + 1, f[m]) ELSE f[d]]
  <2>2. ASSUME NEW d \in 0 .. m + 1
        PROVE  h[d] = IF d = 0 THEN SimpleObjectsOf(texts) ELSE M(d, h[d - 1])
    <3>1. CASE d = m + 1
      <4>1. m \in 0 .. m + 1 /\ d # 0 /\ d - 1 = m /\ m # m + 1
        BY <3>1
      <4>2. h[d] = M(d, f[m]) /\ h[m] = f[m]
        BY <3>1, <4>1
      <4> HIDE DEF h
      <4>3. QED
        BY <3>1, <4>1, <4>2
    <3>2. CASE d # m + 1
      <4>1. d \in 0 .. m /\ h[d] = f[d]
        BY <3>2
      <4>2. f[d] = IF d = 0 THEN SimpleObjectsOf(texts) ELSE M(d, f[d - 1])
        BY <2>1, <4>1
      <4>3. d # 0 => d - 1 \in 0 .. m + 1 /\ d - 1 # m + 1
        BY <4>1
      <4>4. d # 0 => h[d - 1] = f[d - 1]
        BY <4>3
      <4> HIDE DEF h
      <4>5. QED
        BY <4>1, <4>2, <4>4
    <3>3. QED
      BY <3>1, <3>2
  <2>3. h = [d \in 0 .. m + 1 |-> h[d]]
    OBVIOUS
  <2> HIDE DEF h
  <2>4. h = [d \in 0 .. m + 1 |-> IF d = 0 THEN SimpleObjectsOf(texts) ELSE M(d, h[d - 1])]
    BY <2>2, <2>3
  <2>5. QED
    BY <2>4
<1> HIDE DEF S
<1>3. Nat \subseteq S
  BY <1>1, <1>2, SetInduction
<1>4. QED
  BY <1>3 DEF S, IsObjects, M, ObjectsOver

LEMMA ObjectsOfAre ==
    ASSUME NEW texts
    PROVE  /\ ObjectsOf(texts)[0] = SimpleObjectsOf(texts)
           /\ \A d \in 1 .. Depth :
                 ObjectsOf(texts)[d] =
                    SimpleObjectsOf(texts) \cup Composites(Layouts[d], ObjectsOf(texts)[d - 1])
<1> DEFINE f == CHOOSE h : IsObjects(texts, Depth, h)
<1>1. ObjectsOf(texts) = f
  BY DEF ObjectsOf, IsObjects
<1>2. IsObjects(texts, Depth, f)
  BY ObjectsExist, DepthIsNatural
<1> HIDE DEF f
<1>3. 0 \in 0 .. Depth /\ \A d \in 1 .. Depth : d \in 0 .. Depth /\ d # 0
  BY DepthIsNatural
<1>4. f[0] = SimpleObjectsOf(texts)
  BY <1>2, <1>3 DEF IsObjects
<1>5. \A d \in 1 .. Depth :
         f[d] = SimpleObjectsOf(texts) \cup Composites(Layouts[d], f[d - 1])
  BY <1>2, <1>3 DEF IsObjects
<1>6. QED
  BY <1>1, <1>4, <1>5

(* Whatever their strings.                                                 *)
SimpleObjects == SimpleObjectsOf(Seq(Byte))

LEMMA ObjectsAre ==
    /\ Objects[0] = SimpleObjects
    /\ \A d \in 1 .. Depth : Objects[d] = SimpleObjects \cup Composites(Layouts[d], Objects[d - 1])
BY ObjectsOfAre DEF Objects, SimpleObjects

-----------------------------------------------------------------------------
(* serialize() of an object, from what it is of its parts.                 *)
SerializeWith(out, o, inner) ==
    IF o.type \in Simple THEN SerializeSimple(out, o)
    ELSE SerializeParts(o.type, [i \in DOMAIN o.value |-> inner[o.value[i]]])

IsSerialize(out, n, f) ==
    f = [d \in 0 .. n |->
            [o \in Objects[d] |->
                IF o.type \in Simple THEN SerializeSimple(out, o)
                ELSE SerializeParts(o.type, [i \in DOMAIN o.value |-> f[d - 1][o.value[i]]])]]

LEMMA SerializeExists ==
    ASSUME NEW out
    PROVE  \A n \in Nat : \E f : IsSerialize(out, n, f)
<1> DEFINE M(d, x) == [o \in Objects[d] |-> SerializeWith(out, o, x)]
           S == {n \in Nat : \E f : f = [d \in 0 .. n |-> IF d = 0 THEN [o \in Objects[0] |-> SerializeSimple(out, o)] ELSE M(d, f[d - 1])]}
<1> HIDE DEF M
<1>1. 0 \in S
  <2> DEFINE f == [d \in 0 .. 0 |-> [o \in Objects[0] |-> SerializeSimple(out, o)]]
  <2>1. f = [d \in 0 .. 0 |-> IF d = 0 THEN [o \in Objects[0] |-> SerializeSimple(out, o)] ELSE M(d, f[d - 1])]
    OBVIOUS
  <2>2. QED
    BY <2>1
<1>2. ASSUME NEW m \in Nat, m \in S PROVE m + 1 \in S
  <2>1. PICK f : f = [d \in 0 .. m |-> IF d = 0 THEN [o \in Objects[0] |-> SerializeSimple(out, o)] ELSE M(d, f[d - 1])]
    BY <1>2
  <2> DEFINE h == [d \in 0 .. m + 1 |-> IF d = m + 1 THEN M(m + 1, f[m]) ELSE f[d]]
  <2>2. ASSUME NEW d \in 0 .. m + 1
        PROVE  h[d] = IF d = 0 THEN [o \in Objects[0] |-> SerializeSimple(out, o)] ELSE M(d, h[d - 1])
    <3>1. CASE d = m + 1
      <4>1. m \in 0 .. m + 1 /\ d # 0 /\ d - 1 = m /\ m # m + 1
        BY <3>1
      <4>2. h[d] = M(d, f[m]) /\ h[m] = f[m]
        BY <3>1, <4>1
      <4> HIDE DEF h
      <4>3. QED
        BY <3>1, <4>1, <4>2
    <3>2. CASE d # m + 1
      <4>1. d \in 0 .. m /\ h[d] = f[d]
        BY <3>2
      <4>2. f[d] = IF d = 0 THEN [o \in Objects[0] |-> SerializeSimple(out, o)] ELSE M(d, f[d - 1])
        BY <2>1, <4>1
      <4>3. d # 0 => d - 1 \in 0 .. m + 1 /\ d - 1 # m + 1
        BY <4>1
      <4>4. d # 0 => h[d - 1] = f[d - 1]
        BY <4>3
      <4> HIDE DEF h
      <4>5. QED
        BY <4>1, <4>2, <4>4
    <3>3. QED
      BY <3>1, <3>2
  <2>3. h = [d \in 0 .. m + 1 |-> h[d]]
    OBVIOUS
  <2> HIDE DEF h
  <2>4. h = [d \in 0 .. m + 1 |-> IF d = 0 THEN [o \in Objects[0] |-> SerializeSimple(out, o)] ELSE M(d, h[d - 1])]
    BY <2>2, <2>3
  <2>5. QED
    BY <2>4
<1> HIDE DEF S
<1>3. Nat \subseteq S
  BY <1>1, <1>2, SetInduction
<1>4. \A x : [o \in Objects[0] |-> SerializeSimple(out, o)] = M(0, x)
  BY ObjectsAre DEF SerializeWith, SimpleObjects, SimpleObjectsOf, M
<1>5. ASSUME NEW n \in Nat PROVE \E f : IsSerialize(out, n, f)
  <2>1. PICK f : f = [d \in 0 .. n |-> IF d = 0 THEN [o \in Objects[0] |-> SerializeSimple(out, o)]
                                       ELSE M(d, f[d - 1])]
    BY <1>3 DEF S
  <2>2. f = [d \in 0 .. n |-> M(d, f[d - 1])]
    BY <1>4, <2>1
  <2>3. QED
    BY <2>2 DEF IsSerialize, M, SerializeWith
<1>6. QED
  BY <1>5

LEMMA SerializeAtIs ==
    ASSUME NEW out
    PROVE  \A d \in 0 .. Depth :
              SerializeAt(out)[d] =
                 [o \in Objects[d] |-> SerializeWith(out, o, SerializeAt(out)[d - 1])]
<1> DEFINE f == CHOOSE h : IsSerialize(out, Depth, h)
<1>1. SerializeAt(out) = f
  BY DEF SerializeAt, IsSerialize
<1>2. IsSerialize(out, Depth, f)
  BY SerializeExists, DepthIsNatural
<1> HIDE DEF f
<1>3. \A d \in 0 .. Depth : f[d] = [o \in Objects[d] |-> SerializeWith(out, o, f[d - 1])]
  BY <1>2 DEF IsSerialize, SerializeWith
<1>4. QED
  BY <1>1, <1>3

-----------------------------------------------------------------------------
(* size() of an object, from the sizes of its parts.                       *)
SizeWith(lang, o, inner) ==
    IF o.type \in Simple THEN SizeOfSimple(lang, o)
    ELSE SizeOfParts(o.type,
           [i \in DOMAIN o.value |->
              IF lang = "python" /\ o.type = Vector(Text) THEN TextLength(lang, o.value[i].value)
              ELSE inner[o.value[i]]])

IsSize(lang, n, f) ==
    f = [d \in 0 .. n |->
            [o \in Objects[d] |->
                IF o.type \in Simple THEN SizeOfSimple(lang, o)
                ELSE SizeOfParts(o.type,
                       [i \in DOMAIN o.value |->
                          IF lang = "python" /\ o.type = Vector(Text) THEN TextLength(lang, o.value[i].value)
                          ELSE f[d - 1][o.value[i]]])]]

LEMMA SizeExists ==
    ASSUME NEW lang
    PROVE  \A n \in Nat : \E f : IsSize(lang, n, f)
<1> DEFINE M(d, x) == [o \in Objects[d] |-> SizeWith(lang, o, x)]
           S == {n \in Nat : \E f : f = [d \in 0 .. n |-> IF d = 0 THEN [o \in Objects[0] |-> SizeOfSimple(lang, o)] ELSE M(d, f[d - 1])]}
<1> HIDE DEF M
<1>1. 0 \in S
  <2> DEFINE f == [d \in 0 .. 0 |-> [o \in Objects[0] |-> SizeOfSimple(lang, o)]]
  <2>1. f = [d \in 0 .. 0 |-> IF d = 0 THEN [o \in Objects[0] |-> SizeOfSimple(lang, o)] ELSE M(d, f[d - 1])]
    OBVIOUS
  <2>2. QED
    BY <2>1
<1>2. ASSUME NEW m \in Nat, m \in S PROVE m + 1 \in S
  <2>1. PICK f : f = [d \in 0 .. m |-> IF d = 0 THEN [o \in Objects[0] |-> SizeOfSimple(lang, o)] ELSE M(d, f[d - 1])]
    BY <1>2
  <2> DEFINE h == [d \in 0 .. m + 1 |-> IF d = m + 1 THEN M(m + 1, f[m]) ELSE f[d]]
  <2>2. ASSUME NEW d \in 0 .. m + 1
        PROVE  h[d] = IF d = 0 THEN [o \in Objects[0] |-> SizeOfSimple(lang, o)] ELSE M(d, h[d - 1])
    <3>1. CASE d = m + 1
      <4>1. m \in 0 .. m + 1 /\ d # 0 /\ d - 1 = m /\ m # m + 1
        BY <3>1
      <4>2. h[d] = M(d, f[m]) /\ h[m] = f[m]
        BY <3>1, <4>1
      <4> HIDE DEF h
      <4>3. QED
        BY <3>1, <4>1, <4>2
    <3>2. CASE d # m + 1
      <4>1. d \in 0 .. m /\ h[d] = f[d]
        BY <3>2
      <4>2. f[d] = IF d = 0 THEN [o \in Objects[0] |-> SizeOfSimple(lang, o)] ELSE M(d, f[d - 1])
        BY <2>1, <4>1
      <4>3. d # 0 => d - 1 \in 0 .. m + 1 /\ d - 1 # m + 1
        BY <4>1
      <4>4. d # 0 => h[d - 1] = f[d - 1]
        BY <4>3
      <4> HIDE DEF h
      <4>5. QED
        BY <4>1, <4>2, <4>4
    <3>3. QED
      BY <3>1, <3>2
  <2>3. h = [d \in 0 .. m + 1 |-> h[d]]
    OBVIOUS
  <2> HIDE DEF h
  <2>4. h = [d \in 0 .. m + 1 |-> IF d = 0 THEN [o \in Objects[0] |-> SizeOfSimple(lang, o)] ELSE M(d, h[d - 1])]
    BY <2>2, <2>3
  <2>5. QED
    BY <2>4
<1> HIDE DEF S
<1>3. Nat \subseteq S
  BY <1>1, <1>2, SetInduction
<1>4. \A x : [o \in Objects[0] |-> SizeOfSimple(lang, o)] = M(0, x)
  BY ObjectsAre DEF SizeWith, SimpleObjects, SimpleObjectsOf, M
<1>5. ASSUME NEW n \in Nat PROVE \E f : IsSize(lang, n, f)
  <2>1. PICK f : f = [d \in 0 .. n |-> IF d = 0 THEN [o \in Objects[0] |-> SizeOfSimple(lang, o)] ELSE M(d, f[d - 1])]
    BY <1>3 DEF S
  <2>2. f = [d \in 0 .. n |-> M(d, f[d - 1])]
    BY <1>4, <2>1
  <2>3. QED
    BY <2>2 DEF IsSize, M, SizeWith
<1>6. QED
  BY <1>5

LEMMA SizeAtIs ==
    ASSUME NEW lang
    PROVE  \A d \in 0 .. Depth :
              SizeAt(lang)[d] = [o \in Objects[d] |-> SizeWith(lang, o, SizeAt(lang)[d - 1])]
<1> DEFINE f == CHOOSE h : IsSize(lang, Depth, h)
<1>1. SizeAt(lang) = f
  BY DEF SizeAt, IsSize
<1>2. IsSize(lang, Depth, f)
  BY SizeExists, DepthIsNatural
<1> HIDE DEF f
<1>3. \A d \in 0 .. Depth : f[d] = [o \in Objects[d] |-> SizeWith(lang, o, f[d - 1])]
  BY <1>2 DEF IsSize, SizeWith
<1>4. QED
  BY <1>1, <1>3

-----------------------------------------------------------------------------
(* deserialize() of a layout, from what it is of its parts.                *)
ReadWith(lang, src, t, inner, at) ==
    As(t, IF t \in Simple THEN DeserializeSimple(lang, t, src, at)
          ELSE DeserializeComposite(lang, t, inner, src, at))

IsRead(lang, src, n, f) ==
    f = [d \in 0 .. n |->
            [t \in Layouts[d] |-> [at \in Nat |->
                As(t, IF t \in Simple THEN DeserializeSimple(lang, t, src, at)
                      ELSE DeserializeComposite(lang, t, f[d - 1], src, at))]]]

LEMMA ReadExists ==
    ASSUME NEW lang, NEW src
    PROVE  \A n \in Nat : \E f : IsRead(lang, src, n, f)
<1> DEFINE M(d, x) == [t \in Layouts[d] |-> [at \in Nat |-> ReadWith(lang, src, t, x, at)]]
           S == {n \in Nat : \E f : f = [d \in 0 .. n |-> IF d = 0 THEN [t \in Layouts[0] |-> [at \in Nat |-> As(t, DeserializeSimple(lang, t, src, at))]] ELSE M(d, f[d - 1])]}
<1> HIDE DEF M
<1>1. 0 \in S
  <2> DEFINE f == [d \in 0 .. 0 |-> [t \in Layouts[0] |-> [at \in Nat |-> As(t, DeserializeSimple(lang, t, src, at))]]]
  <2>1. f = [d \in 0 .. 0 |-> IF d = 0 THEN [t \in Layouts[0] |-> [at \in Nat |-> As(t, DeserializeSimple(lang, t, src, at))]] ELSE M(d, f[d - 1])]
    OBVIOUS
  <2>2. QED
    BY <2>1
<1>2. ASSUME NEW m \in Nat, m \in S PROVE m + 1 \in S
  <2>1. PICK f : f = [d \in 0 .. m |-> IF d = 0 THEN [t \in Layouts[0] |-> [at \in Nat |-> As(t, DeserializeSimple(lang, t, src, at))]] ELSE M(d, f[d - 1])]
    BY <1>2
  <2> DEFINE h == [d \in 0 .. m + 1 |-> IF d = m + 1 THEN M(m + 1, f[m]) ELSE f[d]]
  <2>2. ASSUME NEW d \in 0 .. m + 1
        PROVE  h[d] = IF d = 0 THEN [t \in Layouts[0] |-> [at \in Nat |-> As(t, DeserializeSimple(lang, t, src, at))]] ELSE M(d, h[d - 1])
    <3>1. CASE d = m + 1
      <4>1. m \in 0 .. m + 1 /\ d # 0 /\ d - 1 = m /\ m # m + 1
        BY <3>1
      <4>2. h[d] = M(d, f[m]) /\ h[m] = f[m]
        BY <3>1, <4>1
      <4> HIDE DEF h
      <4>3. QED
        BY <3>1, <4>1, <4>2
    <3>2. CASE d # m + 1
      <4>1. d \in 0 .. m /\ h[d] = f[d]
        BY <3>2
      <4>2. f[d] = IF d = 0 THEN [t \in Layouts[0] |-> [at \in Nat |-> As(t, DeserializeSimple(lang, t, src, at))]] ELSE M(d, f[d - 1])
        BY <2>1, <4>1
      <4>3. d # 0 => d - 1 \in 0 .. m + 1 /\ d - 1 # m + 1
        BY <4>1
      <4>4. d # 0 => h[d - 1] = f[d - 1]
        BY <4>3
      <4> HIDE DEF h
      <4>5. QED
        BY <4>1, <4>2, <4>4
    <3>3. QED
      BY <3>1, <3>2
  <2>3. h = [d \in 0 .. m + 1 |-> h[d]]
    OBVIOUS
  <2> HIDE DEF h
  <2>4. h = [d \in 0 .. m + 1 |-> IF d = 0 THEN [t \in Layouts[0] |-> [at \in Nat |-> As(t, DeserializeSimple(lang, t, src, at))]] ELSE M(d, h[d - 1])]
    BY <2>2, <2>3
  <2>5. QED
    BY <2>4
<1> HIDE DEF S
<1>3. Nat \subseteq S
  BY <1>1, <1>2, SetInduction
<1>4. \A x : [t \in Layouts[0] |-> [at \in Nat |-> As(t, DeserializeSimple(lang, t, src, at))]] = M(0, x)
  BY LayoutsAre DEF ReadWith, Layouts, M
<1>5. ASSUME NEW n \in Nat PROVE \E f : IsRead(lang, src, n, f)
  <2>1. PICK f : f = [d \in 0 .. n |-> IF d = 0 THEN [t \in Layouts[0] |-> [at \in Nat |-> As(t, DeserializeSimple(lang, t, src, at))]] ELSE M(d, f[d - 1])]
    BY <1>3 DEF S
  <2>2. f = [d \in 0 .. n |-> M(d, f[d - 1])]
    BY <1>4, <2>1
  <2>3. QED
    BY <2>2 DEF IsRead, M, ReadWith
<1>6. QED
  BY <1>5

LEMMA DeserializeAtIs ==
    ASSUME NEW lang, NEW src
    PROVE  \A d \in 0 .. Depth :
              DeserializeAt(lang, src)[d] =
                 [t \in Layouts[d] |-> [at \in Nat |->
                    ReadWith(lang, src, t, DeserializeAt(lang, src)[d - 1], at)]]
<1> DEFINE f == CHOOSE h : IsRead(lang, src, Depth, h)
<1>1. DeserializeAt(lang, src) = f
  BY DEF DeserializeAt, IsRead
<1>2. IsRead(lang, src, Depth, f)
  BY ReadExists, DepthIsNatural
<1> HIDE DEF f
<1>3. \A d \in 0 .. Depth :
          f[d] = [t \in Layouts[d] |-> [at \in Nat |-> ReadWith(lang, src, t, f[d - 1], at)]]
  BY <1>2 DEF IsRead, ReadWith
<1>4. QED
  BY <1>1, <1>3

-----------------------------------------------------------------------------
(* What the community module's FlattenSeq makes of the parts' bytes.       *)
IsFlatten(ss, n, f) ==
    f = [i \in 1 .. n |-> IF i = 1 THEN ss[i] ELSE f[i - 1] \o ss[i]]

LEMMA FlattenExists ==
    ASSUME NEW ss
    PROVE  \A n \in Nat : \E f : IsFlatten(ss, n, f)
<1> DEFINE M(i, x) == IF i = 1 THEN ss[i] ELSE x \o ss[i]
           S == {n \in Nat : \E f : f = [i \in 1 .. n |-> M(i, f[i - 1])]}
<1>0. \A x, y : M(1, x) = M(1, y)
  OBVIOUS
<1> HIDE DEF M
<1>1. 0 \in S
  <2> DEFINE f == [i \in 1 .. 0 |-> 0]
  <2>1. f = [i \in 1 .. 0 |-> M(i, f[i - 1])]
    OBVIOUS
  <2>2. QED
    BY <2>1
<1>2. ASSUME NEW m \in Nat, m \in S PROVE m + 1 \in S
  <2>1. PICK f : f = [i \in 1 .. m |-> M(i, f[i - 1])]
    BY <1>2
  <2> DEFINE h == [i \in 1 .. m + 1 |-> IF i = m + 1 THEN M(m + 1, f[m]) ELSE f[i]]
  <2>2. ASSUME NEW i \in 1 .. m + 1 PROVE h[i] = M(i, h[i - 1])
    <3>1. CASE i = m + 1 /\ m # 0
      <4>1. m \in 1 .. m + 1 /\ i - 1 = m /\ m # m + 1
        BY <3>1
      <4>2. h[i] = M(i, f[m]) /\ h[m] = f[m]
        BY <3>1, <4>1
      <4> HIDE DEF h
      <4>3. QED
        BY <4>1, <4>2
    <3>2. CASE i = m + 1 /\ m = 0
      <4>1. i = 1 /\ h[i] = M(1, f[m])
        BY <3>2
      <4>2. M(1, f[m]) = M(1, h[i - 1])
        BY <1>0
      <4> HIDE DEF h
      <4>3. QED
        BY <4>1, <4>2
    <3>3. CASE i # m + 1
      <4>1. i \in 1 .. m /\ h[i] = f[i]
        BY <3>3
      <4>2. f[i] = M(i, f[i - 1])
        BY <2>1, <4>1
      <4>3. CASE i = 1
        <5>1. M(1, f[i - 1]) = M(1, h[i - 1])
          BY <1>0
        <5> HIDE DEF h
        <5>2. QED
          BY <4>1, <4>2, <4>3, <5>1
      <4>4. CASE i # 1
        <5>1. i - 1 \in 1 .. m + 1 /\ i - 1 # m + 1
          BY <4>1, <4>4
        <5>2. h[i - 1] = f[i - 1]
          BY <5>1
        <5> HIDE DEF h
        <5>3. QED
          BY <4>1, <4>2, <5>2
      <4>5. QED
        BY <4>3, <4>4
    <3>4. QED
      BY <3>1, <3>2, <3>3
  <2>3. h = [i \in 1 .. m + 1 |-> h[i]]
    OBVIOUS
  <2> HIDE DEF h
  <2>4. h = [i \in 1 .. m + 1 |-> M(i, h[i - 1])]
    BY <2>2, <2>3
  <2>5. QED
    BY <2>4
<1> HIDE DEF S
<1>3. Nat \subseteq S
  BY <1>1, <1>2, SetInduction
<1>4. QED
  BY <1>3 DEF S, IsFlatten, M

(* The bytes in front of the parts' ends: f[k] is what the first k parts   *)
(* are, end to end.                                                        *)
EndToEnd(ss, f) ==
    /\ f \in [0 .. Len(ss) -> Seq(Byte)]
    /\ f[0] = <<>>
    /\ \A k \in 1 .. Len(ss) : f[k] = f[k - 1] \o ss[k]

LEMMA FlattenIs ==
    ASSUME NEW ss, ss \in Seq(Seq(Byte))
    PROVE  \E f : EndToEnd(ss, f) /\ FlattenSeq(ss) = f[Len(ss)]
<1> DEFINE n == Len(ss)
           g == CHOOSE h : IsFlatten(ss, n, h)
           f == [k \in 0 .. n |-> IF k = 0 THEN <<>> ELSE g[k]]
<1>1. n \in Nat /\ \A k \in 1 .. n : ss[k] \in Seq(Byte)
  BY ElementOfSeq
<1>2. n # 0 => FlattenSeq(ss) = g[n]
  BY DEF FlattenSeq, IsFlatten
<1>3. n = 0 => FlattenSeq(ss) = <<>>
  BY EmptySeq DEF FlattenSeq
<1>4. IsFlatten(ss, n, g)
  BY <1>1, FlattenExists
<1> HIDE DEF g
<1>5. \A k \in 1 .. n : g[k] = IF k = 1 THEN ss[k] ELSE g[k - 1] \o ss[k]
  BY <1>4 DEF IsFlatten
<1>6. f[0] = <<>> /\ \A k \in 1 .. n : f[k] = g[k]
  BY <1>1
<1>7. n # 0 => n \in 1 .. n
  BY <1>1
<1>8. f = [k \in 0 .. n |-> f[k]]
  OBVIOUS
<1> HIDE DEF f, n
<1>9. ASSUME NEW k \in 1 .. n PROVE f[k] = f[k - 1] \o ss[k]
  <2>1. CASE k = 1
    <3>1. f[k] = ss[k] /\ f[k - 1] = <<>>
      BY <1>5, <1>6, <2>1
    <3>2. ss[k] \in Seq(Byte)
      BY <1>1
    <3>3. QED
      BY <3>1, <3>2
  <2>2. CASE k # 1
    <3>1. k - 1 \in 1 .. n
      BY <1>1, <2>2
    <3>2. QED
      BY <1>5, <1>6, <2>2, <3>1
  <2>3. QED
    BY <2>1, <2>2
<1> DEFINE S == {k \in Nat : k <= n => f[k] \in Seq(Byte)}
<1>10. 0 \in S
  <2>1. f[0] \in Seq(Byte)
    BY <1>6, EmptySeq
  <2>2. QED
    BY <2>1
<1>11. ASSUME NEW k \in Nat, k \in S PROVE k + 1 \in S
  <2>1. CASE k + 1 <= n
    <3>1. k + 1 \in 1 .. n /\ (k + 1) - 1 = k /\ k <= n
      BY <1>1, <2>1
    <3>2. f[k + 1] = f[k] \o ss[k + 1] /\ f[k] \in Seq(Byte) /\ ss[k + 1] \in Seq(Byte)
      BY <1>1, <1>9, <1>11, <3>1
    <3>3. f[k + 1] \in Seq(Byte)
      BY <3>2, ConcatProperties
    <3>4. QED
      BY <3>3
  <2>2. QED
    BY <1>1, <2>1
<1> HIDE DEF S
<1>12. Nat \subseteq S
  BY <1>10, <1>11, SetInduction
<1>13. \A k \in 0 .. n : f[k] \in Seq(Byte)
  BY <1>1, <1>12 DEF S
<1>14. f \in [0 .. n -> Seq(Byte)]
  BY <1>8, <1>13
<1>15. FlattenSeq(ss) = f[n]
  BY <1>2, <1>3, <1>6, <1>7
<1>16. QED
  BY <1>6, <1>9, <1>14, <1>15 DEF EndToEnd, n

-----------------------------------------------------------------------------
(* What an object is made of.                                              *)
LEMMA SimpleAre ==
    ASSUME NEW o \in SimpleObjects
    PROVE  /\ o = Object(o.type, o.value) /\ o.type \in Simple /\ o.value \in Seq(Byte)
           /\ \/ o.type = Text /\ FitsLength(Len(o.value))
              \/ o.type # Text /\ \E w \in Widths : o.type = Number(w) /\ Len(o.value) = w
<1>1. o \in [type : Simple, value : Seq(Byte)]
      /\ (IF o.type = Text THEN FitsLength(Len(o.value)) ELSE Len(o.value) = o.type.width)
  BY DEF SimpleObjects, SimpleObjectsOf
<1>2. o = Object(o.type, o.value) /\ o.type \in Simple /\ o.value \in Seq(Byte)
  BY <1>1 DEF Object
<1>3. CASE o.type = Text
  BY <1>1, <1>2, <1>3
<1>4. CASE o.type # Text
  <2>1. PICK w \in Widths : o.type = Number(w)
    BY <1>2, <1>4 DEF Simple
  <2>2. o.type.width = w
    BY <2>1 DEF Number
  <2>3. QED
    BY <1>1, <1>2, <1>4, <2>1, <2>2
<1>5. QED
  BY <1>3, <1>4

(* A composite of depth d: its parts are objects one level down, and their *)
(* classes are those that its own class names.                             *)
IsComposite(d, o) ==
    /\ d \in 1 .. Depth /\ d - 1 \in 0 .. Depth
    /\ o = Object(o.type, o.value)
    /\ o.type \notin Simple
    /\ o.value \in Seq(Objects[d - 1])
    /\ FitsLength(Len(o.value))
    /\ \/ o.type \in MessagesOver(Layouts[d - 1])
       \/ o.type \in ArraysOver(Layouts[d - 1])
       \/ o.type \in VectorsOver(Layouts[d - 1])
    /\ Parts(o.type, Len(o.value)) = [i \in 1 .. Len(o.value) |-> o.value[i].type]

LEMMA CompositesAre ==
    ASSUME NEW d \in 1 .. Depth, NEW o \in Composites(Layouts[d], Objects[d - 1])
    PROVE  IsComposite(d, o)
<1>1. /\ o \in [type : Layouts[d] \ Simple, value : Seq(Objects[d - 1])]
      /\ FitsLength(Len(o.value))
      /\ Parts(o.type, Len(o.value)) = [i \in DOMAIN o.value |-> o.value[i].type]
  BY DEF Composites
<1>2. /\ o = Object(o.type, o.value) /\ o.type \in Layouts[d] /\ o.type \notin Simple
      /\ o.value \in Seq(Objects[d - 1])
  BY <1>1 DEF Object
<1>3. DOMAIN o.value = 1 .. Len(o.value)
  BY <1>2
<1>4. Layouts[d] = Made({}, Layouts[d - 1])
  BY LayoutsAre DEF Layouts
<1>5. Layouts[d - 1] \ {} = Layouts[d - 1]
  OBVIOUS
<1>6. \/ o.type \in MessagesOver(Layouts[d - 1])
      \/ o.type \in ArraysOver(Layouts[d - 1])
      \/ o.type \in VectorsOver(Layouts[d - 1])
  BY <1>2, <1>4, <1>5 DEF Made
<1>7. d \in 1 .. Depth /\ d - 1 \in 0 .. Depth
  BY DepthIsNatural
<1>8. QED
  BY <1>1, <1>2, <1>3, <1>6, <1>7 DEF IsComposite

LEMMA ObjectCases ==
    ASSUME NEW d \in 0 .. Depth, NEW o \in Objects[d]
    PROVE  /\ o \in SimpleObjects \/ IsComposite(d, o)
           /\ o.type \in Layouts[d]
<1>1. CASE o \in SimpleObjects
  <2>1. o.type \in Simple
    BY <1>1, SimpleAre
  <2>2. d = 0 \/ d \in 1 .. Depth
    BY DepthIsNatural
  <2>3. Layouts[0] = Simple /\ \A e \in 1 .. Depth : Simple \subseteq Layouts[e]
    BY LayoutsAre DEF Layouts, Made
  <2>4. QED
    BY <1>1, <2>1, <2>2, <2>3
<1>2. CASE o \notin SimpleObjects
  <2>1. d # 0
    BY <1>2, ObjectsAre
  <2>2. d \in 1 .. Depth
    BY <2>1, DepthIsNatural
  <2>3. o \in Composites(Layouts[d], Objects[d - 1])
    BY <1>2, <2>2, ObjectsAre
  <2>4. o.type \in Layouts[d]
    BY <2>3 DEF Composites
  <2>5. QED
    BY <2>2, <2>3, <2>4, CompositesAre
<1>3. QED
  BY <1>1, <1>2

(* A class without vectors of something names only such classes.           *)
LEMMA PartsWithout ==
    ASSUME NEW avoided, NEW d, NEW o, IsComposite(d, o),
           o.type \in LayoutsWithout(avoided)[d],
           NEW i \in 1 .. Len(o.value)
    PROVE  o.value[i].type \in LayoutsWithout(avoided)[d - 1]
<1> DEFINE inner == LayoutsWithout(avoided)[d - 1]
           n == Len(o.value)
<1>1. /\ d \in 1 .. Depth /\ o.type \notin Simple
      /\ Parts(o.type, n) = [k \in 1 .. n |-> o.value[k].type]
      /\ o.value \in Seq(Objects[d - 1])
  BY DEF IsComposite
<1>2. o.type \in Made(avoided, inner)
  BY <1>1, LayoutsAre
<1>3. o.value[i].type = Parts(o.type, n)[i]
  BY <1>1
<1>4. CASE o.type \in MessagesOver(inner)
  <2>1. o.type.kind = "message" /\ o.type.fields \in Seq(inner)
    BY <1>4 DEF MessagesOver
  <2>2. Parts(o.type, n) = o.type.fields
    BY <2>1 DEF Parts
  <2>3. DOMAIN o.type.fields = 1 .. n
    BY <1>1, <2>2
  <2>4. QED
    BY <1>3, <2>1, <2>2, <2>3, ElementOfSeq
<1>5. CASE o.type \in ArraysOver(inner)
  <2>1. o.type.kind = "array" /\ o.type.of \in inner
    BY <1>5 DEF ArraysOver
  <2>2. Parts(o.type, n) = [k \in 1 .. o.type.length |-> o.type.of]
    BY <2>1 DEF Parts
  <2>3. 1 .. o.type.length = 1 .. n
    BY <1>1, <2>2
  <2>4. QED
    BY <1>3, <2>1, <2>2, <2>3
<1>6. CASE o.type \in VectorsOver(inner \ avoided)
  <2>1. o.type.kind = "vector" /\ o.type.of \in inner
    BY <1>6 DEF VectorsOver
  <2>2. Parts(o.type, n) = [k \in 1 .. n |-> o.type.of]
    BY <2>1 DEF Parts
  <2>3. QED
    BY <1>3, <2>1, <2>2
<1>7. QED
  BY <1>1, <1>2, <1>4, <1>5, <1>6 DEF Made

(* A vector of something is not among the classes without one.             *)
LEMMA VectorsWithout ==
    ASSUME NEW avoided, NEW d \in 1 .. Depth, NEW t \in avoided
    PROVE  Vector(t) \notin LayoutsWithout(avoided)[d]
<1> DEFINE inner == LayoutsWithout(avoided)[d - 1]
<1>1. LayoutsWithout(avoided)[d] = Made(avoided, inner)
  BY LayoutsAre
<1>2. Vector(t).kind = "vector" /\ Vector(t).of = t
  BY DEF Vector
<1> HIDE DEF inner
<1>3. Vector(t) \notin Simple
  BY <1>2 DEF Simple, Text, Number
<1>4. Vector(t) \notin MessagesOver(inner) /\ Vector(t) \notin ArraysOver(inner)
  BY <1>2 DEF MessagesOver, ArraysOver
<1>5. Vector(t) \notin VectorsOver(inner \ avoided)
  BY <1>2 DEF VectorsOver
<1>6. QED
  BY <1>1, <1>3, <1>4, <1>5 DEF Made

-----------------------------------------------------------------------------
(* serialize() gives bytes.  The parts of a composite of depth d, each     *)
(* serialized.                                                             *)
Pieces(out, d, o) == [i \in 1 .. Len(o.value) |-> SerializeAt(out)[d - 1][o.value[i]]]

Prefix(o) == IF o.type.kind = "vector" THEN LengthBytes(Len(o.value)) ELSE <<>>

LEMMA SerializeAtOf ==
    ASSUME NEW out, NEW d \in 0 .. Depth, NEW o \in Objects[d]
    PROVE  SerializeAt(out)[d][o] = SerializeWith(out, o, SerializeAt(out)[d - 1])
<1>1. SerializeAt(out)[d] = [x \in Objects[d] |-> SerializeWith(out, x, SerializeAt(out)[d - 1])]
  BY SerializeAtIs
<1>2. QED
  BY <1>1

LEMMA SerializeSimpleIs ==
    ASSUME NEW out, NEW d \in 0 .. Depth, NEW o \in Objects[d], o \in SimpleObjects
    PROVE  /\ SerializeAt(out)[d][o] = SerializeSimple(out, o)
           /\ SerializeAt(out)[d][o] \in Seq(Byte)
<1>1. SerializeAt(out)[d][o] = SerializeSimple(out, o)
  BY SerializeAtOf, SimpleAre DEF SerializeWith
<1>2. CASE o.type = Text
  <2>1. o.value \in Seq(Byte) /\ FitsLength(Len(o.value))
    BY <1>2, SimpleAre
  <2>2. SerializeText(out, o.value) \in Seq(Byte)
    BY <2>1, SerializeTextIs
  <2>3. QED
    BY <1>1, <1>2, <2>2 DEF SerializeSimple
<1>3. CASE o.type # Text
  BY <1>1, <1>3, SimpleAre DEF SerializeSimple
<1>4. QED
  BY <1>1, <1>2, <1>3

(* A composite's bytes: its parts', end to end.                            *)
IsEncoded(out, d, o) ==
    /\ Pieces(out, d, o) \in Seq(Seq(Byte)) /\ Len(Pieces(out, d, o)) = Len(o.value)
    /\ Prefix(o) \in Seq(Byte)
    /\ \E f : /\ EndToEnd(Pieces(out, d, o), f)
              /\ SerializeAt(out)[d][o] = Prefix(o) \o f[Len(o.value)]

LEMMA SerializeCompositeIs ==
    ASSUME NEW out, NEW d, NEW o \in Objects[d], IsComposite(d, o),
           \A i \in 1 .. Len(o.value) : SerializeAt(out)[d - 1][o.value[i]] \in Seq(Byte)
    PROVE  IsEncoded(out, d, o)
<1> DEFINE n == Len(o.value)
           ss == Pieces(out, d, o)
<1>1. /\ d \in 0 .. Depth /\ o.type \notin Simple /\ n \in Nat /\ FitsLength(n)
      /\ DOMAIN o.value = 1 .. n
  BY DEF IsComposite
<1>2. ss \in Seq(Seq(Byte)) /\ Len(ss) = n
  BY <1>1 DEF Pieces
<1>3. Prefix(o) \in Seq(Byte)
  BY <1>1, LengthBytesAre, EmptySeq DEF Prefix
<1>4. SerializeAt(out)[d][o] = SerializeWith(out, o, SerializeAt(out)[d - 1])
  BY <1>1, SerializeAtOf
<1>5. SerializeWith(out, o, SerializeAt(out)[d - 1]) = SerializeParts(o.type, ss)
  BY <1>1 DEF SerializeWith, Pieces
<1>6. SerializeParts(o.type, ss) = Prefix(o) \o FlattenSeq(ss)
  BY <1>2 DEF SerializeParts, Prefix
<1>7. PICK f : EndToEnd(ss, f) /\ FlattenSeq(ss) = f[n]
  BY <1>2, FlattenIs
<1>8. QED
  BY <1>2, <1>3, <1>4, <1>5, <1>6, <1>7 DEF IsEncoded

LEMMA SerializeType ==
    ASSUME NEW out
    PROVE  \A d \in 0 .. Depth : \A o \in Objects[d] : SerializeAt(out)[d][o] \in Seq(Byte)
<1> DEFINE S == {d \in Nat : d <= Depth => \A o \in Objects[d] : SerializeAt(out)[d][o] \in Seq(Byte)}
<1>1. 0 \in S
  <2>1. \A o \in Objects[0] : o \in SimpleObjects /\ 0 \in 0 .. Depth
    BY ObjectsAre, DepthIsNatural
  <2>2. QED
    BY <2>1, SerializeSimpleIs
<1>2. ASSUME NEW e \in Nat, e \in S PROVE e + 1 \in S
  <2>1. SUFFICES ASSUME e + 1 <= Depth, NEW o \in Objects[e + 1]
                 PROVE  SerializeAt(out)[e + 1][o] \in Seq(Byte)
    OBVIOUS
  <2>2. e + 1 \in 0 .. Depth /\ (e + 1) - 1 = e /\ e <= Depth
    BY <2>1, DepthIsNatural
  <2>3. CASE o \in SimpleObjects
    BY <2>2, <2>3, SerializeSimpleIs
  <2>4. CASE IsComposite(e + 1, o)
    <3>1. o.value \in Seq(Objects[e])
      BY <2>2, <2>4 DEF IsComposite
    <3>2. \A i \in 1 .. Len(o.value) : SerializeAt(out)[e][o.value[i]] \in Seq(Byte)
      BY <1>2, <2>2, <3>1, ElementOfSeq
    <3>3. IsEncoded(out, e + 1, o)
      <4>1. \A i \in 1 .. Len(o.value) : SerializeAt(out)[(e + 1) - 1][o.value[i]] \in Seq(Byte)
        BY <2>2, <3>2
      <4>2. QED
        BY <2>4, <4>1, SerializeCompositeIs
    <3>4. PICK f : /\ EndToEnd(Pieces(out, e + 1, o), f)
                   /\ SerializeAt(out)[e + 1][o] = Prefix(o) \o f[Len(o.value)]
      BY <3>3 DEF IsEncoded
    <3>5. Prefix(o) \in Seq(Byte) /\ Len(Pieces(out, e + 1, o)) = Len(o.value)
      BY <3>3 DEF IsEncoded
    <3>6. f[Len(o.value)] \in Seq(Byte)
      BY <3>1, <3>4, <3>5 DEF EndToEnd
    <3>7. QED
      BY <3>4, <3>5, <3>6, ConcatProperties
  <2>5. QED
    BY <2>2, <2>3, <2>4, ObjectCases
<1> HIDE DEF S
<1>3. Nat \subseteq S
  BY <1>1, <1>2, SetInduction
<1>4. QED
  BY <1>3, DepthIsNatural DEF S

(* What is known of a composite's bytes.                                   *)
LEMMA CompositeBytes ==
    ASSUME NEW out, NEW d, NEW o \in Objects[d], IsComposite(d, o)
    PROVE  IsEncoded(out, d, o)
<1>1. d - 1 \in 0 .. Depth /\ o.value \in Seq(Objects[d - 1])
  BY DEF IsComposite
<1>2. \A i \in 1 .. Len(o.value) : SerializeAt(out)[d - 1][o.value[i]] \in Seq(Byte)
  BY <1>1, SerializeType, ElementOfSeq
<1>3. QED
  BY <1>2, SerializeCompositeIs

(* The k-th bytes are those before them and the k-th part.                 *)
Appended(x, y, z) ==
    /\ x \in Seq(Byte) /\ y \in Seq(Byte) /\ z \in Seq(Byte)
    /\ Len(x) \in Nat /\ Len(y) \in Nat /\ Len(z) \in Nat
    /\ Len(x) = Len(y) + Len(z)
    /\ \A i \in 1 .. Len(y) : x[i] = y[i]
    /\ \A j \in 1 .. Len(z) : x[Len(y) + j] = z[j]

LEMMA EndToEndStep ==
    ASSUME NEW ss \in Seq(Seq(Byte)), NEW f, EndToEnd(ss, f), NEW k \in 1 .. Len(ss)
    PROVE  /\ k - 1 \in 0 .. Len(ss) /\ k \in 0 .. Len(ss)
           /\ Appended(f[k], f[k - 1], ss[k])
<1>1. Len(ss) \in Nat /\ ss[k] \in Seq(Byte)
  BY ElementOfSeq
<1>2. k - 1 \in 0 .. Len(ss) /\ k \in 0 .. Len(ss)
  BY <1>1
<1>3. f[k] \in Seq(Byte) /\ f[k - 1] \in Seq(Byte)
  BY <1>2 DEF EndToEnd
<1>4. f[k] = f[k - 1] \o ss[k]
  BY DEF EndToEnd
<1> DEFINE x == f[k]
           y == f[k - 1]
           z == ss[k]
<1>5. x = y \o z /\ x \in Seq(Byte) /\ y \in Seq(Byte) /\ z \in Seq(Byte)
  BY <1>1, <1>3, <1>4
<1> HIDE DEF x, y, z
<1>6. Len(x) \in Nat /\ Len(y) \in Nat /\ Len(z) \in Nat
  BY <1>5
<1>7. Len(x) = Len(y) + Len(z)
  BY <1>5, ConcatProperties
<1>8. \A i \in 1 .. Len(x) : x[i] = IF i <= Len(y) THEN y[i] ELSE z[i - Len(y)]
  BY <1>5, <1>7, ConcatProperties
<1>9. \A i \in 1 .. Len(y) : i \in 1 .. Len(x) /\ i <= Len(y)
  BY <1>6, <1>7
<1>10. \A j \in 1 .. Len(z) : /\ Len(y) + j \in 1 .. Len(x) /\ ~(Len(y) + j <= Len(y))
                              /\ (Len(y) + j) - Len(y) = j
  BY <1>6, <1>7
<1>11. \A i \in 1 .. Len(y) : x[i] = y[i]
  BY <1>8, <1>9
<1>12. \A j \in 1 .. Len(z) : x[Len(y) + j] = z[j]
  BY <1>8, <1>10
<1>13. QED
  BY <1>2, <1>5, <1>6, <1>7, <1>11, <1>12 DEF Appended, x, y, z

(* Every part is in the whole, where the parts before it end.              *)
Within(ss, f, k, m) ==
    /\ Len(f[k - 1]) + Len(ss[k]) <= Len(f[m])
    /\ \A j \in 1 .. Len(ss[k]) : f[m][Len(f[k - 1]) + j] = ss[k][j]

LEMMA EndToEndHolds ==
    ASSUME NEW ss \in Seq(Seq(Byte)), NEW f, EndToEnd(ss, f)
    PROVE  \A k \in 1 .. Len(ss) : Within(ss, f, k, Len(ss))
<1> DEFINE n == Len(ss)
           S == {m \in Nat : m <= n => \A k \in 1 .. m : Within(ss, f, k, m)}
<1>0. n \in Nat
  OBVIOUS
<1>1. 0 \in S
  <2>1. 1 .. 0 = {}
    OBVIOUS
  <2>2. QED
    BY <2>1
<1>2. ASSUME NEW m \in Nat, m \in S PROVE m + 1 \in S
  <2>1. CASE m + 1 <= n
    <3> HIDE DEF n
    <3>1. m + 1 \in 1 .. n /\ (m + 1) - 1 = m /\ m <= n
      BY <1>0, <2>1
    <3>2. \A k \in 1 .. m : Within(ss, f, k, m)
      BY <1>2, <3>1
    <3>3. Appended(f[m + 1], f[m], ss[m + 1])
      <4>1. \A k \in 1 .. Len(ss) : Appended(f[k], f[k - 1], ss[k])
        BY EndToEndStep
      <4>2. m + 1 \in 1 .. Len(ss)
        BY <3>1 DEF n
      <4>3. QED
        BY <3>1, <4>1, <4>2
    <3>4. ASSUME NEW k \in 1 .. m + 1 PROVE Within(ss, f, k, m + 1)
      <4>1. CASE k = m + 1
        <5>1. Len(f[k - 1]) + Len(ss[k]) <= Len(f[m + 1])
          BY <3>1, <3>3, <4>1 DEF Appended
        <5>2. QED
          BY <3>1, <3>3, <4>1, <5>1 DEF Within, Appended
      <4>2. CASE k # m + 1
        <5>1. k \in 1 .. m /\ k \in 1 .. n
          BY <1>0, <3>1, <4>2
        <5>2. Appended(f[k], f[k - 1], ss[k])
          BY <5>1, EndToEndStep DEF n
        <5>3. Within(ss, f, k, m)
          BY <3>2, <5>1
        <5> DEFINE a == Len(f[k - 1])
                   b == Len(ss[k])
                   c == Len(f[m])
        <5>4. a \in Nat /\ b \in Nat /\ c \in Nat /\ Len(f[m + 1]) \in Nat /\ Len(ss[m + 1]) \in Nat
          BY <3>3, <5>2 DEF Appended
        <5>5. /\ a + b <= c /\ Len(f[m + 1]) = c + Len(ss[m + 1])
              /\ \A j \in 1 .. b : f[m][a + j] = ss[k][j]
              /\ \A i \in 1 .. c : f[m + 1][i] = f[m][i]
          BY <3>3, <5>3 DEF Within, Appended
        <5> HIDE DEF a, b, c
        <5>6. \A j \in 1 .. b : a + j \in 1 .. c
          BY <5>4, <5>5
        <5>7. a + b <= Len(f[m + 1])
          BY <5>4, <5>5
        <5>8. QED
          BY <5>5, <5>6, <5>7 DEF Within, a, b, c
      <4>3. QED
        BY <4>1, <4>2
    <3>5. QED
      BY <3>4
  <2>2. CASE ~(m + 1 <= n)
    BY <2>2
  <2>3. QED
    BY <2>1, <2>2
<1> HIDE DEF S
<1>3. Nat \subseteq S
  BY <1>1, <1>2, SetInduction
<1>4. QED
  BY <1>0, <1>3 DEF S

-----------------------------------------------------------------------------
(* size() against serialize().                                             *)
IsTotal(sizes, n, f) == f = [k \in 0 .. n |-> IF k = 0 THEN 0 ELSE f[k - 1] + sizes[k]]

LEMMA TotalExists ==
    ASSUME NEW sizes
    PROVE  \A n \in Nat : \E f : IsTotal(sizes, n, f)
<1> DEFINE M(d, x) == x + sizes[d]
           S == {n \in Nat : \E f : f = [d \in 0 .. n |-> IF d = 0 THEN 0 ELSE M(d, f[d - 1])]}
<1> HIDE DEF M
<1>1. 0 \in S
  <2> DEFINE f == [d \in 0 .. 0 |-> 0]
  <2>1. f = [d \in 0 .. 0 |-> IF d = 0 THEN 0 ELSE M(d, f[d - 1])]
    OBVIOUS
  <2>2. QED
    BY <2>1
<1>2. ASSUME NEW m \in Nat, m \in S PROVE m + 1 \in S
  <2>1. PICK f : f = [d \in 0 .. m |-> IF d = 0 THEN 0 ELSE M(d, f[d - 1])]
    BY <1>2
  <2> DEFINE h == [d \in 0 .. m + 1 |-> IF d = m + 1 THEN M(m + 1, f[m]) ELSE f[d]]
  <2>2. ASSUME NEW d \in 0 .. m + 1
        PROVE  h[d] = IF d = 0 THEN 0 ELSE M(d, h[d - 1])
    <3>1. CASE d = m + 1
      <4>1. m \in 0 .. m + 1 /\ d # 0 /\ d - 1 = m /\ m # m + 1
        BY <3>1
      <4>2. h[d] = M(d, f[m]) /\ h[m] = f[m]
        BY <3>1, <4>1
      <4> HIDE DEF h
      <4>3. QED
        BY <3>1, <4>1, <4>2
    <3>2. CASE d # m + 1
      <4>1. d \in 0 .. m /\ h[d] = f[d]
        BY <3>2
      <4>2. f[d] = IF d = 0 THEN 0 ELSE M(d, f[d - 1])
        BY <2>1, <4>1
      <4>3. d # 0 => d - 1 \in 0 .. m + 1 /\ d - 1 # m + 1
        BY <4>1
      <4>4. d # 0 => h[d - 1] = f[d - 1]
        BY <4>3
      <4> HIDE DEF h
      <4>5. QED
        BY <4>1, <4>2, <4>4
    <3>3. QED
      BY <3>1, <3>2
  <2>3. h = [d \in 0 .. m + 1 |-> h[d]]
    OBVIOUS
  <2> HIDE DEF h
  <2>4. h = [d \in 0 .. m + 1 |-> IF d = 0 THEN 0 ELSE M(d, h[d - 1])]
    BY <2>2, <2>3
  <2>5. QED
    BY <2>4
<1> HIDE DEF S
<1>3. Nat \subseteq S
  BY <1>1, <1>2, SetInduction
<1>4. QED
  BY <1>3 DEF S, IsTotal, M

LEMMA TotalIs ==
    ASSUME NEW sizes, Len(sizes) \in Nat
    PROVE  \E f : /\ Total(sizes) = f[Len(sizes)] /\ f[0] = 0
                  /\ \A k \in 1 .. Len(sizes) : f[k] = f[k - 1] + sizes[k]
<1> DEFINE n == Len(sizes)
           f == CHOOSE h : IsTotal(sizes, n, h)
<1>1. Total(sizes) = f[n]
  BY DEF Total, IsTotal
<1>2. IsTotal(sizes, n, f)
  BY TotalExists
<1> HIDE DEF f
<1>3. f[0] = 0 /\ \A k \in 1 .. n : f[k] = f[k - 1] + sizes[k]
  <2>1. 0 \in 0 .. n /\ \A k \in 1 .. n : k \in 0 .. n /\ k # 0
    OBVIOUS
  <2>2. QED
    BY <1>2, <2>1 DEF IsTotal
<1>4. QED
  BY <1>1, <1>3

LEMMA SizeAtOf ==
    ASSUME NEW lang, NEW d \in 0 .. Depth, NEW o \in Objects[d]
    PROVE  SizeAt(lang)[d][o] = SizeWith(lang, o, SizeAt(lang)[d - 1])
<1>1. SizeAt(lang)[d] = [x \in Objects[d] |-> SizeWith(lang, x, SizeAt(lang)[d - 1])]
  BY SizeAtIs
<1>2. QED
  BY <1>1

(* The size of an object of depth d: never more than its bytes, and exactly *)
(* them but for Python and a class with a vector of strings.               *)
Sized(lang, t, d, size, bytes) ==
    /\ size \in Nat /\ size <= Len(bytes)
    /\ size = Len(bytes) \/ (lang = "python" /\ t \notin LayoutsWithout({Text})[d])

LEMMA SimpleSized ==
    ASSUME NEW lang, NEW d \in 0 .. Depth, NEW o \in Objects[d], o \in SimpleObjects
    PROVE  /\ SizeAt(lang)[d][o] = Len(SerializeAt(lang)[d][o])
           /\ Sized(lang, o.type, d, SizeAt(lang)[d][o], SerializeAt(lang)[d][o])
<1>1. SizeAt(lang)[d][o] = SizeOfSimple(lang, o)
  BY SizeAtOf, SimpleAre DEF SizeWith
<1>2. SerializeAt(lang)[d][o] = SerializeSimple(lang, o) /\ SerializeAt(lang)[d][o] \in Seq(Byte)
  BY SerializeSimpleIs
<1>3. ASSUME o.type = Text PROVE SizeAt(lang)[d][o] = Len(SerializeAt(lang)[d][o])
  <2>1. o.value \in Seq(Byte) /\ FitsLength(Len(o.value))
    BY <1>3, SimpleAre
  <2>2. Len(SerializeText(lang, o.value)) = LengthWidth + TextLength(lang, o.value)
    BY <2>1, SerializeTextIs
  <2>3. QED
    BY <1>1, <1>2, <1>3, <2>2 DEF SizeOfSimple, SizeOfText, SerializeSimple
<1>4. ASSUME o.type # Text PROVE SizeAt(lang)[d][o] = Len(SerializeAt(lang)[d][o])
  <2>1. PICK w \in Widths : o.type = Number(w) /\ Len(o.value) = w
    BY <1>4, SimpleAre
  <2>2. QED
    BY <1>1, <1>2, <1>4, <2>1 DEF SizeOfSimple, SerializeSimple, Number
<1>5. SizeAt(lang)[d][o] = Len(SerializeAt(lang)[d][o])
  BY <1>3, <1>4
<1>6. Len(SerializeAt(lang)[d][o]) \in Nat
  BY <1>2
<1>7. QED
  BY <1>5, <1>6 DEF Sized

(* What is added for one part of a composite.                              *)
PartSize(lang, d, o, i) ==
    IF lang = "python" /\ o.type = Vector(Text) THEN TextLength(lang, o.value[i].value)
    ELSE SizeAt(lang)[d - 1][o.value[i]]

LEMMA PartSized ==
    ASSUME NEW lang, NEW d, NEW o \in Objects[d], IsComposite(d, o),
           NEW i \in 1 .. Len(o.value),
           Sized(lang, o.value[i].type, d - 1, SizeAt(lang)[d - 1][o.value[i]],
                 SerializeAt(lang)[d - 1][o.value[i]])
    PROVE  Sized(lang, o.type, d, PartSize(lang, d, o, i), SerializeAt(lang)[d - 1][o.value[i]])
<1> DEFINE p == o.value[i]
<1>1. d \in 1 .. Depth /\ d - 1 \in 0 .. Depth /\ p \in Objects[d - 1]
  BY ElementOfSeq DEF IsComposite
<1>2. CASE lang = "python" /\ o.type = Vector(Text)
  <2>1. p.type = Text
    <3>1. Parts(o.type, Len(o.value))[i] = p.type
      BY DEF IsComposite
    <3>2. Parts(o.type, Len(o.value)) = [k \in 1 .. Len(o.value) |-> Text]
      BY <1>2 DEF Parts, Vector
    <3>3. QED
      BY <3>1, <3>2
  <2>2. p \in SimpleObjects
    <3>1. ~IsComposite(d - 1, p)
      BY <2>1 DEF IsComposite, Simple
    <3>2. QED
      BY <1>1, <3>1, ObjectCases
  <2>3. p.value \in Seq(Byte) /\ FitsLength(Len(p.value))
    BY <2>1, <2>2, SimpleAre
  <2>4. SizeAt(lang)[d - 1][p] = Len(SerializeAt(lang)[d - 1][p])
    BY <1>1, <2>2, SimpleSized
  <2>5. SizeAt(lang)[d - 1][p] = LengthWidth + TextLength(lang, p.value)
    <3>1. p.type \in Simple
      BY <2>1 DEF Simple
    <3>2. SizeAt(lang)[d - 1][p] = SizeOfSimple(lang, p)
      BY <1>1, <3>1, SizeAtOf DEF SizeWith
    <3>3. QED
      BY <2>1, <3>2 DEF SizeOfSimple, SizeOfText
  <2>6. TextLength(lang, p.value) \in Nat
    BY <2>3, TextLengthIs
  <2>7. o.type \notin LayoutsWithout({Text})[d]
    BY <1>1, <1>2, VectorsWithout
  <2>8. PartSize(lang, d, o, i) = TextLength(lang, p.value)
    BY <1>2 DEF PartSize
  <2> HIDE DEF p
  <2>9. QED
    BY <1>2, <2>4, <2>5, <2>6, <2>7, <2>8 DEF Sized, LengthWidth, p
<1>3. CASE ~(lang = "python" /\ o.type = Vector(Text))
  <2>1. PartSize(lang, d, o, i) = SizeAt(lang)[d - 1][p]
    BY <1>3 DEF PartSize
  <2>2. o.type \in LayoutsWithout({Text})[d] => p.type \in LayoutsWithout({Text})[d - 1]
    BY PartsWithout
  <2>3. QED
    BY <2>1, <2>2 DEF Sized
<1>4. QED
  BY <1>2, <1>3

LEMMA CompositeSized ==
    ASSUME NEW lang, NEW d, NEW o \in Objects[d], IsComposite(d, o),
           \A i \in 1 .. Len(o.value) :
              Sized(lang, o.value[i].type, d - 1, SizeAt(lang)[d - 1][o.value[i]],
                    SerializeAt(lang)[d - 1][o.value[i]])
    PROVE  Sized(lang, o.type, d, SizeAt(lang)[d][o], SerializeAt(lang)[d][o])
<1> DEFINE n == Len(o.value)
           ss == Pieces(lang, d, o)
           sizes == [i \in 1 .. n |-> PartSize(lang, d, o, i)]
<1>0. IsEncoded(lang, d, o)
  BY CompositeBytes
<1>1. /\ d \in 0 .. Depth /\ o.type \notin Simple /\ n \in Nat /\ FitsLength(n)
      /\ DOMAIN o.value = 1 .. n
  BY DEF IsComposite
<1>2. SizeAt(lang)[d][o] = SizeOfParts(o.type, sizes)
  <2>1. SizeAt(lang)[d][o] = SizeWith(lang, o, SizeAt(lang)[d - 1])
    BY <1>1, SizeAtOf
  <2>2. QED
    BY <1>1, <2>1 DEF SizeWith, PartSize
<1>3. Len(sizes) = n
  BY <1>1
<1>4. PICK g : /\ Total(sizes) = g[n] /\ g[0] = 0
               /\ \A k \in 1 .. n : g[k] = g[k - 1] + PartSize(lang, d, o, k)
  <2>1. \A k \in 1 .. n : sizes[k] = PartSize(lang, d, o, k)
    OBVIOUS
  <2> HIDE DEF sizes
  <2>2. PICK g : /\ Total(sizes) = g[Len(sizes)] /\ g[0] = 0
                 /\ \A k \in 1 .. Len(sizes) : g[k] = g[k - 1] + sizes[k]
    BY <1>1, <1>3, TotalIs
  <2>3. QED
    BY <1>3, <2>1, <2>2
<1>5. PICK f : EndToEnd(ss, f) /\ SerializeAt(lang)[d][o] = Prefix(o) \o f[n]
  BY <1>0 DEF IsEncoded
<1>6. ss \in Seq(Seq(Byte)) /\ Len(ss) = n /\ Prefix(o) \in Seq(Byte)
  BY <1>0 DEF IsEncoded
<1>7. \A k \in 1 .. n : Sized(lang, o.type, d, PartSize(lang, d, o, k), ss[k])
  BY PartSized DEF Pieces
<1>8. \A k \in 1 .. n : Appended(f[k], f[k - 1], ss[k])
  BY <1>5, <1>6, EndToEndStep
<1> HIDE DEF ss, sizes, n
<1> DEFINE S == {k \in Nat : k <= n => f[k] \in Seq(Byte) /\ Sized(lang, o.type, d, g[k], f[k])}
<1>9. 0 \in S
  <2>1. f[0] = <<>>
    BY <1>5 DEF EndToEnd
  <2>2. f[0] \in Seq(Byte) /\ Len(f[0]) = 0
    BY <2>1, EmptySeq
  <2>3. QED
    BY <1>4, <2>2 DEF Sized
<1>10. ASSUME NEW k \in Nat, k \in S PROVE k + 1 \in S
  <2>1. CASE k + 1 <= n
    <3>1. k + 1 \in 1 .. n /\ (k + 1) - 1 = k /\ k <= n
      BY <1>1, <2>1
    <3>2. Sized(lang, o.type, d, g[k], f[k])
      BY <1>10, <3>1
    <3>3. Appended(f[k + 1], f[k], ss[k + 1])
      BY <1>8, <3>1
    <3>4. Sized(lang, o.type, d, PartSize(lang, d, o, k + 1), ss[k + 1])
      BY <1>7, <3>1
    <3>5. g[k + 1] = g[k] + PartSize(lang, d, o, k + 1)
      BY <1>4, <3>1
    <3>6. Sized(lang, o.type, d, g[k + 1], f[k + 1])
      <4> DEFINE more == PartSize(lang, d, o, k + 1)
                 x == Len(f[k])
                 y == Len(ss[k + 1])
                 z == Len(f[k + 1])
                 excused == lang = "python" /\ o.type \notin LayoutsWithout({Text})[d]
      <4>1. /\ g[k] \in Nat /\ g[k] <= x /\ (g[k] = x \/ excused)
            /\ more \in Nat /\ more <= y /\ (more = y \/ excused)
        BY <3>2, <3>4 DEF Sized
      <4>2. x \in Nat /\ y \in Nat /\ z = x + y
        BY <3>3 DEF Appended
      <4> HIDE DEF more, x, y, z, excused
      <4>3. g[k] + more \in Nat /\ g[k] + more <= z /\ (g[k] + more = z \/ excused)
        BY <4>1, <4>2
      <4>4. g[k + 1] = g[k] + more
        BY <3>5 DEF more
      <4>5. QED
        BY <4>3, <4>4 DEF Sized, z, excused
    <3>7. QED
      BY <3>3, <3>6 DEF Appended
  <2>2. CASE ~(k + 1 <= n)
    BY <2>2
  <2>3. QED
    BY <2>1, <2>2
<1> HIDE DEF S
<1>11. Nat \subseteq S
  BY <1>9, <1>10, SetInduction
<1>12. f[n] \in Seq(Byte) /\ Sized(lang, o.type, d, g[n], f[n])
  BY <1>1, <1>11 DEF S
<1>13. Len(SerializeAt(lang)[d][o]) = Len(Prefix(o)) + Len(f[n])
  BY <1>5, <1>6, <1>12, ConcatProperties
<1>14. Len(Prefix(o)) = IF o.type.kind = "vector" THEN LengthWidth ELSE 0
  BY <1>1, LengthBytesAre DEF Prefix, n
<1>15. SizeAt(lang)[d][o] = Len(Prefix(o)) + g[n]
  BY <1>2, <1>4, <1>14 DEF SizeOfParts
<1>16. Len(Prefix(o)) \in Nat /\ Len(f[n]) \in Nat
  BY <1>6, <1>12
<1>17. QED
  BY <1>12, <1>13, <1>15, <1>16 DEF Sized

LEMMA AllSized ==
    ASSUME NEW lang
    PROVE  \A d \in 0 .. Depth : \A o \in Objects[d] :
              Sized(lang, o.type, d, SizeAt(lang)[d][o], SerializeAt(lang)[d][o])
<1> DEFINE T(d) == \A o \in Objects[d] :
                      Sized(lang, o.type, d, SizeAt(lang)[d][o], SerializeAt(lang)[d][o])
           S == {d \in Nat : d <= Depth => T(d)}
<1>1. 0 \in S
  <2>1. \A o \in Objects[0] : o \in SimpleObjects /\ 0 \in 0 .. Depth
    BY ObjectsAre, DepthIsNatural
  <2>2. QED
    BY <2>1, SimpleSized
<1>2. ASSUME NEW e \in Nat, e \in S PROVE e + 1 \in S
  <2>1. SUFFICES ASSUME e + 1 <= Depth, NEW o \in Objects[e + 1]
                 PROVE  Sized(lang, o.type, e + 1, SizeAt(lang)[e + 1][o], SerializeAt(lang)[e + 1][o])
    OBVIOUS
  <2>2. e + 1 \in 0 .. Depth /\ (e + 1) - 1 = e /\ e <= Depth
    BY <2>1, DepthIsNatural
  <2>3. CASE o \in SimpleObjects
    BY <2>2, <2>3, SimpleSized
  <2>4. CASE IsComposite(e + 1, o)
    <3>1. o.value \in Seq(Objects[e])
      BY <2>2, <2>4 DEF IsComposite
    <3>2. T(e)
      BY <1>2, <2>2
    <3>3. \A i \in 1 .. Len(o.value) : o.value[i] \in Objects[e]
      BY <3>1, ElementOfSeq
    <3>4. \A i \in 1 .. Len(o.value) :
             Sized(lang, o.value[i].type, (e + 1) - 1, SizeAt(lang)[(e + 1) - 1][o.value[i]],
                   SerializeAt(lang)[(e + 1) - 1][o.value[i]])
      BY <2>2, <3>2, <3>3
    <3>5. QED
      BY <2>4, <3>4, CompositeSized
  <2>5. QED
    BY <2>2, <2>3, <2>4, ObjectCases
<1> HIDE DEF S
<1>3. Nat \subseteq S
  BY <1>1, <1>2, SetInduction
<1>4. QED
  BY <1>3, DepthIsNatural DEF S

-----------------------------------------------------------------------------
(* The buffer holds these bytes at an offset, as far as it goes.           *)
Holds(src, at, bytes) ==
    \A i \in 1 .. Len(bytes) : at + i <= Len(src) => src[at + i] = bytes[i]

(* What is made of a value that its reader cannot carry: some other one or, *)
(* by Python, none.                                                        *)
Spoilt(lang, next, read) ==
    (lang = "python" /\ read = Refused) \/ \E x : read = Read(x, next)

(* A value whose bytes end at next is read from a buffer that reaches that *)
(* far, unless it is foreign to its reader, and refused or excused from a  *)
(* shorter one.                                                            *)
ReadBack(lang, src, v, excused, foreign, next, read) ==
    \/ next <= Len(src) /\ (read = Read(v, next) \/ (foreign /\ Spoilt(lang, next, read)))
    \/ ~(next <= Len(src)) /\ (read = Refused \/ (excused /\ \E x : read = Read(x, next)))

Wide == {Number(w) : w \in Widths \ {1}}

Excused(lang, t, d) == lang = "cpp" /\ t \notin LayoutsWithout(Wide)[d]

Foreign(out, lang, o, d) == o \notin ObjectsOf(Intact(out, lang))[d]

(* What has only such strings as arrive has only such parts.               *)
LEMMA CarriedAre ==
    ASSUME NEW texts, NEW d \in 0 .. Depth, NEW o \in ObjectsOf(texts)[d]
    PROVE  /\ o.type = Text => o.value \in texts
           /\ o.type \notin Simple => d \in 1 .. Depth /\ o.value \in Seq(ObjectsOf(texts)[d - 1])
<1>1. CASE o \in SimpleObjectsOf(texts)
  <2>1. o.type \in Simple /\ (o.type = Text => o.value \in texts)
    BY <1>1 DEF SimpleObjectsOf
  <2>2. QED
    BY <2>1
<1>2. CASE o \notin SimpleObjectsOf(texts)
  <2>1. d # 0
    BY <1>2, ObjectsOfAre
  <2>2. d \in 1 .. Depth
    BY <2>1, DepthIsNatural
  <2>3. o \in Composites(Layouts[d], ObjectsOf(texts)[d - 1])
    BY <1>2, <2>2, ObjectsOfAre
  <2>4. o.type \notin Simple /\ o.value \in Seq(ObjectsOf(texts)[d - 1])
    BY <2>3 DEF Composites
  <2>5. o.type # Text
    BY <2>4 DEF Simple
  <2>6. QED
    BY <2>2, <2>4, <2>5
<1>3. QED
  BY <1>1, <1>2

LEMMA ReadsDiffer ==
    /\ ~Refused.ok
    /\ \A v, next : /\ Read(v, next).ok /\ Read(v, next).value = v
                    /\ Read(v, next).next = next
BY DEF Refused, Read

LEMMA ReadBackAs ==
    ASSUME NEW lang, NEW src, NEW v, NEW excused, NEW foreign, NEW next, NEW read, NEW t,
           ReadBack(lang, src, v, excused, foreign, next, read)
    PROVE  ReadBack(lang, src, Object(t, v), excused, foreign, next, As(t, read))
<1>1. read = Refused => As(t, read) = Refused
  BY ReadsDiffer DEF As
<1>2. \A x : read = Read(x, next) => As(t, read) = Read(Object(t, x), next)
  BY ReadsDiffer DEF As
<1>3. CASE next <= Len(src) /\ read = Read(v, next)
  BY <1>2, <1>3 DEF ReadBack
<1>4. CASE next <= Len(src) /\ foreign /\ Spoilt(lang, next, read)
  <2>1. Spoilt(lang, next, As(t, read))
    BY <1>1, <1>2, <1>4 DEF Spoilt
  <2>2. QED
    BY <1>4, <2>1 DEF ReadBack
<1>5. CASE ~(next <= Len(src)) /\ read = Refused
  BY <1>1, <1>5 DEF ReadBack
<1>6. CASE ~(next <= Len(src)) /\ excused /\ \E x : read = Read(x, next)
  BY <1>2, <1>6 DEF ReadBack
<1>7. QED
  BY <1>3, <1>4, <1>5, <1>6 DEF ReadBack

LEMMA HoldsBoth ==
    ASSUME NEW src, NEW at \in Nat, Len(src) \in Nat,
           NEW x \in Seq(Byte), NEW y \in Seq(Byte), Holds(src, at, x \o y)
    PROVE  Holds(src, at, x) /\ Holds(src, at + Len(x), y)
<1> DEFINE a == Len(x)
           b == Len(y)
           z == x \o y
<1>1. a \in Nat /\ b \in Nat
  OBVIOUS
<1>2. Len(z) = a + b
  BY ConcatProperties
<1>3. \A i \in 1 .. Len(z) : z[i] = IF i <= a THEN x[i] ELSE y[i - a]
  BY <1>2, ConcatProperties
<1>4. \A i \in 1 .. Len(z) : at + i <= Len(src) => src[at + i] = z[i]
  BY DEF Holds
<1> HIDE DEF a, b, z
<1>5. \A i \in 1 .. a : i \in 1 .. Len(z) /\ i <= a
  BY <1>1, <1>2
<1>6. \A i \in 1 .. b : /\ a + i \in 1 .. Len(z) /\ ~(a + i <= a) /\ (a + i) - a = i
                        /\ (at + a) + i = at + (a + i)
  BY <1>1, <1>2
<1>7. \A i \in 1 .. a : at + i <= Len(src) => src[at + i] = x[i]
  BY <1>3, <1>4, <1>5
<1>8. \A i \in 1 .. b : (at + a) + i <= Len(src) => src[(at + a) + i] = y[i]
  BY <1>3, <1>4, <1>6
<1>9. QED
  BY <1>7, <1>8 DEF Holds, a, b

LEMMA NumberBack ==
    ASSUME NEW lang, NEW src, Len(src) \in Nat, NEW at \in Nat, NEW bytes \in Seq(Byte),
           Holds(src, at, bytes)
    PROVE  ReadBack(lang, src, bytes, FALSE, FALSE, at + Len(bytes),
                    DeserializeNumber(Len(bytes), src, at))
<1> DEFINE w == Len(bytes)
<1>1. w \in Nat
  OBVIOUS
<1>2. CASE at + w <= Len(src)
  <2>1. \A i \in 1 .. w : at + i <= Len(src) /\ src[at + i] = bytes[i]
    <3>1. \A i \in 1 .. w : at + i <= Len(src)
      BY <1>1, <1>2
    <3>2. QED
      BY <3>1 DEF Holds
  <2>2. Copy(src, at, w) = [i \in 1 .. w |-> bytes[i]]
    BY <2>1 DEF Copy
  <2>3. Copy(src, at, w) = bytes
    BY <2>2
  <2>4. ~(at + w > Len(src))
    BY <1>1, <1>2
  <2> HIDE DEF w
  <2>5. DeserializeNumber(w, src, at) = Read(bytes, at + w)
    BY <2>3, <2>4 DEF DeserializeNumber
  <2>6. QED
    BY <1>2, <2>5 DEF ReadBack, w
<1>3. CASE ~(at + w <= Len(src))
  <2>1. at + w > Len(src)
    BY <1>1, <1>3
  <2> HIDE DEF w
  <2>2. DeserializeNumber(w, src, at) = Refused
    BY <2>1 DEF DeserializeNumber
  <2>3. QED
    BY <1>3, <2>2 DEF ReadBack, w
<1>4. QED
  BY <1>2, <1>3

(* The length in front of a string or a vector.                            *)
LEMMA LengthBack ==
    ASSUME NEW src, Len(src) \in Nat, NEW at \in Nat, NEW n \in Nat, FitsLength(n),
           Holds(src, at, LengthBytes(n))
    PROVE  LET size == DeserializeNumber(LengthWidth, src, at) IN
           \/ /\ at + LengthWidth <= Len(src)
              /\ size.ok /\ size.next = at + LengthWidth /\ LengthOf(size.value) = n
           \/ ~(at + LengthWidth <= Len(src)) /\ ~size.ok
<1> DEFINE size == DeserializeNumber(LengthWidth, src, at)
<1>1. /\ LengthBytes(n) \in Seq(Byte) /\ Len(LengthBytes(n)) = LengthWidth
      /\ LengthOf(LengthBytes(n)) = n
  BY LengthBytesAre
<1>2. ReadBack("cpp", src, LengthBytes(n), FALSE, FALSE, at + LengthWidth, size)
  BY <1>1, NumberBack
<1>3. \/ at + LengthWidth <= Len(src) /\ size = Read(LengthBytes(n), at + LengthWidth)
      \/ ~(at + LengthWidth <= Len(src)) /\ size = Refused
  BY <1>2 DEF ReadBack
<1>4. QED
  BY <1>1, <1>3, ReadsDiffer

LEMMA TextBack ==
    ASSUME NEW out, NEW lang, NEW src, Len(src) \in Nat, NEW at \in Nat,
           NEW v \in Seq(Byte), FitsLength(Len(v)), Holds(src, at, SerializeText(out, v))
    PROVE  ReadBack(lang, src, v, FALSE, v \notin Intact(out, lang),
                    at + Len(SerializeText(out, v)), DeserializeText(lang, src, at))
<1> DEFINE n == TextLength(out, v)
           kept == SubSeq(v, 1, n)
           size == DeserializeNumber(LengthWidth, src, at)
           next == at + LengthWidth
           text == DeserializeNumber(n, src, next)
           read == DeserializeText(lang, src, at)
<1>1. n \in Nat /\ FitsLength(n) /\ kept \in Seq(Byte) /\ Len(kept) = n
  BY TextLengthIs, TextKept
<1>2. LengthBytes(n) \in Seq(Byte) /\ Len(LengthBytes(n)) = LengthWidth
  BY <1>1, LengthBytesAre
<1>3. Len(SerializeText(out, v)) = LengthWidth + n
  BY SerializeTextIs
<1>4. Holds(src, at, LengthBytes(n)) /\ Holds(src, next, kept)
  <2>1. SerializeText(out, v) = LengthBytes(n) \o kept
    BY DEF SerializeText
  <2> HIDE DEF n, kept
  <2>2. QED
    BY <1>1, <1>2, <2>1, HoldsBoth
<1>5. \/ next <= Len(src) /\ size.ok /\ size.next = next /\ LengthOf(size.value) = n
      \/ ~(next <= Len(src)) /\ ~size.ok
  BY <1>1, <1>4, LengthBack
<1>6. next \in Nat /\ at + (LengthWidth + n) = next + n
  <2> HIDE DEF n
  <2>1. QED
    BY <1>1 DEF LengthWidth
<1>7. CASE next <= Len(src)
  <2>1. read = IF text.ok /\ lang = "python" /\ ~IsUtf8(text.value) THEN Refused ELSE text
    BY <1>5, <1>7 DEF DeserializeText
  <2>2. ReadBack(lang, src, kept, FALSE, FALSE, next + n, text)
    <3> HIDE DEF n, kept, next
    <3>1. ReadBack(lang, src, kept, FALSE, FALSE, next + Len(kept),
                   DeserializeNumber(Len(kept), src, next))
      BY <1>1, <1>4, <1>6, NumberBack
    <3>2. QED
      BY <1>1, <3>1
  <2>3. \/ next + n <= Len(src) /\ text = Read(kept, next + n)
        \/ ~(next + n <= Len(src)) /\ text = Refused
    BY <2>2 DEF ReadBack
  <2>4. v \in Intact(out, lang) => kept = v /\ (lang = "python" => IsUtf8(v))
    BY IntactIs
  <2> HIDE DEF n, kept, text, next, read
  <2>5. ReadBack(lang, src, v, FALSE, v \notin Intact(out, lang), next + n, read)
    <3>1. CASE next + n <= Len(src)
      <4>1. text = Read(kept, next + n) /\ text.ok /\ text.value = kept
        BY <2>3, <3>1, ReadsDiffer
      <4>2. CASE v \in Intact(out, lang)
        <5>1. read = Read(v, next + n)
          BY <2>1, <2>4, <4>1, <4>2
        <5>2. QED
          BY <3>1, <5>1 DEF ReadBack
      <4>3. CASE v \notin Intact(out, lang)
        <5>1. Spoilt(lang, next + n, read)
          BY <2>1, <4>1 DEF Spoilt
        <5>2. QED
          BY <3>1, <4>3, <5>1 DEF ReadBack
      <4>4. QED
        BY <4>2, <4>3
    <3>2. CASE ~(next + n <= Len(src))
      <4>1. text = Refused /\ ~text.ok
        BY <2>3, <3>2, ReadsDiffer
      <4>2. read = Refused
        BY <2>1, <4>1
      <4>3. QED
        BY <3>2, <4>2 DEF ReadBack
    <3>3. QED
      BY <3>1, <3>2
  <2>6. QED
    BY <1>3, <1>6, <2>5 DEF n, next, read
<1>8. CASE ~(next <= Len(src))
  <2>1. read = Refused
    BY <1>5, <1>8 DEF DeserializeText
  <2>2. ~(next + n <= Len(src))
    <3> HIDE DEF n, next
    <3>1. QED
      BY <1>1, <1>6, <1>8
  <2> HIDE DEF n, next, read
  <2>3. ReadBack(lang, src, v, FALSE, v \notin Intact(out, lang), next + n, read)
    BY <2>1, <2>2 DEF ReadBack
  <2>4. QED
    BY <1>3, <1>6, <2>3 DEF n, next, read
<1>9. QED
  BY <1>7, <1>8

(* How an object of depth d is read, wherever its bytes are.               *)
Readable(out, lang, src, d, o) ==
    \A at \in Nat : Holds(src, at, SerializeAt(out)[d][o]) =>
        ReadBack(lang, src, o, Excused(lang, o.type, d), Foreign(out, lang, o, d),
                 at + Len(SerializeAt(out)[d][o]), DeserializeAt(lang, src)[d][o.type][at])

LEMMA DeserializeAtOf ==
    ASSUME NEW lang, NEW src, NEW d \in 0 .. Depth, NEW t \in Layouts[d], NEW at \in Nat
    PROVE  DeserializeAt(lang, src)[d][t][at] =
              ReadWith(lang, src, t, DeserializeAt(lang, src)[d - 1], at)
<1>1. DeserializeAt(lang, src)[d] =
         [x \in Layouts[d] |-> [y \in Nat |->
            ReadWith(lang, src, x, DeserializeAt(lang, src)[d - 1], y)]]
  BY DeserializeAtIs
<1>2. QED
  BY <1>1

LEMMA Weaken ==
    ASSUME NEW lang, NEW src, NEW v, NEW next, NEW read, NEW excused, NEW foreign,
           ReadBack(lang, src, v, excused, foreign, next, read),
           NEW more, NEW others, excused => more, foreign => others
    PROVE  ReadBack(lang, src, v, more, others, next, read)
BY DEF ReadBack

LEMMA SimpleBack ==
    ASSUME NEW out, NEW lang, NEW src, Len(src) \in Nat,
           NEW d \in 0 .. Depth, NEW o \in Objects[d], o \in SimpleObjects
    PROVE  Readable(out, lang, src, d, o)
<1> DEFINE bytes == SerializeAt(out)[d][o]
<1>1. SUFFICES ASSUME NEW at \in Nat, Holds(src, at, bytes)
               PROVE  ReadBack(lang, src, o, Excused(lang, o.type, d), Foreign(out, lang, o, d),
                               at + Len(bytes), DeserializeAt(lang, src)[d][o.type][at])
  BY DEF Readable
<1>2. bytes = SerializeSimple(out, o) /\ bytes \in Seq(Byte)
  BY SerializeSimpleIs
<1>3. o = Object(o.type, o.value) /\ o.type \in Simple /\ o.value \in Seq(Byte)
  BY SimpleAre
<1> HIDE DEF bytes
<1>4. DeserializeAt(lang, src)[d][o.type][at] = As(o.type, DeserializeSimple(lang, o.type, src, at))
  BY <1>3, ObjectCases, DeserializeAtOf DEF ReadWith
<1> DEFINE foreign == Foreign(out, lang, o, d)
<1>5. ReadBack(lang, src, o.value, FALSE, foreign, at + Len(bytes),
               DeserializeSimple(lang, o.type, src, at))
  <2>1. CASE o.type = Text
    <3>1. FitsLength(Len(o.value))
      BY <2>1, SimpleAre
    <3>2. bytes = SerializeText(out, o.value)
      BY <1>2, <2>1 DEF SerializeSimple
    <3>3. ReadBack(lang, src, o.value, FALSE, o.value \notin Intact(out, lang),
                   at + Len(bytes), DeserializeText(lang, src, at))
      BY <1>1, <1>3, <3>1, <3>2, TextBack
    <3>4. o.value \notin Intact(out, lang) => foreign
      BY <2>1, CarriedAre DEF Foreign
    <3> HIDE DEF foreign
    <3>5. ReadBack(lang, src, o.value, FALSE, foreign, at + Len(bytes),
                   DeserializeText(lang, src, at))
      BY <3>3, <3>4, Weaken
    <3>6. QED
      BY <2>1, <3>5 DEF DeserializeSimple
  <2>2. CASE o.type # Text
    <3>1. PICK w \in Widths : o.type = Number(w) /\ Len(o.value) = w
      BY <2>2, SimpleAre
    <3>2. bytes = o.value /\ o.type.width = Len(bytes)
      BY <1>2, <2>2, <3>1 DEF SerializeSimple, Number
    <3>3. ReadBack(lang, src, bytes, FALSE, FALSE, at + Len(bytes),
                   DeserializeNumber(Len(bytes), src, at))
      BY <1>1, <1>2, NumberBack
    <3> HIDE DEF foreign
    <3>4. ReadBack(lang, src, bytes, FALSE, foreign, at + Len(bytes),
                   DeserializeNumber(Len(bytes), src, at))
      BY <3>3, Weaken
    <3>5. QED
      BY <2>2, <3>2, <3>4 DEF DeserializeSimple
  <2>3. QED
    BY <2>1, <2>2
<1> HIDE DEF foreign
<1>6. ReadBack(lang, src, Object(o.type, o.value), FALSE, foreign, at + Len(bytes),
               As(o.type, DeserializeSimple(lang, o.type, src, at)))
  BY <1>5, ReadBackAs
<1>7. ReadBack(lang, src, o, FALSE, foreign, at + Len(bytes),
               DeserializeAt(lang, src)[d][o.type][at])
  BY <1>3, <1>4, <1>6
<1>8. ReadBack(lang, src, o, Excused(lang, o.type, d), foreign, at + Len(bytes),
               DeserializeAt(lang, src)[d][o.type][at])
  BY <1>7 DEF ReadBack
<1>9. QED
  BY <1>8 DEF foreign

-----------------------------------------------------------------------------
(* One part after the other.                                               *)
NextPart(ts, read, k, before) ==
    IF ~before.ok THEN Refused
    ELSE LET part == read[ts[k]][before.next] IN
         IF ~part.ok THEN Refused
         ELSE Read(Append(before.value, part.value), part.next)

IsParts(ts, read, start, n, f) ==
    f = [k \in 0 .. n |->
          IF k = 0 THEN Read(<<>>, start)
          ELSE LET before == f[k - 1] IN
               IF ~before.ok THEN Refused
               ELSE LET part == read[ts[k]][before.next] IN
                    IF ~part.ok THEN Refused
                    ELSE Read(Append(before.value, part.value), part.next)]

LEMMA PartsExist ==
    ASSUME NEW ts, NEW read, NEW start
    PROVE  \A n \in Nat : \E f : IsParts(ts, read, start, n, f)
<1> DEFINE M(d, x) == NextPart(ts, read, d, x)
           S == {n \in Nat : \E f : f = [d \in 0 .. n |-> IF d = 0 THEN Read(<<>>, start) ELSE M(d, f[d - 1])]}
<1> HIDE DEF M
<1>1. 0 \in S
  <2> DEFINE f == [d \in 0 .. 0 |-> Read(<<>>, start)]
  <2>1. f = [d \in 0 .. 0 |-> IF d = 0 THEN Read(<<>>, start) ELSE M(d, f[d - 1])]
    OBVIOUS
  <2>2. QED
    BY <2>1
<1>2. ASSUME NEW m \in Nat, m \in S PROVE m + 1 \in S
  <2>1. PICK f : f = [d \in 0 .. m |-> IF d = 0 THEN Read(<<>>, start) ELSE M(d, f[d - 1])]
    BY <1>2
  <2> DEFINE h == [d \in 0 .. m + 1 |-> IF d = m + 1 THEN M(m + 1, f[m]) ELSE f[d]]
  <2>2. ASSUME NEW d \in 0 .. m + 1
        PROVE  h[d] = IF d = 0 THEN Read(<<>>, start) ELSE M(d, h[d - 1])
    <3>1. CASE d = m + 1
      <4>1. m \in 0 .. m + 1 /\ d # 0 /\ d - 1 = m /\ m # m + 1
        BY <3>1
      <4>2. h[d] = M(d, f[m]) /\ h[m] = f[m]
        BY <3>1, <4>1
      <4> HIDE DEF h
      <4>3. QED
        BY <3>1, <4>1, <4>2
    <3>2. CASE d # m + 1
      <4>1. d \in 0 .. m /\ h[d] = f[d]
        BY <3>2
      <4>2. f[d] = IF d = 0 THEN Read(<<>>, start) ELSE M(d, f[d - 1])
        BY <2>1, <4>1
      <4>3. d # 0 => d - 1 \in 0 .. m + 1 /\ d - 1 # m + 1
        BY <4>1
      <4>4. d # 0 => h[d - 1] = f[d - 1]
        BY <4>3
      <4> HIDE DEF h
      <4>5. QED
        BY <4>1, <4>2, <4>4
    <3>3. QED
      BY <3>1, <3>2
  <2>3. h = [d \in 0 .. m + 1 |-> h[d]]
    OBVIOUS
  <2> HIDE DEF h
  <2>4. h = [d \in 0 .. m + 1 |-> IF d = 0 THEN Read(<<>>, start) ELSE M(d, h[d - 1])]
    BY <2>2, <2>3
  <2>5. QED
    BY <2>4
<1> HIDE DEF S
<1>3. Nat \subseteq S
  BY <1>1, <1>2, SetInduction
<1>4. QED
  BY <1>3 DEF S, IsParts, M, NextPart

PartsRead(ts, read, start, g) ==
    /\ DeserializeParts(ts, read, start) = g[Len(ts)]
    /\ g[0] = Read(<<>>, start)
    /\ \A k \in 1 .. Len(ts) : g[k] = NextPart(ts, read, k, g[k - 1])

LEMMA PartsAre ==
    ASSUME NEW ts, Len(ts) \in Nat, NEW read, NEW start
    PROVE  \E g : PartsRead(ts, read, start, g)
<1> DEFINE n == Len(ts)
           g == CHOOSE h : IsParts(ts, read, start, n, h)
<1>1. DeserializeParts(ts, read, start) = g[n]
  BY DEF DeserializeParts, IsParts
<1>2. IsParts(ts, read, start, n, g)
  BY PartsExist
<1> HIDE DEF g
<1>3. g[0] = Read(<<>>, start) /\ \A k \in 1 .. n : g[k] = NextPart(ts, read, k, g[k - 1])
  <2>1. 0 \in 0 .. n /\ \A k \in 1 .. n : k \in 0 .. n /\ k # 0
    OBVIOUS
  <2>2. QED
    BY <1>2, <2>1 DEF IsParts, NextPart
<1>4. QED
  BY <1>1, <1>3 DEF PartsRead

(* If every part can be read wherever its bytes are, then so can all of    *)
(* them, end to end.  Without a part nothing is there to be refused.       *)
LEMMA PartsBack ==
    ASSUME NEW lang, NEW src, Len(src) \in Nat, NEW start \in Nat,
           NEW ss \in Seq(Seq(Byte)), NEW f, EndToEnd(ss, f), Holds(src, start, f[Len(ss)]),
           NEW T, NEW vs \in Seq(T), Len(vs) = Len(ss),
           NEW ts, Len(ts) = Len(ss), NEW read, NEW excused \in BOOLEAN,
           NEW foreign \in BOOLEAN,
           \A i \in 1 .. Len(ss) : \A at \in Nat : Holds(src, at, ss[i]) =>
               ReadBack(lang, src, vs[i], excused, foreign, at + Len(ss[i]), read[ts[i]][at])
    PROVE  ReadBack(lang, src, vs, Len(ss) = 0 \/ excused, foreign, start + Len(f[Len(ss)]),
                    DeserializeParts(ts, read, start))
<1> DEFINE n == Len(ss)
           Until(k) == start + Len(f[k])
           Values(k) == [i \in 1 .. k |-> vs[i]]
<1>1. n \in Nat /\ Len(ts) = n /\ Len(vs) = n
  OBVIOUS
<1>2. PICK g : /\ DeserializeParts(ts, read, start) = g[n]
               /\ g[0] = Read(<<>>, start)
               /\ \A k \in 1 .. n : g[k] = NextPart(ts, read, k, g[k - 1])
  <2>1. Len(ts) \in Nat
    BY <1>1
  <2>2. PICK g : PartsRead(ts, read, start, g)
    BY <2>1, PartsAre
  <2>3. QED
    BY <1>1, <2>2 DEF PartsRead
<1>3. \A k \in 1 .. n : Appended(f[k], f[k - 1], ss[k])
  BY EndToEndStep
<1>4. \A k \in 1 .. n : Within(ss, f, k, n)
  BY EndToEndHolds
<1>5. \A k \in 1 .. n : \A at \in Nat : Holds(src, at, ss[k]) =>
         ReadBack(lang, src, vs[k], excused, foreign, at + Len(ss[k]), read[ts[k]][at])
  OBVIOUS
<1>6. Holds(src, start, f[n])
  OBVIOUS
<1>7. f[0] = <<>>
  BY DEF EndToEnd
<1>8. \A k \in 1 .. n : vs[k] \in T
  BY <1>1
<1> DEFINE S == {k \in Nat : k <= n =>
                   /\ Len(f[k]) \in Nat
                   /\ ReadBack(lang, src, Values(k), k = 0 \/ excused, foreign, Until(k), g[k])}
<1> HIDE DEF n
<1>9. 0 \in S
  <2>1. Len(f[0]) = 0 /\ Until(0) = start
    BY <1>7
  <2>2. Values(0) = <<>>
    OBVIOUS
  <2>3. g[0] = Read(Values(0), Until(0))
    BY <1>2, <2>1, <2>2
  <2> HIDE DEF Values, Until
  <2>4. ReadBack(lang, src, Values(0), 0 = 0 \/ excused, foreign, Until(0), g[0])
    BY <2>3 DEF ReadBack
  <2>5. QED
    BY <2>1, <2>4
<1>10. ASSUME NEW k \in Nat, k \in S PROVE k + 1 \in S
  <2>1. CASE k + 1 <= n
    <3>1. k + 1 \in 1 .. n /\ (k + 1) - 1 = k /\ k <= n
      BY <1>1, <2>1
    <3>2. Len(f[k]) \in Nat /\ ReadBack(lang, src, Values(k), k = 0 \/ excused, foreign, Until(k), g[k])
      BY <1>10, <3>1
    <3>3. Appended(f[k + 1], f[k], ss[k + 1])
      BY <1>3, <3>1
    <3> DEFINE b == Len(ss[k + 1])
    <3>4. b \in Nat /\ Until(k) \in Nat /\ Until(k + 1) = Until(k) + b /\ Len(f[k + 1]) \in Nat
      <4> DEFINE a == Len(f[k])
                 c == Len(f[k + 1])
      <4>1. a \in Nat /\ b \in Nat /\ c \in Nat /\ c = a + b
        BY <3>3 DEF Appended
      <4> HIDE DEF a, b, c
      <4>2. start + a \in Nat /\ start + c = (start + a) + b
        BY <4>1
      <4>3. QED
        BY <4>1, <4>2 DEF a, c
    <3>5. Holds(src, Until(k), ss[k + 1])
      <4>1. Within(ss, f, k + 1, n)
        BY <1>4, <3>1
      <4> DEFINE a == Len(f[k])
                 c == Len(f[n])
      <4>2. a + b <= c /\ \A j \in 1 .. b : f[n][a + j] = ss[k + 1][j]
        BY <3>1, <4>1 DEF Within
      <4>3. c \in Nat
        BY <1>1 DEF EndToEnd, n
      <4>4. \A i \in 1 .. c : start + i <= Len(src) => src[start + i] = f[n][i]
        BY <1>6 DEF Holds
      <4>5. a \in Nat /\ b \in Nat
        BY <3>2, <3>4
      <4> HIDE DEF a, b, c
      <4>6. \A j \in 1 .. b : a + j \in 1 .. c /\ (start + a) + j = start + (a + j)
        BY <4>2, <4>3, <4>5
      <4>7. \A j \in 1 .. b : (start + a) + j <= Len(src) => src[(start + a) + j] = ss[k + 1][j]
        BY <4>2, <4>4, <4>6
      <4>8. QED
        BY <4>7 DEF Holds, a, b
    <3>6. ReadBack(lang, src, vs[k + 1], excused, foreign, Until(k + 1), read[ts[k + 1]][Until(k)])
      BY <1>5, <3>1, <3>4, <3>5
    <3>7. g[k + 1] = NextPart(ts, read, k + 1, g[k])
      BY <1>2, <3>1
    <3>8. Append(Values(k), vs[k + 1]) = Values(k + 1)
      <4>1. \A i \in 1 .. k + 1 : vs[i] \in T
        BY <1>1, <1>8, <3>1
      <4>2. Values(k) \in Seq(T) /\ Len(Values(k)) = k
        BY <4>1
      <4>3. QED
        BY <4>1, <4>2
    <3> DEFINE part == read[ts[k + 1]][Until(k)]
               now == g[k + 1]
               before == g[k]
               u == Until(k)
               w == Until(k + 1)
               x == Values(k)
    <3>9. u \in Nat /\ w \in Nat /\ u <= w /\ Len(src) \in Nat
      <4>1. u \in Nat /\ w = u + b /\ b \in Nat
        BY <3>4
      <4> HIDE DEF u, w, b
      <4>2. QED
        BY <4>1
    <3>10. before = Refused => now = Refused
      BY <3>7, ReadsDiffer DEF NextPart
    <3>11. \A y : before = Read(y, u) =>
             /\ part = Refused => now = Refused
             /\ \A z : part = Read(z, w) => now = Read(Append(y, z), w)
      <4> SUFFICES ASSUME NEW y, before = Read(y, u)
                   PROVE  /\ part = Refused => now = Refused
                          /\ \A z : part = Read(z, w) => now = Read(Append(y, z), w)
        OBVIOUS
      <4>1. before.ok /\ before.value = y /\ before.next = u
        BY ReadsDiffer
      <4> HIDE DEF u, w
      <4>2. now = IF ~part.ok THEN Refused ELSE Read(Append(y, part.value), part.next)
        BY <3>7, <4>1 DEF NextPart, u
      <4> HIDE DEF now, part, before
      <4>3. QED
        BY <4>2, ReadsDiffer
    <3> HIDE DEF part, now, before, u, w, x, b
    <3>12. \/ u <= Len(src) /\ (before = Read(x, u) \/ (foreign /\ Spoilt(lang, u, before)))
           \/ ~(u <= Len(src)) /\ (before = Refused \/ \E y : before = Read(y, u))
      BY <3>2 DEF ReadBack, u, x, before
    <3>13. \/ w <= Len(src) /\ (part = Read(vs[k + 1], w) \/ (foreign /\ Spoilt(lang, w, part)))
           \/ ~(w <= Len(src)) /\ (part = Refused \/ (excused /\ \E z : part = Read(z, w)))
      BY <3>6 DEF ReadBack, w, part, u
    <3>14. ReadBack(lang, src, Append(x, vs[k + 1]), excused, foreign, w, now)
      <4>1. CASE w <= Len(src)
        <5>1. u <= Len(src)
          BY <3>9, <4>1
        <5>2. CASE before = Read(x, u) /\ part = Read(vs[k + 1], w)
          <6>1. now = Read(Append(x, vs[k + 1]), w)
            BY <3>11, <5>2
          <6>2. QED
            BY <4>1, <6>1 DEF ReadBack
        <5>3. CASE ~(before = Read(x, u) /\ part = Read(vs[k + 1], w))
          <6>1. foreign
            BY <3>12, <3>13, <4>1, <5>1, <5>3
          <6>2. (lang = "python" /\ before = Refused) \/ \E y : before = Read(y, u)
            BY <3>12, <5>1 DEF Spoilt
          <6>3. (lang = "python" /\ part = Refused) \/ \E z : part = Read(z, w)
            BY <3>13, <4>1 DEF Spoilt
          <6>4. (lang = "python" /\ now = Refused) \/ \E z : now = Read(z, w)
            BY <3>10, <3>11, <6>2, <6>3
          <6>5. QED
            BY <4>1, <6>1, <6>4 DEF ReadBack, Spoilt
        <5>4. QED
          BY <5>2, <5>3
      <4>2. CASE ~(w <= Len(src))
        <5>1. CASE before = Refused
          BY <3>10, <4>2, <5>1 DEF ReadBack
        <5>2. CASE \E y : before = Read(y, u)
          <6>1. part = Refused \/ (excused /\ \E z : part = Read(z, w))
            BY <3>13, <4>2
          <6>2. now = Refused \/ (excused /\ \E z : now = Read(z, w))
            BY <3>11, <5>2, <6>1
          <6>3. QED
            BY <4>2, <6>2 DEF ReadBack
        <5>3. before = Refused \/ \E y : before = Read(y, u)
          BY <3>12 DEF Spoilt
        <5>4. QED
          BY <5>1, <5>2, <5>3
      <4>3. QED
        BY <4>1, <4>2
    <3>15. ReadBack(lang, src, Values(k + 1), excused, foreign, Until(k + 1), g[k + 1])
      BY <3>8, <3>14 DEF x, w, now
    <3>16. k + 1 # 0
      OBVIOUS
    <3> HIDE DEF Values, Until
    <3>17. ReadBack(lang, src, Values(k + 1), k + 1 = 0 \/ excused, foreign, Until(k + 1), g[k + 1])
      BY <3>15 DEF ReadBack
    <3>18. QED
      BY <3>4, <3>17 DEF Until
  <2>2. CASE ~(k + 1 <= n)
    BY <2>2
  <2>3. QED
    BY <2>1, <2>2
<1> HIDE DEF S
<1>11. Nat \subseteq S
  BY <1>9, <1>10, SetInduction
<1> HIDE DEF Values, Until
<1>12. ReadBack(lang, src, Values(n), n = 0 \/ excused, foreign, Until(n), g[n])
  BY <1>1, <1>11 DEF S
<1>13. Values(n) = vs
  BY <1>1 DEF Values
<1>14. QED
  BY <1>2, <1>12, <1>13 DEF n, Until

-----------------------------------------------------------------------------
(* The parts of a composite, once each of them can be read.                *)
LEMMA CompositeParts ==
    ASSUME NEW out, NEW lang, NEW src, Len(src) \in Nat, NEW d, NEW o \in Objects[d], IsComposite(d, o),
           \A i \in 1 .. Len(o.value) : Readable(out, lang, src, d - 1, o.value[i]),
           NEW f, EndToEnd(Pieces(out, d, o), f), NEW start \in Nat,
           Holds(src, start, f[Len(o.value)])
    PROVE  ReadBack(lang, src, o.value, Len(o.value) = 0 \/ Excused(lang, o.type, d), Foreign(out, lang, o, d),
                    start + Len(f[Len(o.value)]),
                    DeserializeParts(Parts(o.type, Len(o.value)),
                                     DeserializeAt(lang, src)[d - 1], start))
<1> DEFINE n == Len(o.value)
           ss == Pieces(out, d, o)
           ts == Parts(o.type, n)
           read == DeserializeAt(lang, src)[d - 1]
           excused == Excused(lang, o.type, d)
           foreign == Foreign(out, lang, o, d)
<1>0. IsEncoded(out, d, o)
  BY CompositeBytes
<1>1. n \in Nat /\ o.value \in Seq(Objects[d - 1]) /\ ts = [i \in 1 .. n |-> o.value[i].type]
  BY DEF IsComposite
<1>2. ss \in Seq(Seq(Byte)) /\ Len(ss) = n
  BY <1>0 DEF IsEncoded
<1>3. Len(ts) = n
  BY <1>1
<1>4. ASSUME NEW i \in 1 .. n, NEW at \in Nat, Holds(src, at, ss[i])
      PROVE  ReadBack(lang, src, o.value[i], excused, foreign, at + Len(ss[i]), read[ts[i]][at])
  <2> DEFINE p == o.value[i]
  <2>1. ss[i] = SerializeAt(out)[d - 1][p] /\ ts[i] = p.type
    BY <1>1 DEF Pieces
  <2>2. ReadBack(lang, src, p, Excused(lang, p.type, d - 1), Foreign(out, lang, p, d - 1),
                 at + Len(ss[i]), read[ts[i]][at])
    BY <1>4, <2>1 DEF Readable
  <2>3. Excused(lang, p.type, d - 1) => excused
    BY PartsWithout DEF Excused
  <2>4. Foreign(out, lang, p, d - 1) => foreign
    <3>1. d \in 0 .. Depth /\ o.type \notin Simple /\ DOMAIN o.value = 1 .. n
      BY DEF IsComposite
    <3>2. o \in ObjectsOf(Intact(out, lang))[d] => p \in ObjectsOf(Intact(out, lang))[d - 1]
      BY <3>1, CarriedAre, ElementOfSeq
    <3>3. QED
      BY <3>2 DEF Foreign
  <2> HIDE DEF p, ss, ts, read, excused, foreign
  <2>5. ReadBack(lang, src, p, excused, foreign, at + Len(ss[i]), read[ts[i]][at])
    BY <2>2, <2>3, <2>4, Weaken
  <2>6. QED
    BY <2>5 DEF p
<1>5. excused \in BOOLEAN /\ foreign \in BOOLEAN
  BY DEF Excused, Foreign
<1> HIDE DEF n, ss, ts, read, excused, foreign
<1>6. Holds(src, start, f[Len(ss)]) /\ EndToEnd(ss, f)
  BY <1>2 DEF n, ss
<1>7. Len(o.value) = Len(ss) /\ Len(ts) = Len(ss)
  BY <1>2, <1>3 DEF n
<1>8. ReadBack(lang, src, o.value, Len(ss) = 0 \/ excused, foreign, start + Len(f[Len(ss)]),
               DeserializeParts(ts, read, start))
  <2> DEFINE vs == o.value
             T == Objects[d - 1]
  <2>1. \A i \in 1 .. Len(ss) : \A at \in Nat : Holds(src, at, ss[i]) =>
           ReadBack(lang, src, vs[i], excused, foreign, at + Len(ss[i]), read[ts[i]][at])
    BY <1>2, <1>4
  <2>2. vs \in Seq(T) /\ Len(vs) = Len(ss) /\ Len(ts) = Len(ss) /\ ss \in Seq(Seq(Byte))
    BY <1>1, <1>2, <1>7
  <2> HIDE DEF vs, T
  <2>3. ReadBack(lang, src, vs, Len(ss) = 0 \/ excused, foreign, start + Len(f[Len(ss)]),
                 DeserializeParts(ts, read, start))
    BY <1>5, <1>6, <2>1, <2>2, PartsBack
  <2>4. QED
    BY <2>3 DEF vs
<1>9. QED
  BY <1>2, <1>8 DEF n, ss, ts, read, excused, foreign

(* Messages and arrays: always at least one part.                          *)
LEMMA MessageParts ==
    ASSUME NEW d, NEW o, IsComposite(d, o), o.type.kind # "vector"
    PROVE  /\ o.type.kind \in {"message", "array"}
           /\ Parts(o.type, 0) = Parts(o.type, Len(o.value))
           /\ Len(o.value) # 0
<1> DEFINE n == Len(o.value)
<1>1. n \in Nat /\ Parts(o.type, n) = [i \in 1 .. n |-> o.value[i].type]
  BY DEF IsComposite
<1>2. o.type \in MessagesOver(Layouts[d - 1]) \/ o.type \in ArraysOver(Layouts[d - 1])
  BY DEF IsComposite, VectorsOver
<1>3. CASE o.type \in MessagesOver(Layouts[d - 1])
  <2>1. /\ o.type.kind = "message" /\ o.type.fields \in Seq(Layouts[d - 1])
        /\ o.type.fields # <<>>
    BY <1>3 DEF MessagesOver
  <2>2. Parts(o.type, n) = o.type.fields /\ Parts(o.type, 0) = o.type.fields
    BY <2>1 DEF Parts
  <2>3. n # 0
    BY <1>1, <2>1, <2>2
  <2>4. QED
    BY <2>1, <2>2, <2>3
<1>4. CASE o.type \in ArraysOver(Layouts[d - 1])
  <2>1. o.type.kind = "array" /\ o.type.length \in Nat \ {0}
    BY <1>4 DEF ArraysOver
  <2>2. /\ Parts(o.type, n) = [i \in 1 .. o.type.length |-> o.type.of]
        /\ Parts(o.type, 0) = [i \in 1 .. o.type.length |-> o.type.of]
    BY <2>1 DEF Parts
  <2>3. 1 .. n = 1 .. o.type.length
    BY <1>1, <2>2
  <2>4. n # 0
    BY <2>1, <2>3
  <2>5. QED
    BY <2>1, <2>2, <2>4
<1>5. QED
  BY <1>2, <1>3, <1>4

LEMMA MessageBack ==
    ASSUME NEW out, NEW lang, NEW src, Len(src) \in Nat, NEW d, NEW o \in Objects[d], IsComposite(d, o),
           \A i \in 1 .. Len(o.value) : Readable(out, lang, src, d - 1, o.value[i]),
           o.type.kind # "vector",
           NEW at \in Nat, Holds(src, at, SerializeAt(out)[d][o])
    PROVE  ReadBack(lang, src, o.value, Excused(lang, o.type, d), Foreign(out, lang, o, d), at + Len(SerializeAt(out)[d][o]),
                    DeserializeComposite(lang, o.type, DeserializeAt(lang, src)[d - 1], src, at))
<1> DEFINE n == Len(o.value)
           inner == DeserializeAt(lang, src)[d - 1]
<1>0. IsEncoded(out, d, o)
  BY CompositeBytes
<1>1. PICK f : EndToEnd(Pieces(out, d, o), f) /\ SerializeAt(out)[d][o] = Prefix(o) \o f[n]
  BY <1>0 DEF IsEncoded
<1>2. f[n] \in Seq(Byte)
  <2>1. Len(Pieces(out, d, o)) = n /\ n \in Nat
    BY <1>0 DEF IsEncoded, IsComposite
  <2>2. QED
    BY <1>1, <2>1 DEF EndToEnd
<1>3. SerializeAt(out)[d][o] = f[n]
  BY <1>1, <1>2 DEF Prefix
<1>4. /\ o.type.kind \in {"message", "array"}
      /\ Parts(o.type, 0) = Parts(o.type, n) /\ n # 0
  BY MessageParts
<1>5. DeserializeComposite(lang, o.type, inner, src, at) =
         DeserializeParts(Parts(o.type, n), inner, at)
  BY <1>4 DEF DeserializeComposite
<1>6. ReadBack(lang, src, o.value, n = 0 \/ Excused(lang, o.type, d), Foreign(out, lang, o, d), at + Len(f[n]),
               DeserializeParts(Parts(o.type, n), inner, at))
  BY <1>1, <1>3, CompositeParts
<1> HIDE DEF n, inner
<1>7. QED
  BY <1>3, <1>4, <1>5, <1>6 DEF ReadBack, n, inner

(* Vectors.                                                                *)
LEMMA VectorIs ==
    ASSUME NEW d, NEW o, IsComposite(d, o), o.type.kind = "vector"
    PROVE  /\ o.type = Vector(o.type.of) /\ o.type.of \in Layouts[d - 1]
           /\ \A i \in 1 .. Len(o.value) : o.value[i].type = o.type.of
<1> DEFINE n == Len(o.value)
<1>1. n \in Nat /\ Parts(o.type, n) = [i \in 1 .. n |-> o.value[i].type]
  BY DEF IsComposite
<1>2. o.type \in VectorsOver(Layouts[d - 1])
  BY DEF IsComposite, MessagesOver, ArraysOver
<1>3. o.type = Vector(o.type.of) /\ o.type.of \in Layouts[d - 1]
  BY <1>2 DEF VectorsOver, Vector
<1>4. Parts(o.type, n) = [i \in 1 .. n |-> o.type.of]
  BY DEF Parts
<1>5. \A i \in 1 .. n : Parts(o.type, n)[i] = o.value[i].type
  BY <1>1
<1>6. \A i \in 1 .. n : Parts(o.type, n)[i] = o.type.of
  BY <1>4
<1>7. QED
  BY <1>3, <1>5, <1>6

LEMMA VectorBack ==
    ASSUME NEW out, NEW lang, NEW src, Len(src) \in Nat, NEW d, NEW o \in Objects[d], IsComposite(d, o),
           \A i \in 1 .. Len(o.value) : Readable(out, lang, src, d - 1, o.value[i]),
           o.type.kind = "vector", o.type.of.kind # "number",
           NEW at \in Nat, Holds(src, at, SerializeAt(out)[d][o])
    PROVE  ReadBack(lang, src, o.value, Excused(lang, o.type, d), Foreign(out, lang, o, d), at + Len(SerializeAt(out)[d][o]),
                    DeserializeComposite(lang, o.type, DeserializeAt(lang, src)[d - 1], src, at))
<1> DEFINE n == Len(o.value)
           inner == DeserializeAt(lang, src)[d - 1]
           size == DeserializeNumber(LengthWidth, src, at)
           next == at + LengthWidth
<1>0. IsEncoded(out, d, o)
  BY CompositeBytes
<1>1. PICK f : EndToEnd(Pieces(out, d, o), f) /\ SerializeAt(out)[d][o] = Prefix(o) \o f[n]
  BY <1>0 DEF IsEncoded
<1>2. n \in Nat /\ FitsLength(n) /\ Len(Pieces(out, d, o)) = n
  <2>1. n \in Nat /\ FitsLength(n)
    BY DEF IsComposite
  <2>2. Len(Pieces(out, d, o)) = n
    BY <1>0 DEF IsEncoded
  <2>3. QED
    BY <2>1, <2>2
<1>3. f[n] \in Seq(Byte) /\ Len(f[n]) \in Nat
  <2> HIDE DEF n
  <2>1. f[n] \in Seq(Byte)
    BY <1>1, <1>2 DEF EndToEnd
  <2> DEFINE x == f[n]
  <2> HIDE DEF x
  <2>2. x \in Seq(Byte) => Len(x) \in Nat
    OBVIOUS
  <2>3. QED
    BY <2>1, <2>2 DEF x
<1>4. /\ Prefix(o) = LengthBytes(n) /\ LengthBytes(n) \in Seq(Byte)
      /\ Len(LengthBytes(n)) = LengthWidth
  BY <1>2, LengthBytesAre DEF Prefix
<1>5. Len(SerializeAt(out)[d][o]) = LengthWidth + Len(f[n])
  <2> DEFINE x == LengthBytes(n)
             y == f[n]
  <2>1. x \in Seq(Byte) /\ y \in Seq(Byte) /\ SerializeAt(out)[d][o] = x \o y /\ Len(x) = LengthWidth
    BY <1>1, <1>3, <1>4
  <2> HIDE DEF x, y
  <2>2. Len(x \o y) = Len(x) + Len(y)
    BY <2>1, ConcatProperties
  <2>3. QED
    BY <2>1, <2>2 DEF y
<1>6. Holds(src, at, LengthBytes(n)) /\ Holds(src, next, f[n])
  BY <1>1, <1>3, <1>4, HoldsBoth
<1>7. \/ next <= Len(src) /\ size.ok /\ size.next = next /\ LengthOf(size.value) = n
      \/ ~(next <= Len(src)) /\ ~size.ok
  BY <1>2, <1>6, LengthBack
<1>8. DeserializeComposite(lang, o.type, inner, src, at) = DeserializeVector(o.type, inner, src, at)
  BY DEF DeserializeComposite
<1>9. next \in Nat /\ at + (LengthWidth + Len(f[n])) = next + Len(f[n])
  <2> DEFINE y == Len(f[n])
  <2>1. y \in Nat
    BY <1>3
  <2> HIDE DEF y, n
  <2>2. next \in Nat /\ at + (LengthWidth + y) = next + y
    BY <2>1 DEF LengthWidth
  <2>3. QED
    BY <2>2 DEF y
<1>10. CASE next <= Len(src)
  <2>1. DeserializeVector(o.type, inner, src, at) = DeserializeParts(Parts(o.type, n), inner, next)
    BY <1>7, <1>10 DEF DeserializeVector
  <2>2. ReadBack(lang, src, o.value, n = 0 \/ Excused(lang, o.type, d), Foreign(out, lang, o, d), next + Len(f[n]),
                 DeserializeParts(Parts(o.type, n), inner, next))
    BY <1>1, <1>6, <1>9, CompositeParts
  <2>3. n = 0 => next + Len(f[n]) <= Len(src)
    <3>1. f[0] = <<>>
      BY <1>1 DEF EndToEnd
    <3>2. n = 0 => Len(f[n]) = 0
      BY <3>1
    <3> HIDE DEF n, next
    <3>3. QED
      BY <1>9, <1>10, <3>2
  <2> HIDE DEF n, inner, next
  <2>4. ReadBack(lang, src, o.value, Excused(lang, o.type, d), Foreign(out, lang, o, d), next + Len(f[n]),
                 DeserializeParts(Parts(o.type, n), inner, next))
    BY <2>2, <2>3 DEF ReadBack
  <2>5. QED
    BY <1>5, <1>8, <1>9, <2>1, <2>4 DEF inner
<1>11. CASE ~(next <= Len(src))
  <2>1. DeserializeVector(o.type, inner, src, at) = Refused
    BY <1>7, <1>11 DEF DeserializeVector
  <2>2. ~(next + Len(f[n]) <= Len(src))
    <3> HIDE DEF n, next
    <3>1. QED
      BY <1>3, <1>9, <1>11
  <2>3. QED
    BY <1>5, <1>8, <1>9, <2>1, <2>2 DEF ReadBack
<1>12. QED
  BY <1>10, <1>11

-----------------------------------------------------------------------------
(* Vectors of numbers, copied as one block.                                *)
LEMMA Times ==
    ASSUME NEW w \in Widths, NEW k \in Nat
    PROVE  /\ w \in Nat /\ k * w \in Nat /\ k <= k * w
           /\ (k + 1) * w = k * w + w /\ 0 * w = 0
           /\ w = 1 => k * w = k
<1>1. CASE w = 1
  BY <1>1
<1>2. CASE w = 2
  BY <1>2
<1>3. CASE w = 4
  BY <1>3
<1>4. CASE w = 8
  BY <1>4
<1>5. QED
  BY <1>1, <1>2, <1>3, <1>4 DEF Widths

(* The i-th number of such a vector is w bytes, (i - 1) * w after the first. *)
LEMMA NumberPieces ==
    ASSUME NEW out, NEW d, NEW o \in Objects[d], IsComposite(d, o), NEW w \in Widths,
           o.type = Vector(Number(w)), NEW f, EndToEnd(Pieces(out, d, o), f)
    PROVE  /\ Len(f[Len(o.value)]) = Len(o.value) * w
           /\ \A i \in 1 .. Len(o.value) :
                 /\ o.value[i] = Object(Number(w), o.value[i].value)
                 /\ o.value[i].value \in Seq(Byte) /\ Len(o.value[i].value) = w
                 /\ \A j \in 1 .. w :
                       /\ (i - 1) * w + j \in 1 .. Len(f[Len(o.value)])
                       /\ f[Len(o.value)][(i - 1) * w + j] = o.value[i].value[j]
<1> DEFINE n == Len(o.value)
           ss == Pieces(out, d, o)
<1>0. IsEncoded(out, d, o)
  BY CompositeBytes
<1>1. n \in Nat /\ d - 1 \in 0 .. Depth /\ o.value \in Seq(Objects[d - 1])
  BY DEF IsComposite
<1>2. ss \in Seq(Seq(Byte)) /\ Len(ss) = n
  BY <1>0 DEF IsEncoded
<1>3. \A i \in 1 .. n : o.value[i].type = Number(w)
  <2>1. o.type.kind = "vector" /\ o.type.of = Number(w)
    BY DEF Vector
  <2>2. QED
    BY <2>1, VectorIs
<1>4. ASSUME NEW i \in 1 .. n
      PROVE  /\ o.value[i] = Object(Number(w), o.value[i].value)
             /\ o.value[i].value \in Seq(Byte) /\ Len(o.value[i].value) = w
             /\ ss[i] = o.value[i].value
  <2> DEFINE p == o.value[i]
  <2>1. p \in Objects[d - 1] /\ p.type = Number(w)
    BY <1>1, <1>3, ElementOfSeq
  <2>2. Number(w) \in Simple /\ Number(w) # Text /\ Number(w).width = w
    BY DEF Simple, Number, Text
  <2>3. p \in SimpleObjects
    <3>1. ~IsComposite(d - 1, p)
      BY <2>1, <2>2 DEF IsComposite
    <3>2. QED
      BY <1>1, <2>1, <3>1, ObjectCases
  <2>4. p = Object(p.type, p.value) /\ p.value \in Seq(Byte)
    BY <2>3, SimpleAre
  <2>5. Len(p.value) = w
    <3>1. Len(p.value) = p.type.width
      BY <2>1, <2>2, <2>3 DEF SimpleObjects, SimpleObjectsOf
    <3>2. QED
      BY <2>1, <2>2, <3>1
  <2>6. SerializeAt(out)[d - 1][p] = SerializeSimple(out, p)
    BY <1>1, <2>1, <2>3, SerializeSimpleIs
  <2>7. SerializeAt(out)[d - 1][p] = p.value
    BY <2>1, <2>2, <2>6 DEF SerializeSimple
  <2>8. ss[i] = SerializeAt(out)[d - 1][p]
    BY DEF Pieces
  <2>9. QED
    BY <2>1, <2>4, <2>5, <2>7, <2>8
<1>5. \A k \in 1 .. n : Appended(f[k], f[k - 1], ss[k])
  BY <1>2, EndToEndStep
<1>6. \A k \in 1 .. n : Within(ss, f, k, n)
  BY <1>2, EndToEndHolds
<1>7. f[0] = <<>>
  BY DEF EndToEnd
<1> HIDE DEF n, ss
<1> DEFINE S == {k \in Nat : k <= n => Len(f[k]) = k * w}
<1>8. 0 \in S
  <2>1. Len(f[0]) = 0
    BY <1>7
  <2>2. QED
    BY <2>1, Times
<1>9. ASSUME NEW k \in Nat, k \in S PROVE k + 1 \in S
  <2>1. CASE k + 1 <= n
    <3>1. k + 1 \in 1 .. n /\ (k + 1) - 1 = k /\ k <= n
      BY <1>1, <2>1
    <3>2. Len(f[k + 1]) = Len(f[k]) + Len(ss[k + 1])
      BY <1>5, <3>1 DEF Appended
    <3>3. Len(ss[k + 1]) = w /\ Len(f[k]) = k * w
      BY <1>4, <1>9, <3>1
    <3>4. (k + 1) * w = k * w + w
      BY Times
    <3>5. QED
      BY <3>2, <3>3, <3>4
  <2>2. CASE ~(k + 1 <= n)
    BY <2>2
  <2>3. QED
    BY <2>1, <2>2
<1> HIDE DEF S
<1>10. Nat \subseteq S
  BY <1>8, <1>9, SetInduction
<1>11. \A k \in 0 .. n : Len(f[k]) = k * w
  BY <1>1, <1>10 DEF S
<1>12. ASSUME NEW i \in 1 .. n, NEW j \in 1 .. w
       PROVE  (i - 1) * w + j \in 1 .. Len(f[n]) /\ f[n][(i - 1) * w + j] = o.value[i].value[j]
  <2>1. i - 1 \in 0 .. n /\ n \in 0 .. n
    BY <1>1
  <2>2. Len(f[i - 1]) = (i - 1) * w /\ Len(f[n]) = n * w
    BY <1>11, <2>1
  <2>3. ss[i] = o.value[i].value /\ Len(ss[i]) = w
    BY <1>4
  <2>4. Len(f[i - 1]) + w <= Len(f[n]) /\ f[n][Len(f[i - 1]) + j] = ss[i][j]
    BY <1>6, <2>3 DEF Within
  <2>5. (i - 1) * w \in Nat /\ n * w \in Nat /\ w \in Nat
    <3>1. \A k \in Nat : k * w \in Nat /\ w \in Nat
      BY Times
    <3>2. i - 1 \in Nat
      OBVIOUS
    <3>3. QED
      BY <1>1, <3>1, <3>2
  <2> DEFINE a == (i - 1) * w
             b == n * w
  <2>6. a \in Nat /\ b \in Nat /\ w \in Nat /\ a + w <= b
    BY <2>2, <2>4, <2>5
  <2> HIDE DEF a, b
  <2>7. a + j \in 1 .. b
    BY <2>6
  <2>8. QED
    BY <2>2, <2>3, <2>4, <2>7 DEF a, b
<1>13. Len(f[n]) = n * w
  BY <1>1, <1>11
<1>14. QED
  BY <1>4, <1>12, <1>13 DEF n

LEMMA NumberVectorBack ==
    ASSUME NEW out, NEW lang, NEW src, Len(src) \in Nat, NEW d, NEW o \in Objects[d], IsComposite(d, o),
           o.type.kind = "vector", o.type.of.kind = "number",
           NEW at \in Nat, Holds(src, at, SerializeAt(out)[d][o])
    PROVE  ReadBack(lang, src, o.value, Excused(lang, o.type, d), Foreign(out, lang, o, d), at + Len(SerializeAt(out)[d][o]),
                    DeserializeComposite(lang, o.type, DeserializeAt(lang, src)[d - 1], src, at))
<1> DEFINE n == Len(o.value)
           inner == DeserializeAt(lang, src)[d - 1]
           size == DeserializeNumber(LengthWidth, src, at)
           next == at + LengthWidth
<1>0. IsEncoded(out, d, o)
  BY CompositeBytes
<1>1. d \in 1 .. Depth /\ d - 1 \in 0 .. Depth /\ n \in Nat /\ FitsLength(n)
      /\ o.value \in Seq(Objects[d - 1])
  BY DEF IsComposite
<1>2. PICK w \in Widths : o.type = Vector(Number(w)) /\ o.type.of = Number(w)
  <2>1. o.type = Vector(o.type.of) /\ o.type.of \in Layouts[d - 1]
    BY VectorIs
  <2>2. o.type.of \in Simple
    <3>1. CASE d - 1 = 0
      BY <2>1, <3>1, LayoutsAre DEF Layouts
    <3>2. CASE d - 1 # 0
      <4>1. d - 1 \in 1 .. Depth
        BY <1>1, <3>2, DepthIsNatural
      <4>2. Layouts[d - 1] = Made({}, Layouts[(d - 1) - 1])
        BY <4>1, LayoutsAre DEF Layouts
      <4>3. QED
        BY <2>1, <4>2 DEF Made, MessagesOver, ArraysOver, VectorsOver
    <3>3. QED
      BY <3>1, <3>2
  <2>3. \E w \in Widths : o.type.of = Number(w)
    BY <2>2 DEF Simple, Text
  <2>4. QED
    BY <2>1, <2>3
<1>3. PICK f : EndToEnd(Pieces(out, d, o), f) /\ SerializeAt(out)[d][o] = Prefix(o) \o f[n]
  BY <1>0 DEF IsEncoded
<1>4. f[n] \in Seq(Byte)
  <2>1. Len(Pieces(out, d, o)) = n
    BY <1>0 DEF IsEncoded
  <2>2. QED
    <3>1. f \in [0 .. Len(Pieces(out, d, o)) -> Seq(Byte)]
      BY <1>3 DEF EndToEnd
    <3>2. n \in 0 .. Len(Pieces(out, d, o))
      BY <1>1, <2>1
    <3>3. QED
      BY <3>1, <3>2
<1>5. /\ Prefix(o) = LengthBytes(n) /\ LengthBytes(n) \in Seq(Byte)
      /\ Len(LengthBytes(n)) = LengthWidth
  BY <1>1, LengthBytesAre DEF Prefix
<1>6. /\ Len(f[n]) = n * w
      /\ \A i \in 1 .. n :
            /\ o.value[i] = Object(Number(w), o.value[i].value)
            /\ o.value[i].value \in Seq(Byte) /\ Len(o.value[i].value) = w
            /\ \A j \in 1 .. w : /\ (i - 1) * w + j \in 1 .. Len(f[n])
                                 /\ f[n][(i - 1) * w + j] = o.value[i].value[j]
  BY <1>2, <1>3, NumberPieces
<1>7. w \in Nat /\ n * w \in Nat /\ n <= n * w /\ (w = 1 => n * w = n)
  BY <1>1, Times
<1>8. Len(SerializeAt(out)[d][o]) = LengthWidth + n * w
  <2> DEFINE x == LengthBytes(n)
             y == f[n]
  <2>1. /\ x \in Seq(Byte) /\ y \in Seq(Byte) /\ SerializeAt(out)[d][o] = x \o y
        /\ Len(x) = LengthWidth /\ Len(y) = n * w
    BY <1>3, <1>4, <1>5, <1>6
  <2> HIDE DEF x, y
  <2>2. Len(x \o y) = Len(x) + Len(y)
    BY <2>1, ConcatProperties
  <2>3. QED
    BY <2>1, <2>2
<1>9. Holds(src, at, LengthBytes(n)) /\ Holds(src, next, f[n])
  <2> DEFINE x == LengthBytes(n)
             y == f[n]
  <2>1. x \in Seq(Byte) /\ y \in Seq(Byte) /\ Holds(src, at, x \o y) /\ Len(x) = LengthWidth
    BY <1>3, <1>4, <1>5
  <2> HIDE DEF x, y
  <2>2. Holds(src, at, x) /\ Holds(src, at + Len(x), y)
    BY <2>1, HoldsBoth
  <2>3. QED
    BY <2>1, <2>2 DEF x, y
<1>10. \/ next <= Len(src) /\ size.ok /\ size.next = next /\ LengthOf(size.value) = n
       \/ ~(next <= Len(src)) /\ ~size.ok
  BY <1>1, <1>9, LengthBack
<1>11. DeserializeComposite(lang, o.type, inner, src, at) = DeserializeNumberVector(lang, w, src, at)
  <2>1. o.type.of.width = w
    BY <1>2 DEF Number
  <2>2. QED
    BY <2>1 DEF DeserializeComposite
<1> DEFINE all == n * w
           block == [i \in 1 .. n |-> Object(Number(w), Copy(src, next + (i - 1) * w, w))]
           read == DeserializeNumberVector(lang, w, src, at)
<1>12. next \in Nat /\ at + (LengthWidth + all) = next + all
  <2>1. all \in Nat
    BY <1>7
  <2> HIDE DEF all
  <2>2. QED
    BY <2>1 DEF LengthWidth
<1>13. size.ok => read = IF next + (IF lang = "cpp" THEN n ELSE all) > Len(src) THEN Refused
                         ELSE Read(block, next + all)
  BY <1>10 DEF DeserializeNumberVector
<1>14. ~size.ok => read = Refused
  BY DEF DeserializeNumberVector
<1>15. next + all <= Len(src) => block = o.value
  <2>1. SUFFICES ASSUME next + all <= Len(src) PROVE block = o.value
    OBVIOUS
  <2>2. ASSUME NEW i \in 1 .. n PROVE block[i] = o.value[i]
    <3> DEFINE v == o.value[i].value
               a == (i - 1) * w
    <3>1. a \in Nat
      BY <1>7, Times
    <3>2. \A j \in 1 .. w : /\ a + j \in 1 .. all /\ f[n][a + j] = v[j]
      BY <1>6
    <3>3. \A j \in 1 .. all : next + j <= Len(src) => src[next + j] = f[n][j]
      BY <1>6, <1>9 DEF Holds
    <3>4. v \in Seq(Byte) /\ Len(v) = w /\ o.value[i] = Object(Number(w), v)
      BY <1>6
    <3> HIDE DEF v, a, all, next
    <3>5. ASSUME NEW j \in 1 .. w
          PROVE  (next + a) + j <= Len(src) /\ src[(next + a) + j] = v[j]
      <4>1. a + j \in 1 .. all /\ f[n][a + j] = v[j]
        BY <3>2
      <4>2. (next + a) + j = next + (a + j)
        BY <1>12, <1>7, <3>1
      <4>3. all \in Nat
        BY <1>7 DEF all
      <4>4. next + (a + j) <= Len(src)
        BY <1>12, <2>1, <4>1, <4>3
      <4>5. QED
        BY <3>3, <4>1, <4>2, <4>4
    <3>6. Copy(src, next + a, w) = [j \in 1 .. w |-> v[j]]
      BY <3>5 DEF Copy
    <3>7. Copy(src, next + a, w) = v
      BY <3>4, <3>6
    <3>8. block[i] = Object(Number(w), Copy(src, next + a, w))
      BY DEF a
    <3>9. QED
      BY <3>4, <3>7, <3>8
  <2>3. block = [i \in 1 .. n |-> block[i]]
    OBVIOUS
  <2>4. o.value = [i \in 1 .. n |-> o.value[i]]
    BY <1>1
  <2> HIDE DEF block
  <2>5. QED
    BY <2>2, <2>3, <2>4
<1>16. lang = "cpp" /\ w # 1 => Excused(lang, o.type, d)
  <2>1. w # 1 => Number(w) \in Wide
    BY DEF Wide
  <2>2. QED
    BY <1>1, <1>2, <2>1, VectorsWithout DEF Excused
<1>17. ReadBack(lang, src, o.value, Excused(lang, o.type, d), Foreign(out, lang, o, d), next + all, read)
  <2>1. all \in Nat /\ n <= all /\ (w = 1 => all = n)
    BY <1>7
  <2> HIDE DEF all, n, block, read, size, next
  <2>2. CASE next + all <= Len(src)
    <3>1. next <= Len(src) /\ ~(next + all > Len(src)) /\ ~(next + n > Len(src))
      BY <1>1, <1>12, <2>1, <2>2
    <3>2. read = Read(o.value, next + all)
      BY <1>10, <1>13, <1>15, <2>2, <3>1
    <3>3. QED
      BY <2>2, <3>2 DEF ReadBack
  <2>3. CASE ~(next + all <= Len(src)) /\ size.ok
    <3>1. CASE lang = "cpp" /\ ~(next + n > Len(src))
      <4>1. w # 1
        BY <1>1, <1>12, <2>1, <2>3, <3>1
      <4>2. read = Read(block, next + all)
        BY <1>13, <2>3, <3>1
      <4>3. QED
        BY <1>16, <2>3, <3>1, <4>1, <4>2 DEF ReadBack
    <3>2. CASE ~(lang = "cpp" /\ ~(next + n > Len(src)))
      <4>1. next + all > Len(src)
        BY <1>12, <2>1, <2>3
      <4>2. read = Refused
        BY <1>13, <2>3, <3>2, <4>1
      <4>3. QED
        BY <2>3, <4>2 DEF ReadBack
    <3>3. QED
      BY <3>1, <3>2
  <2>4. CASE ~(next + all <= Len(src)) /\ ~size.ok
    BY <1>14, <2>4 DEF ReadBack
  <2>5. QED
    BY <2>2, <2>3, <2>4
<1>18. QED
  BY <1>8, <1>11, <1>12, <1>17

-----------------------------------------------------------------------------
(* Every object can be read wherever its bytes are: by induction on the    *)
(* depth.                                                                  *)
LEMMA CompositeBack ==
    ASSUME NEW out, NEW lang, NEW src, Len(src) \in Nat, NEW d, NEW o \in Objects[d], IsComposite(d, o),
           \A i \in 1 .. Len(o.value) : Readable(out, lang, src, d - 1, o.value[i])
    PROVE  Readable(out, lang, src, d, o)
<1> DEFINE inner == DeserializeAt(lang, src)[d - 1]
<1>1. SUFFICES ASSUME NEW at \in Nat, Holds(src, at, SerializeAt(out)[d][o])
               PROVE  ReadBack(lang, src, o, Excused(lang, o.type, d), Foreign(out, lang, o, d), at + Len(SerializeAt(out)[d][o]),
                               DeserializeAt(lang, src)[d][o.type][at])
  BY DEF Readable
<1>2. d \in 0 .. Depth /\ o.type \notin Simple /\ o = Object(o.type, o.value)
  BY DEF IsComposite
<1>3. DeserializeAt(lang, src)[d][o.type][at] =
         As(o.type, DeserializeComposite(lang, o.type, inner, src, at))
  BY <1>2, ObjectCases, DeserializeAtOf DEF ReadWith
<1>4. ReadBack(lang, src, o.value, Excused(lang, o.type, d), Foreign(out, lang, o, d), at + Len(SerializeAt(out)[d][o]),
               DeserializeComposite(lang, o.type, inner, src, at))
  <2>1. CASE o.type.kind # "vector"
    BY <1>1, <2>1, MessageBack
  <2>2. CASE o.type.kind = "vector" /\ o.type.of.kind # "number"
    BY <1>1, <2>2, VectorBack
  <2>3. CASE o.type.kind = "vector" /\ o.type.of.kind = "number"
    BY <1>1, <2>3, NumberVectorBack
  <2>4. QED
    BY <2>1, <2>2, <2>3
<1> HIDE DEF inner
<1>5. ReadBack(lang, src, Object(o.type, o.value), Excused(lang, o.type, d), Foreign(out, lang, o, d),
               at + Len(SerializeAt(out)[d][o]),
               As(o.type, DeserializeComposite(lang, o.type, inner, src, at)))
  BY <1>4, ReadBackAs
<1>6. QED
  BY <1>2, <1>3, <1>5

LEMMA AllReadable ==
    ASSUME NEW out, NEW lang, NEW src, Len(src) \in Nat
    PROVE  \A d \in 0 .. Depth : \A o \in Objects[d] : Readable(out, lang, src, d, o)
<1> DEFINE T(d) == \A o \in Objects[d] : Readable(out, lang, src, d, o)
           S == {d \in Nat : d <= Depth => T(d)}
<1>1. 0 \in S
  <2>1. \A o \in Objects[0] : o \in SimpleObjects /\ 0 \in 0 .. Depth
    BY ObjectsAre, DepthIsNatural
  <2>2. QED
    BY <2>1, SimpleBack
<1>2. ASSUME NEW e \in Nat, e \in S PROVE e + 1 \in S
  <2>1. SUFFICES ASSUME e + 1 <= Depth, NEW o \in Objects[e + 1]
                 PROVE  Readable(out, lang, src, e + 1, o)
    OBVIOUS
  <2>2. e + 1 \in 0 .. Depth /\ (e + 1) - 1 = e /\ e <= Depth
    BY <2>1, DepthIsNatural
  <2>3. CASE o \in SimpleObjects
    BY <2>2, <2>3, SimpleBack
  <2>4. CASE IsComposite(e + 1, o)
    <3>1. o.value \in Seq(Objects[e])
      BY <2>2, <2>4 DEF IsComposite
    <3>2. T(e)
      BY <1>2, <2>2
    <3>3. \A i \in 1 .. Len(o.value) : o.value[i] \in Objects[e]
      BY <3>1, ElementOfSeq
    <3>4. \A i \in 1 .. Len(o.value) : Readable(out, lang, src, (e + 1) - 1, o.value[i])
      BY <2>2, <3>2, <3>3
    <3>5. QED
      BY <2>4, <3>4, CompositeBack
  <2>5. QED
    BY <2>2, <2>3, <2>4, ObjectCases
<1> HIDE DEF S
<1>3. Nat \subseteq S
  BY <1>1, <1>2, SetInduction
<1>4. QED
  BY <1>3, DepthIsNatural DEF S

-----------------------------------------------------------------------------
(* What the buffer's users see of all this.                                *)
MayMiss(lang, t) == lang = "cpp" /\ ~WideVectorFree(t)

LEMMA Written ==
    ASSUME NEW o \in Objects[Depth], NEW lang
    PROVE  /\ Serialize(lang, o) \in Seq(Byte) /\ Len(Serialize(lang, o)) \in Nat
           /\ SizeOf(lang, o) \in Nat /\ SizeOf(lang, o) <= Len(Serialize(lang, o))
           /\ \/ SizeOf(lang, o) = Len(Serialize(lang, o))
              \/ lang = "python" /\ ~TextVectorFree(o.type)
<1>1. Depth \in 0 .. Depth
  BY DepthIsNatural
<1>2. Serialize(lang, o) \in Seq(Byte)
  BY <1>1, SerializeType DEF Serialize
<1>3. Sized(lang, o.type, Depth, SizeOf(lang, o), Serialize(lang, o))
  BY <1>1, AllSized DEF SizeOf, Serialize
<1>4. Len(Serialize(lang, o)) \in Nat
  BY <1>2
<1>5. QED
  BY <1>2, <1>3, <1>4 DEF Sized, TextVectorFree

LEMMA ReadAgain ==
    ASSUME NEW o \in Objects[Depth], NEW out, NEW lang, NEW src, Len(src) \in Nat, NEW at \in Nat,
           Holds(src, at, Serialize(out, o))
    PROVE  ReadBack(lang, src, o, MayMiss(lang, o.type), Foreign(out, lang, o, Depth),
                    at + Len(Serialize(out, o)), Deserialize(lang, o.type, src, at))
<1>1. Depth \in 0 .. Depth
  BY DepthIsNatural
<1>2. Readable(out, lang, src, Depth, o)
  BY <1>1, AllReadable
<1>3. ReadBack(lang, src, o, Excused(lang, o.type, Depth), Foreign(out, lang, o, Depth),
               at + Len(Serialize(out, o)), Deserialize(lang, o.type, src, at))
  BY <1>2 DEF Readable, Serialize, Deserialize
<1>4. Excused(lang, o.type, Depth) = MayMiss(lang, o.type)
  BY DEF Excused, MayMiss, WideVectorFree, Wide
<1>5. QED
  BY <1>3, <1>4

-----------------------------------------------------------------------------
(* The inductive invariant.  The messages lie end to end in what was       *)
(* written, the buffer holds that as far as it goes, and the reader stands *)
(* at the end of one of them whatever it has made of those before.         *)
EndOf(k) == IF k = 0 THEN 0 ELSE written[k].end

TypeInv ==
    /\ writer \in Languages /\ cut \in BOOLEAN /\ refused \in BOOLEAN
    /\ buffer \in Seq(Byte) /\ announced \in Nat
    /\ written \in Seq([object : Objects[Depth], end : Nat])
    /\ \E T : received \in Seq(T)
    /\ Len(received) <= Len(written)

MessagesLieEndToEnd ==
    /\ \A k \in 1 .. Len(written) :
          /\ written[k].end = EndOf(k - 1) + Len(Serialize(writer, written[k].object))
          /\ written[k].end <= EndOf(Len(written))
          /\ Holds(buffer, EndOf(k - 1), Serialize(writer, written[k].object))
    /\ ~cut => Len(buffer) = EndOf(Len(written))

ReaderKeepsPlace ==
    /\ offset = EndOf(Len(received))
    /\ \A i \in 1 .. Len(received) :
          IF Arrived(i) THEN Carried(i) => received[i] = written[i].object
          ELSE MayMiss(reader, written[i].object.type)
    /\ refused =>
          /\ Len(received) < Len(written)
          /\ \/ ~Arrived(Len(received) + 1)
             \/ reader = "python" /\ ~Carried(Len(received) + 1)

SizesAdd ==
    /\ announced <= EndOf(Len(written))
    /\ \/ announced = EndOf(Len(written))
       \/ /\ writer = "python"
          /\ \E i \in 1 .. Len(written) : ~TextVectorFree(written[i].object.type)

IInv == TypeInv /\ MessagesLieEndToEnd /\ ReaderKeepsPlace /\ SizesAdd

LEMMA InitIInv == Init => IInv
<1> SUFFICES ASSUME Init PROVE IInv
  OBVIOUS
<1>1. /\ writer \in Languages /\ buffer = <<>> /\ announced = 0 /\ written = <<>>
      /\ cut = FALSE /\ offset = 0 /\ received = <<>> /\ refused = FALSE
  BY DEF Init
<1>2. TypeInv
  <2>1. received \in Seq({})
    BY <1>1, EmptySeq
  <2>2. buffer \in Seq(Byte) /\ written \in Seq([object : Objects[Depth], end : Nat])
    BY <1>1, EmptySeq
  <2>3. Len(received) <= Len(written)
    BY <1>1
  <2>4. QED
    BY <1>1, <2>1, <2>2, <2>3 DEF TypeInv
<1>3. Len(written) = 0 /\ Len(buffer) = 0 /\ Len(received) = 0
  BY <1>1
<1>4. EndOf(0) = 0 /\ \A k \in 1 .. 0 : FALSE
  BY DEF EndOf
<1>5. MessagesLieEndToEnd /\ ReaderKeepsPlace /\ SizesAdd
  BY <1>1, <1>3, <1>4 DEF MessagesLieEndToEnd, ReaderKeepsPlace, SizesAdd
<1>6. QED
  BY <1>2, <1>5 DEF IInv

(* A message behind those there already.                                   *)
LEMMA HoldsMore ==
    ASSUME NEW x \in Seq(Byte), NEW y \in Seq(Byte), NEW bytes \in Seq(Byte), NEW at \in Nat,
           Holds(x, at, bytes), at + Len(bytes) <= Len(x)
    PROVE  Holds(x \o y, at, bytes)
<1> DEFINE a == Len(x)
           b == Len(bytes)
           z == x \o y
<1>1. a \in Nat /\ b \in Nat /\ Len(y) \in Nat
  OBVIOUS
<1>2. Len(z) = a + Len(y) /\ \A i \in 1 .. Len(z) : i <= a => z[i] = x[i]
  BY ConcatProperties
<1>3. \A i \in 1 .. b : at + i <= a => x[at + i] = bytes[i]
  BY DEF Holds
<1> HIDE DEF a, b, z
<1>4. \A i \in 1 .. b : at + i <= a /\ at + i \in 1 .. Len(z)
  BY <1>1, <1>2 DEF a, b
<1>5. \A i \in 1 .. b : z[at + i] = bytes[i]
  BY <1>2, <1>3, <1>4
<1>6. QED
  BY <1>5 DEF Holds, b, z

LEMMA HoldsLast ==
    ASSUME NEW x \in Seq(Byte), NEW y \in Seq(Byte)
    PROVE  Holds(x \o y, Len(x), y)
<1> DEFINE a == Len(x)
           b == Len(y)
           z == x \o y
<1>1. a \in Nat /\ b \in Nat
  OBVIOUS
<1>2. Len(z) = a + b /\ \A i \in 1 .. Len(z) : z[i] = IF i <= a THEN x[i] ELSE y[i - a]
  BY ConcatProperties
<1> HIDE DEF a, b, z
<1>3. \A i \in 1 .. b : a + i \in 1 .. Len(z) /\ ~(a + i <= a) /\ (a + i) - a = i
  BY <1>1, <1>2
<1>4. \A i \in 1 .. b : z[a + i] = y[i]
  BY <1>2, <1>3
<1>5. QED
  BY <1>4 DEF Holds, a, b, z

LEMMA EndsAreNat ==
    TypeInv => /\ Len(written) \in Nat /\ Len(received) \in Nat /\ Len(buffer) \in Nat
               /\ \A k \in 0 .. Len(written) : EndOf(k) \in Nat
               /\ \A k \in 1 .. Len(written) : written[k].object \in Objects[Depth]
<1> SUFFICES ASSUME TypeInv
             PROVE  /\ Len(written) \in Nat /\ Len(received) \in Nat /\ Len(buffer) \in Nat
                    /\ \A k \in 0 .. Len(written) : EndOf(k) \in Nat
                    /\ \A k \in 1 .. Len(written) : written[k].object \in Objects[Depth]
  OBVIOUS
<1>1. Len(written) \in Nat /\ Len(buffer) \in Nat
  BY DEF TypeInv
<1>2. Len(received) \in Nat
  BY DEF TypeInv
<1>3. \A k \in 1 .. Len(written) : written[k] \in [object : Objects[Depth], end : Nat]
  BY ElementOfSeq DEF TypeInv
<1>4. \A k \in 0 .. Len(written) : k # 0 => k \in 1 .. Len(written)
  BY <1>1
<1>5. QED
  BY <1>1, <1>2, <1>3, <1>4 DEF EndOf

LEMMA WriteIInv == IInv /\ Write => IInv'
<1> SUFFICES ASSUME IInv, Write PROVE IInv'
  OBVIOUS
<1> USE DEF IInv
<1>1. /\ ~cut /\ received = <<>> /\ ~refused /\ Len(written) < Len(Outgoing)
      /\ writer' = writer /\ reader' = reader /\ cut' = cut /\ offset' = offset
      /\ received' = received /\ refused' = refused
  BY DEF Write
<1>2. PICK m \in Outgoing[Len(written) + 1] :
         /\ buffer' = buffer \o Serialize(writer, m)
         /\ announced' = announced + SizeOf(writer, m)
         /\ written' = Append(written, [object |-> m, end |-> Len(buffer) + Len(Serialize(writer, m))])
  BY DEF Write
<1> DEFINE n == Len(written)
           bytes == Serialize(writer, m)
           last == [object |-> m, end |-> Len(buffer) + Len(bytes)]
<1>3. n \in Nat /\ Len(buffer) \in Nat /\ \A k \in 0 .. n : EndOf(k) \in Nat
  BY EndsAreNat
<1>4. m \in Objects[Depth]
  <2>1. Len(Outgoing) \in Nat /\ \A i \in 1 .. Len(Outgoing) : \A x \in Outgoing[i] : x \in Objects[Depth]
    BY OutgoingAreObjects
  <2>2. Len(written) + 1 \in 1 .. Len(Outgoing)
    BY <1>1, <1>3, <2>1
  <2>3. QED
    BY <1>2, <2>1, <2>2
<1>5. bytes \in Seq(Byte) /\ Len(bytes) \in Nat
  BY <1>4, Written
<1>6. last \in [object : Objects[Depth], end : Nat]
  BY <1>3, <1>4, <1>5
<1>7. /\ written' \in Seq([object : Objects[Depth], end : Nat]) /\ Len(written') = n + 1
      /\ written'[n + 1] = last /\ \A k \in 1 .. n : written'[k] = written[k]
  <2> DEFINE W == [object : Objects[Depth], end : Nat]
  <2>1. written \in Seq(W) /\ last \in W /\ written' = Append(written, last)
    BY <1>2, <1>6 DEF TypeInv
  <2> HIDE DEF W, last
  <2>2. QED
    BY <2>1, AppendProperties DEF W
<1>8. Len(buffer) = EndOf(n) /\ Len(received) = 0 /\ Len(received') = 0
  BY <1>1 DEF MessagesLieEndToEnd
<1>9. /\ buffer \in Seq(Byte) /\ buffer' \in Seq(Byte)
      /\ Len(buffer') = Len(buffer) + Len(bytes)
  BY <1>2, <1>5, ConcatProperties DEF TypeInv
<1>10. /\ \A k \in 0 .. n : EndOf(k)' = EndOf(k)
       /\ EndOf(Len(written))' = Len(buffer) + Len(bytes)
  <2>1. \A k \in 0 .. n : k # 0 => k \in 1 .. n
    BY <1>3
  <2>2. n + 1 # 0
    BY <1>3
  <2> HIDE DEF n
  <2>3. ASSUME NEW k \in 0 .. n PROVE EndOf(k)' = EndOf(k)
    <3>1. k # 0 => written'[k] = written[k]
      BY <1>7, <2>1
    <3>2. QED
      BY <3>1 DEF EndOf
  <2>4. EndOf(Len(written))' = Len(buffer) + Len(bytes)
    BY <1>7, <2>2 DEF EndOf
  <2>5. QED
    BY <2>3, <2>4
<1> HIDE DEF n, bytes, last
<1>11. SizeOf(writer, m) \in Nat /\ SizeOf(writer, m) <= Len(bytes)
       /\ (SizeOf(writer, m) = Len(bytes) \/ (writer = "python" /\ ~TextVectorFree(m.type)))
  BY <1>4, Written DEF bytes
<1>12. TypeInv'
  <2>1. announced' \in Nat
    BY <1>2, <1>11 DEF TypeInv
  <2>2. Len(received)' <= Len(written)'
    BY <1>3, <1>7, <1>8
  <2>3. QED
    BY <1>1, <1>7, <1>9, <2>1, <2>2 DEF TypeInv
<1>13. MessagesLieEndToEnd'
  <2>1. ASSUME NEW k \in 1 .. n + 1
        PROVE  /\ written'[k].end = EndOf(k - 1)' + Len(Serialize(writer, written'[k].object))
               /\ written'[k].end <= EndOf(Len(written))'
               /\ Holds(buffer', EndOf(k - 1)', Serialize(writer, written'[k].object))
    <3>1. CASE k = n + 1
      <4>1. k - 1 = n /\ n \in 0 .. n
        BY <1>3, <3>1
      <4>2. EndOf(k - 1)' = Len(buffer)
        BY <1>8, <1>10, <4>1
      <4>3. written'[k].object = m /\ written'[k].end = Len(buffer) + Len(bytes)
        BY <1>7, <3>1 DEF last
      <4>4. Holds(buffer', Len(buffer), bytes)
        BY <1>2, <1>5, <1>9, HoldsLast DEF bytes
      <4>5. Len(buffer) + Len(bytes) <= EndOf(Len(written))'
        BY <1>3, <1>5, <1>10
      <4>6. QED
        BY <4>2, <4>3, <4>4, <4>5 DEF bytes
    <3>2. CASE k # n + 1
      <4>1. k \in 1 .. n /\ k - 1 \in 0 .. n
        BY <1>3, <3>2
      <4>2. written'[k] = written[k] /\ EndOf(k - 1)' = EndOf(k - 1) /\ EndOf(k - 1) \in Nat
        BY <1>3, <1>7, <1>10, <4>1
      <4> DEFINE b == Serialize(writer, written[k].object)
                 at == EndOf(k - 1)
      <4>3. written[k].end = at + Len(b) /\ written[k].end <= EndOf(n) /\ Holds(buffer, at, b)
        BY <4>1 DEF MessagesLieEndToEnd, n
      <4>4. b \in Seq(Byte) /\ Len(b) \in Nat
        BY <4>1, EndsAreNat, Written DEF n
      <4>5. at + Len(b) <= Len(buffer)
        BY <1>8, <4>3
      <4>6. Holds(buffer', at, b)
        BY <1>2, <1>5, <1>9, <4>2, <4>3, <4>4, <4>5, HoldsMore DEF bytes
      <4>7. written[k].end <= EndOf(Len(written))'
        <5>1. at + Len(b) \in Nat
          BY <4>2, <4>4
        <5> HIDE DEF at, b
        <5>2. QED
          BY <1>3, <1>5, <1>10, <4>3, <4>5, <5>1
      <4>8. QED
        BY <4>2, <4>3, <4>6, <4>7
    <3>3. QED
      BY <3>1, <3>2
  <2>2. Len(buffer)' = EndOf(Len(written))'
    BY <1>9, <1>10
  <2>3. QED
    BY <1>1, <1>7, <2>1, <2>2 DEF MessagesLieEndToEnd
<1>14. ReaderKeepsPlace'
  <2>1. offset' = EndOf(Len(received))'
    <3>1. offset = EndOf(0) /\ EndOf(0)' = EndOf(0)
      BY <1>3, <1>8, <1>10 DEF ReaderKeepsPlace
    <3>2. QED
      BY <1>1, <1>8, <3>1 DEF EndOf
  <2>2. \A i \in 1 .. Len(received') : FALSE
    BY <1>8
  <2>3. QED
    BY <1>1, <2>1, <2>2 DEF ReaderKeepsPlace
<1>15. SizesAdd'
  <2> DEFINE s == SizeOf(writer, m)
             l == Len(bytes)
             e == EndOf(n)
  <2>1. /\ announced' = announced + s /\ EndOf(Len(written))' = e + l
        /\ announced \in Nat /\ s \in Nat /\ e \in Nat /\ l \in Nat
        /\ announced <= e /\ s <= l
    BY <1>2, <1>3, <1>5, <1>8, <1>10, <1>11 DEF TypeInv, SizesAdd, n
  <2>2. s = l \/ (writer = "python" /\ ~TextVectorFree(m.type))
    BY <1>11
  <2>3. \/ announced = e
        \/ writer = "python" /\ \E i \in 1 .. n : ~TextVectorFree(written[i].object.type)
    BY DEF SizesAdd, n
  <2>4. n + 1 \in 1 .. n + 1 /\ \A i \in 1 .. n : i \in 1 .. n + 1
    BY <1>3
  <2>5. written'[n + 1].object = m
    BY <1>7 DEF last
  <2> DEFINE excused == writer' = "python"
                        /\ \E i \in 1 .. Len(written') : ~TextVectorFree(written'[i].object.type)
  <2>6. (announced = e /\ s = l) \/ excused
    BY <1>1, <1>7, <2>2, <2>3, <2>4, <2>5
  <2> HIDE DEF s, l, e, excused
  <2>7. announced' <= EndOf(Len(written))' /\ (announced' = EndOf(Len(written))' \/ excused)
    BY <2>1, <2>6
  <2>8. QED
    BY <2>7 DEF SizesAdd, excused
<1>16. QED
  BY <1>12, <1>13, <1>14, <1>15

LEMMA CutIInv == IInv /\ Cut => IInv'
<1> SUFFICES ASSUME IInv, Cut PROVE IInv'
  OBVIOUS
<1> USE DEF IInv
<1>1. /\ received = <<>> /\ ~refused /\ cut' = TRUE
      /\ writer' = writer /\ reader' = reader /\ announced' = announced /\ written' = written
      /\ offset' = offset /\ received' = received /\ refused' = refused
  BY DEF Cut
<1>2. PICK n \in 0 .. Len(buffer) - 1 : buffer' = SubSeq(buffer, 1, n)
  BY DEF Cut
<1>3. Len(buffer) \in Nat /\ buffer \in Seq(Byte)
  BY EndsAreNat DEF TypeInv
<1>4. n \in Nat /\ n <= Len(buffer) /\ n \in 0 .. Len(buffer)
  BY <1>2, <1>3
<1>5. /\ buffer' \in Seq(Byte) /\ Len(buffer') = n
      /\ \A i \in 1 .. n : buffer'[i] = buffer[i]
  <2>1. buffer' = [i \in 1 .. n |-> buffer[i]]
    BY <1>2, <1>3, <1>4
  <2>2. \A i \in 1 .. n : buffer[i] \in Byte
    BY <1>3, <1>4, ElementOfSeq
  <2>3. QED
    BY <1>4, <2>1, <2>2
<1>6. \A k : EndOf(k)' = EndOf(k)
  BY <1>1 DEF EndOf
<1>7. ASSUME NEW at \in Nat, NEW bytes \in Seq(Byte), Holds(buffer, at, bytes)
      PROVE  Holds(buffer', at, bytes)
  <2> DEFINE b == Len(bytes)
  <2>1. b \in Nat /\ \A i \in 1 .. b : at + i <= Len(buffer) => buffer[at + i] = bytes[i]
    BY <1>7 DEF Holds
  <2> HIDE DEF b
  <2>2. \A i \in 1 .. b : at + i <= n => at + i \in 1 .. n /\ at + i <= Len(buffer)
    BY <1>3, <1>4, <2>1
  <2>3. \A i \in 1 .. b : at + i <= n => buffer'[at + i] = bytes[i]
    BY <1>5, <2>1, <2>2
  <2>4. QED
    BY <1>5, <2>3 DEF Holds, b
<1>8. TypeInv'
  BY <1>1, <1>5 DEF TypeInv
<1>9. MessagesLieEndToEnd'
  <2>1. \A k \in 1 .. Len(written) : Holds(buffer', EndOf(k - 1), Serialize(writer, written[k].object))
    <3>1. SUFFICES ASSUME NEW k \in 1 .. Len(written)
                   PROVE  Holds(buffer', EndOf(k - 1), Serialize(writer, written[k].object))
      OBVIOUS
    <3>2. k - 1 \in 0 .. Len(written)
      BY EndsAreNat
    <3>3. EndOf(k - 1) \in Nat /\ Serialize(writer, written[k].object) \in Seq(Byte)
      BY <3>2, EndsAreNat, Written
    <3>4. Holds(buffer, EndOf(k - 1), Serialize(writer, written[k].object))
      BY DEF MessagesLieEndToEnd
    <3>5. QED
      BY <1>7, <3>3, <3>4
  <2>2. EndOf(Len(written))' = EndOf(Len(written))
    BY <1>1 DEF EndOf
  <2>3. QED
    BY <1>1, <1>6, <2>1, <2>2 DEF MessagesLieEndToEnd
<1>10. ReaderKeepsPlace'
  <2>1. Len(received) = 0 /\ Len(received') = 0
    BY <1>1
  <2>2. EndOf(Len(received))' = EndOf(Len(received))
    BY <1>1 DEF EndOf
  <2>3. \A i \in 1 .. Len(received') : FALSE
    BY <2>1
  <2>4. QED
    BY <1>1, <2>2, <2>3 DEF ReaderKeepsPlace
<1>11. SizesAdd'
  BY <1>1 DEF SizesAdd, EndOf
<1>12. QED
  BY <1>8, <1>9, <1>10, <1>11

LEMMA ReceiveIInv == IInv /\ Receive => IInv'
<1> SUFFICES ASSUME IInv, Receive PROVE IInv'
  OBVIOUS
<1> USE DEF IInv
<1> DEFINE r == Len(received)
           next == r + 1
           o == written[next].object
           read == Deserialize(reader, o.type, buffer, offset)
           bytes == Serialize(writer, o)
<1>1. /\ ~refused /\ r < Len(written)
      /\ writer' = writer /\ reader' = reader /\ buffer' = buffer /\ announced' = announced
      /\ written' = written /\ cut' = cut
  BY DEF Receive
<1>2. IF read.ok THEN received' = Append(received, read.value) /\ offset' = read.next
                      /\ refused' = refused
      ELSE refused' = TRUE /\ received' = received /\ offset' = offset
  BY DEF Receive
<1>3. /\ Len(written) \in Nat /\ r \in Nat /\ Len(buffer) \in Nat
      /\ \A k \in 0 .. Len(written) : EndOf(k) \in Nat
  BY EndsAreNat
<1>4. next \in 1 .. Len(written) /\ next - 1 = r /\ r \in 0 .. Len(written) /\ next # 0
  BY <1>1, <1>3
<1>5. o \in Objects[Depth] /\ offset = EndOf(r) /\ offset \in Nat
  BY <1>3, <1>4, EndsAreNat DEF ReaderKeepsPlace
<1>6. Holds(buffer, offset, bytes) /\ EndOf(next) = offset + Len(bytes)
  <2>1. /\ written[next].end = EndOf(next - 1) + Len(Serialize(writer, written[next].object))
        /\ Holds(buffer, EndOf(next - 1), Serialize(writer, written[next].object))
    BY <1>4 DEF MessagesLieEndToEnd
  <2>2. EndOf(next) = written[next].end
    BY <1>4 DEF EndOf
  <2>3. QED
    BY <1>4, <1>5, <2>1, <2>2
<1> DEFINE foreign == Foreign(writer, reader, o, Depth)
<1>7. ReadBack(reader, buffer, o, MayMiss(reader, o.type), foreign, EndOf(next), read)
  BY <1>3, <1>5, <1>6, ReadAgain
<1>8. Arrived(next) <=> EndOf(next) <= Len(buffer)
  BY <1>4 DEF Arrived, EndOf
<1>9. \A k : EndOf(k)' = EndOf(k)
  BY <1>1 DEF EndOf
<1>10. MessagesLieEndToEnd' /\ SizesAdd'
  BY <1>1 DEF MessagesLieEndToEnd, SizesAdd, EndOf
<1>11. \A i : (Arrived(i)' <=> Arrived(i)) /\ (Carried(i)' <=> Carried(i))
  BY <1>1 DEF Arrived, Carried
<1> Carried(next) <=> ~foreign
  BY DEF Carried, Foreign
<1> HIDE DEF r, o, read, bytes, foreign
<1>12. CASE read.ok
  <2>1. received' = Append(received, read.value) /\ offset' = read.next /\ refused' = refused
    BY <1>2, <1>12
  <2>2. /\ read.next = EndOf(next)
        /\ IF Arrived(next) THEN Carried(next) => read.value = o ELSE MayMiss(reader, o.type)
    BY <1>7, <1>8, <1>12, ReadsDiffer DEF ReadBack, Spoilt
  <2>3. PICK T : received \in Seq(T)
    BY DEF TypeInv
  <2> DEFINE U == T \cup {read.value}
  <2>4. received \in Seq(U) /\ read.value \in U
    <3>1. \A i \in 1 .. Len(received) : received[i] \in U
      BY <2>3, ElementOfSeq
    <3>2. received = [i \in 1 .. Len(received) |-> received[i]] /\ Len(received) \in Nat
      BY <2>3
    <3>3. QED
      BY <3>1, <3>2
  <2> HIDE DEF U
  <2>5. /\ received' \in Seq(U) /\ Len(received') = r + 1
        /\ received'[r + 1] = read.value /\ \A i \in 1 .. r : received'[i] = received[i]
    BY <2>1, <2>4, AppendProperties DEF r
  <2>6. TypeInv'
    <3>1. Len(received)' <= Len(written)'
      BY <1>1, <1>3, <2>5
    <3>2. QED
      BY <1>1, <2>1, <2>5, <3>1 DEF TypeInv
  <2>7. offset' = EndOf(Len(received))'
    <3>1. EndOf(Len(received))' = IF next = 0 THEN 0 ELSE written[next].end
      BY <1>1, <2>5 DEF EndOf
    <3>2. QED
      BY <2>1, <2>2, <3>1 DEF EndOf
  <2>8. ASSUME NEW i \in 1 .. r + 1
        PROVE  IF Arrived(i)' THEN Carried(i)' => received'[i] = written'[i].object
               ELSE MayMiss(reader', written'[i].object.type)
    <3>1. CASE i = r + 1
      <4>1. received'[i] = read.value /\ written'[i].object = o
        BY <1>1, <2>5, <3>1 DEF o
      <4>2. QED
        BY <1>1, <1>11, <2>2, <3>1, <4>1
    <3>2. CASE i # r + 1
      <4>1. i \in 1 .. r
        BY <1>3, <3>2
      <4>2. IF Arrived(i) THEN Carried(i) => received[i] = written[i].object
            ELSE MayMiss(reader, written[i].object.type)
        BY <4>1 DEF ReaderKeepsPlace, r
      <4>3. received'[i] = received[i]
        BY <2>5, <4>1
      <4>4. QED
        BY <1>1, <1>11, <4>2, <4>3
    <3>3. QED
      BY <3>1, <3>2
  <2>9. ReaderKeepsPlace'
    BY <1>1, <2>1, <2>5, <2>7, <2>8 DEF ReaderKeepsPlace
  <2>10. QED
    BY <1>10, <2>6, <2>9
<1>13. CASE ~read.ok
  <2>1. refused' = TRUE /\ received' = received /\ offset' = offset
    BY <1>2, <1>13
  <2>2. ~Arrived(next) \/ (reader = "python" /\ ~Carried(next))
    BY <1>7, <1>8, <1>13, ReadsDiffer DEF ReadBack, Spoilt
  <2>3. TypeInv'
    BY <1>1, <2>1 DEF TypeInv
  <2>4. EndOf(Len(received))' = EndOf(Len(received))
    BY <1>1, <2>1 DEF EndOf
  <2>5. \A i \in 1 .. Len(received') :
           IF Arrived(i)' THEN Carried(i)' => received'[i] = written'[i].object
           ELSE MayMiss(reader', written'[i].object.type)
    BY <1>1, <1>11, <2>1 DEF ReaderKeepsPlace
  <2>6. /\ Len(received') < Len(written')
        /\ \/ ~Arrived(Len(received) + 1)'
           \/ reader' = "python" /\ ~Carried(Len(received) + 1)'
    <3>1. /\ Arrived(Len(received) + 1)' <=> Arrived(Len(received) + 1)
          /\ Carried(Len(received) + 1)' <=> Carried(Len(received) + 1)
      BY <1>1, <2>1 DEF Arrived, Carried
    <3>2. QED
      BY <1>1, <2>1, <2>2, <3>1 DEF r
  <2>7. ReaderKeepsPlace'
    BY <2>1, <2>4, <2>5, <2>6 DEF ReaderKeepsPlace
  <2>8. QED
    BY <1>10, <2>3, <2>7
<1>14. QED
  BY <1>12, <1>13

THEOREM Invariant == Spec => []IInv
<1>1. Init => IInv
  BY InitIInv
<1>2. IInv /\ [Next]_vars => IInv'
  <2>1. CASE Write
    BY <2>1, WriteIInv
  <2>2. CASE Cut
    BY <2>2, CutIInv
  <2>3. CASE Receive
    BY <2>3, ReceiveIInv
  <2>4. ASSUME IInv, UNCHANGED vars PROVE IInv'
    <3>1. /\ writer' = writer /\ reader' = reader /\ buffer' = buffer
          /\ announced' = announced /\ written' = written /\ cut' = cut
          /\ offset' = offset /\ received' = received /\ refused' = refused
      BY <2>4 DEF vars
    <3>2. \A k : /\ EndOf(k)' = EndOf(k) /\ (Arrived(k)' <=> Arrived(k))
                 /\ Carried(k)' <=> Carried(k)
      BY <3>1 DEF EndOf, Arrived, Carried
    <3>3. /\ EndOf(Len(written))' = EndOf(Len(written))
          /\ EndOf(Len(received))' = EndOf(Len(received))
          /\ Arrived(Len(received) + 1)' <=> Arrived(Len(received) + 1)
          /\ Carried(Len(received) + 1)' <=> Carried(Len(received) + 1)
      BY <3>1 DEF EndOf, Arrived, Carried
    <3>4. TypeInv'
      BY <2>4, <3>1 DEF IInv, TypeInv
    <3>5. MessagesLieEndToEnd' /\ SizesAdd'
      BY <2>4, <3>1 DEF IInv, MessagesLieEndToEnd, SizesAdd, EndOf
    <3>6. ReaderKeepsPlace'
      BY <2>4, <3>1, <3>2, <3>3 DEF IInv, ReaderKeepsPlace
    <3>7. QED
      BY <3>4, <3>5, <3>6 DEF IInv
  <2>5. QED
    BY <2>1, <2>2, <2>3, <2>4 DEF Next
<1>3. QED
  BY <1>1, <1>2, PTL DEF Spec

-----------------------------------------------------------------------------
(* A message that has arrived whole and whose strings both languages carry *)
(* is read with the value it was written with, for any classes, values,    *)
(* languages and number of messages; any other is refused by Python alone, *)
(* and what has been read, whatever its value, was read up to where its    *)
(* bytes end: serialize() and deserialize() of                             *)
(* include/rix/msg/serialization.hpp and gui/rixmsg/message.py fit, but    *)
(* for strings beyond ASCII that Python writes and strings that are not    *)
(* UTF-8 that it reads.                                                    *)
THEOREM ReadAsWritten == Spec => []RoundTrip
<1>1. ASSUME IInv PROVE RoundTrip
  <2> USE <1>1 DEF IInv
  <2>1. DOMAIN received = 1 .. Len(received) /\ Len(received) \in Nat
    BY DEF TypeInv
  <2>2. \A i \in DOMAIN received : Arrived(i) /\ Carried(i) => received[i] = written[i].object
    BY <2>1 DEF ReaderKeepsPlace
  <2>3. refused => \/ ~Arrived(Len(received) + 1)
                   \/ reader = "python" /\ ~Carried(Len(received) + 1)
    BY DEF ReaderKeepsPlace
  <2>4. received # <<>> => offset = written[Len(received)].end
    <3>1. received # <<>> => Len(received) # 0
      BY DEF TypeInv
    <3>2. QED
      BY <3>1 DEF ReaderKeepsPlace, EndOf
  <2>5. QED
    BY <2>2, <2>3, <2>4 DEF RoundTrip
<1>2. QED
  BY <1>1, Invariant, PTL

(* What size() announces is what serialize() writes; only Python's, for a  *)
(* vector of strings (gui/rixmsg/message.py), is less.                     *)
THEOREM SizesExact == Spec => []SizesAreExact
<1>1. ASSUME IInv PROVE SizesAreExact
  <2> USE <1>1 DEF IInv
  <2>1. DOMAIN written = 1 .. Len(written)
    BY DEF TypeInv
  <2>2. /\ ~cut => Len(buffer) = EndOf(Len(written))
        /\ announced \in Nat /\ Len(buffer) \in Nat
    BY EndsAreNat DEF TypeInv, MessagesLieEndToEnd
  <2>3. /\ announced <= EndOf(Len(written))
        /\ \/ announced = EndOf(Len(written))
           \/ /\ writer = "python"
              /\ \E i \in DOMAIN written : ~TextVectorFree(written[i].object.type)
    BY <2>1 DEF SizesAdd
  <2> DEFINE excused == writer = "python"
                        /\ \E i \in DOMAIN written : ~TextVectorFree(written[i].object.type)
  <2>4. ~cut => announced = Len(buffer) \/ (announced < Len(buffer) /\ excused)
    <3> HIDE DEF excused
    <3>1. announced = EndOf(Len(written)) \/ excused
      BY <2>3 DEF excused
    <3>2. QED
      BY <2>2, <2>3, <3>1
  <2>5. QED
    BY <2>4 DEF SizesAreExact
<1>2. QED
  BY <1>1, Invariant, PTL

(* A message whose last bytes are missing is refused, but by the C++       *)
(* reader of a vector of numbers wider than a byte, whose                  *)
(* deserialize_number_vector compares elements with bytes.                 *)
THEOREM CutsRefused == Spec => []CutMessagesAreRefused
<1>1. ASSUME IInv PROVE CutMessagesAreRefused
  <2>1. DOMAIN received = 1 .. Len(received)
    BY <1>1 DEF IInv, TypeInv
  <2>2. QED
    BY <1>1, <2>1 DEF IInv, ReaderKeepsPlace, CutMessagesAreRefused, MayMiss
<1>2. QED
  BY <1>1, Invariant, PTL
=============================================================================
