--------------------------- MODULE MessageBuffer ----------------------------
(***************************************************************************)
(* A buffer that one program fills with messages and another one reads     *)
(* back: serialize() appends at an offset that deserialize() later         *)
(* follows, as core/common.hpp does with an Operation and the message it   *)
(* announces. The buffer may reach the reader without its end, and the     *)
(* reader may be written in the other language.                            *)
(*                                                                         *)
(* A program holds only strings its language has, so a Python writer takes *)
(* from Outgoing what has no others.                                       *)
(***************************************************************************)
EXTENDS Messages

CONSTANT Outgoing    \* Outgoing[i]: the messages the writer may put i-th

ASSUME OutgoingAreObjects ==
    /\ Len(Outgoing) \in Nat
    /\ \A i \in 1 .. Len(Outgoing) : \A m \in Outgoing[i] : m \in Objects[Depth]

VARIABLES
    writer, reader,   \* the languages of the two programs
    buffer,           \* the bytes
    announced,        \* the sum of size() over the messages written
    written,          \* the messages, each with the offset it ends at
    cut,              \* has the buffer lost its end?
    offset,           \* where the reader is
    received,         \* the values it has read
    refused           \* has a deserialize() failed?

vars == <<writer, reader, buffer, announced, written, cut, offset, received,
          refused>>

Init ==
    /\ writer \in Languages /\ reader \in Languages
    /\ buffer = <<>> /\ announced = 0 /\ written = <<>> /\ cut = FALSE
    /\ offset = 0 /\ received = <<>> /\ refused = FALSE

(* msg.size() and msg.serialize(buffer, offset), the offset at the end. *)
Write ==
    /\ ~cut /\ received = <<>> /\ ~refused
    /\ Len(written) < Len(Outgoing)
    /\ \E m \in Outgoing[Len(written) + 1] :
         LET bytes == Serialize(writer, m) IN
         /\ m \in ObjectsOf(TextsOf(writer))[Depth]
         /\ buffer' = buffer \o bytes
         /\ announced' = announced + SizeOf(writer, m)
         /\ written' = Append(written, [object |-> m, end |-> Len(buffer) + Len(bytes)])
    /\ UNCHANGED <<writer, reader, cut, offset, received, refused>>

(* Only the first n bytes arrive. *)
Cut ==
    /\ ~cut /\ received = <<>> /\ ~refused
    /\ \E n \in 0 .. Len(buffer) - 1 : buffer' = SubSeq(buffer, 1, n)
    /\ cut' = TRUE
    /\ UNCHANGED <<writer, reader, announced, written, offset, received, refused>>

(* msg.deserialize(buffer, size, offset): the reader knows from the topic or
   the opcode what comes next.                                              *)
Receive ==
    /\ ~refused /\ Len(received) < Len(written)
    /\ LET next == Len(received) + 1
           read == Deserialize(reader, written[next].object.type, buffer, offset)
       IN IF read.ok
          THEN /\ received' = Append(received, read.value)
               /\ offset' = read.next
               /\ UNCHANGED refused
          ELSE /\ refused' = TRUE
               /\ UNCHANGED <<received, offset>>
    /\ UNCHANGED <<writer, reader, buffer, announced, written, cut>>

Next == Write \/ Cut \/ Receive

Spec == Init /\ [][Next]_vars

-----------------------------------------------------------------------------

Arrived(i) == written[i].end <= Len(buffer)

(* Are all its strings among those that arrive as they were written? *)
Carried(i) == written[i].object \in ObjectsOf(Intact(writer, reader))[Depth]

(* What was written is what is read, whichever languages the two programs are
   written in: a message that has arrived whole is not refused, it is read
   with the value it was written with, and reading stops where its bytes do,
   so that the next one is found.
   The exception is a string that Python cannot carry, one beyond ASCII when
   Python writes it and one that is not UTF-8 when Python reads it
   (gui/rixmsg/message.py:220 and 553).  Its message is read with another
   value or, by Python alone, refused; but once read it is no different:
   reading stops where its bytes do and what comes after it is unharmed.    *)
RoundTrip ==
    /\ \A i \in DOMAIN received :
          Arrived(i) /\ Carried(i) => received[i] = written[i].object
    /\ refused => \/ ~Arrived(Len(received) + 1)
                  \/ reader = "python" /\ ~Carried(Len(received) + 1)
    /\ received # <<>> /\ Arrived(Len(received)) =>
         offset = written[Len(received)].end

(* size(), which sizes the buffer serialize() fills without a bound and the
   length prefix the reader waits for, is the number of bytes serialize()
   writes; only Python's, for a vector of strings, is less.                 *)
SizesAreExact ==
    ~cut => \/ announced = Len(buffer)
            \/ /\ writer = "python" /\ announced < Len(buffer)
               /\ \E i \in DOMAIN written : ~TextVectorFree(written[i].object.type)

(* A message whose last bytes are missing is refused.  The exception is the
   C++ reader's, and only for a vector of numbers wider than a byte.        *)
CutMessagesAreRefused ==
    \A i \in DOMAIN received :
        Arrived(i) \/ (reader = "cpp" /\ ~WideVectorFree(written[i].object.type))

(* deserialize_number_vector as include/rix/msg/serialization.hpp:373 has it:
   false if the bytes needed are more than the bytes available.             *)
ShortBuffersAreRefused == \A i \in DOMAIN received : Arrived(i)
=============================================================================
