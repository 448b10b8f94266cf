----------------------- MODULE TransformBuffer_proofs -----------------------
(***************************************************************************)
(* The properties of TransformBuffer, for any sets of instants, transforms *)
(* and durations and so for buffers of any length.  The argument looks at  *)
(* a deque only through its content and its ends: InsertIntoProperties     *)
(* says what one insertion does to them, and the four state properties     *)
(* together are inductive.  The lemmas on deques stand beside those on the *)
(* graphs that own them.                                                   *)
(***************************************************************************)
EXTENDS TransformBuffer, FrameTree_proofs

IInv == TypeOK /\ Sorted /\ LatestRetained /\ WindowFaithful

(* The type invariant in the terms of the lemmas on deques.                *)
LEMMA BufferIsDeque ==
    ASSUME TypeOK
    PROVE  /\ buffer \in Seq(StampedBy(Transforms))
           /\ duration \in Int
           /\ \A e \in Content(buffer) : /\ e.stamp \in Instants
                                         /\ e.stamp \in Int
                                         /\ e.transform \in Transforms
                                         /\ e = Entry(e.stamp, e.transform)
<1>1. Entries \subseteq StampedBy(Transforms)
  BY InstantsAreIntegers DEF Entries, StampedBy
<1>2. buffer \in Seq(StampedBy(Transforms))
  BY <1>1, SeqMonotonic DEF TypeOK
<1>3. duration \in Int
  BY DurationsAreIntegers DEF TypeOK
<1>4. ASSUME NEW e \in Content(buffer) PROVE e \in Entries
  <2>1. PICK i \in DOMAIN buffer : e = buffer[i]
    BY DEF Content
  <2>2. i \in 1 .. Len(buffer)
    BY <2>1 DEF TypeOK
  <2>3. QED
    BY <2>1, <2>2, ElementOfSeq DEF TypeOK
<1>5. ASSUME NEW e \in Entries
      PROVE  /\ e.stamp \in Instants
             /\ e.stamp \in Int
             /\ e.transform \in Transforms
             /\ e = Entry(e.stamp, e.transform)
  <2>1. e.stamp \in Instants /\ e.transform \in Transforms
    BY DEF Entries
  <2>2. e = Entry(e.stamp, e.transform)
    BY DEF Entries, Entry
  <2>3. QED
    BY <2>1, <2>2, InstantsAreIntegers
<1>6. QED
  BY <1>2, <1>3, <1>4, <1>5

(* WindowFaithful, read off the content.                                   *)
LEMMA WindowFaithfulByContent ==
    WindowFaithful <=>
        /\ \A e \in Content(buffer) :
              e.stamp \in DOMAIN written /\ e.transform = written[e.stamp]
        /\ ~widened =>
              \A s \in DOMAIN written \ Stamps(buffer) :
                  /\ duration > 0
                  /\ s < Newest(buffer).stamp - duration
                  /\ s < Oldest(buffer).stamp
BY DEF WindowFaithful, Content

-----------------------------------------------------------------------------

(* What an Insert step does to the buffer and to the history.              *)
LEMMA InsertStep ==
    ASSUME IInv, NEW stamp \in Instants, NEW transform \in Transforms,
           Insert(stamp, transform)
    PROVE  LET offered == {e \in Content(buffer) : e.stamp # stamp}
                             \cup {Entry(stamp, transform)}
           IN  /\ buffer' \in Seq(StampedBy(Transforms))
               /\ Len(buffer') >= 1
               /\ StrictlySorted(buffer')
               /\ Newest(buffer') \in offered
               /\ \A e \in offered : e.stamp <= Newest(buffer').stamp
               /\ Content(buffer') = {e \in offered : \/ duration <= 0
                                        \/ e.stamp >= Newest(buffer').stamp - duration}
               /\ DOMAIN written' = DOMAIN written \cup {stamp}
               /\ \A s \in DOMAIN written' :
                     written'[s] = IF s = stamp THEN transform ELSE written[s]
<1>1. /\ buffer \in Seq(StampedBy(Transforms)) /\ StrictlySorted(buffer)
      /\ duration \in Int /\ stamp \in Int
  BY BufferIsDeque, InstantsAreIntegers DEF IInv, Sorted
<1>2. buffer' = InsertInto(buffer, duration, stamp, transform)
  BY DEF Insert
<1>3. written' = [u \in DOMAIN written \cup {stamp} |->
                    IF u = stamp THEN transform ELSE written[u]]
  BY DEF Insert, Abstract!Written
<1>4. QED
  BY <1>1, <1>2, <1>3, InsertIntoProperties

(* The transforms the buffer is offered are typed, and are the ones that   *)
(* were last written.                                                      *)
LEMMA OfferedEntries ==
    ASSUME IInv, NEW stamp \in Instants, NEW transform \in Transforms,
           Insert(stamp, transform),
           NEW e \in {f \in Content(buffer) : f.stamp # stamp} \cup {Entry(stamp, transform)}
    PROVE  /\ e \in Entries
           /\ e.stamp \in Int
           /\ e.stamp \in DOMAIN written'
           /\ e.transform = written'[e.stamp]
<1>1. /\ DOMAIN written' = DOMAIN written \cup {stamp}
      /\ \A s \in DOMAIN written' :
            written'[s] = IF s = stamp THEN transform ELSE written[s]
  BY InsertStep
<1>2. CASE e = Entry(stamp, transform)
  <2>1. e.stamp = stamp /\ e.transform = transform /\ e \in Entries
    BY <1>2 DEF Entry, Entries
  <2>2. QED
    BY <1>1, <2>1, InstantsAreIntegers
<1>3. CASE e \in Content(buffer) /\ e.stamp # stamp
  <2>1. /\ e.stamp \in Instants /\ e.stamp \in Int /\ e.transform \in Transforms
        /\ e = Entry(e.stamp, e.transform)
    BY <1>3, BufferIsDeque DEF IInv
  <2>2. e \in Entries
    BY <2>1 DEF Entry, Entries
  <2>3. e.stamp \in DOMAIN written /\ e.transform = written[e.stamp]
    BY <1>3, WindowFaithfulByContent DEF IInv
  <2>4. QED
    BY <1>1, <1>3, <2>1, <2>2, <2>3
<1>4. QED
  BY <1>2, <1>3

(* A non-empty buffer never loses its newest instant to an insertion.      *)
LEMMA NewestAdvances ==
    ASSUME IInv, NEW stamp \in Instants, NEW transform \in Transforms,
           Insert(stamp, transform), buffer # <<>>
    PROVE  /\ Newest(buffer).stamp \in Int
           /\ Newest(buffer').stamp \in Int
           /\ Newest(buffer).stamp <= Newest(buffer').stamp
<1> DEFINE offered == {e \in Content(buffer) : e.stamp # stamp} \cup {Entry(stamp, transform)}
<1>1. Newest(buffer') \in offered /\ \A e \in offered : e.stamp <= Newest(buffer').stamp
  BY InsertStep
<1>2. buffer \in Seq(StampedBy(Transforms)) /\ StrictlySorted(buffer) /\ Len(buffer) >= 1
  BY BufferIsDeque DEF IInv, Sorted
<1>3. Newest(buffer) \in Content(buffer) /\ Newest(buffer).stamp \in Int
  BY <1>2, BufferIsDeque, EndsAreExtremes DEF IInv
<1>4. Newest(buffer').stamp \in Int
  BY <1>1, OfferedEntries
<1>5. Newest(buffer) \in offered \/ Newest(buffer).stamp = Entry(stamp, transform).stamp
  BY <1>3 DEF Entry
<1>6. QED
  BY <1>1, <1>3, <1>4, <1>5

LEMMA InsertKeepsType ==
    ASSUME IInv, NEW stamp \in Instants, NEW transform \in Transforms,
           Insert(stamp, transform)
    PROVE  TypeOK'
<1> DEFINE offered == {e \in Content(buffer) : e.stamp # stamp} \cup {Entry(stamp, transform)}
<1>1. /\ buffer' \in Seq(StampedBy(Transforms))
      /\ Content(buffer') \subseteq offered
      /\ DOMAIN written' = DOMAIN written \cup {stamp}
      /\ \A s \in DOMAIN written' :
            written'[s] = IF s = stamp THEN transform ELSE written[s]
  <2>1. Content(buffer') = {e \in offered : \/ duration <= 0
                                            \/ e.stamp >= Newest(buffer').stamp - duration}
    BY InsertStep
  <2>2. /\ buffer' \in Seq(StampedBy(Transforms))
        /\ DOMAIN written' = DOMAIN written \cup {stamp}
        /\ \A s \in DOMAIN written' :
              written'[s] = IF s = stamp THEN transform ELSE written[s]
    BY InsertStep
  <2> HIDE DEF offered
  <2>3. QED
    BY <2>1, <2>2
<1>2. buffer' \in Seq(Entries)
  <2>1. Len(buffer') \in Nat /\ DOMAIN buffer' = 1 .. Len(buffer')
    BY <1>1
  <2>2. ASSUME NEW i \in 1 .. Len(buffer') PROVE buffer'[i] \in Entries
    <3>1. buffer'[i] \in offered
      BY <1>1, <2>1 DEF Content
    <3>2. QED
      BY <3>1, OfferedEntries
  <2>3. buffer' = [i \in 1 .. Len(buffer') |-> buffer'[i]]
    BY <1>1, <2>1
  <2>4. QED
    BY <2>1, <2>2, <2>3
<1>3. QED
  BY <1>1, <1>2 DEF IInv, TypeOK, Insert

LEMMA InsertKeepsLatest ==
    ASSUME IInv, NEW stamp \in Instants, NEW transform \in Transforms,
           Insert(stamp, transform)
    PROVE  LatestRetained'
<1> DEFINE offered == {e \in Content(buffer) : e.stamp # stamp} \cup {Entry(stamp, transform)}
           newest == Newest(buffer')
<1>1. /\ Len(buffer') >= 1
      /\ newest \in offered
      /\ \A e \in offered : e.stamp <= newest.stamp
      /\ DOMAIN written' = DOMAIN written \cup {stamp}
  BY InsertStep
<1>2. buffer' # <<>>
  BY <1>1
<1>3. newest.stamp \in DOMAIN written' /\ newest.transform = written'[newest.stamp]
  BY <1>1, OfferedEntries
<1>4. ASSUME NEW s \in DOMAIN written' PROVE s <= newest.stamp
  <2>1. CASE s = stamp
    <3>1. Entry(stamp, transform) \in offered /\ Entry(stamp, transform).stamp = stamp
      BY DEF Entry
    <3>2. QED
      BY <1>1, <2>1, <3>1
  <2>2. CASE s # stamp
    <3>1. s \in DOMAIN written /\ buffer # <<>> /\ s <= Newest(buffer).stamp /\ s \in Int
      BY <1>1, <2>2, InstantsAreIntegers DEF IInv, LatestRetained, TypeOK
    <3>2. QED
      BY <3>1, NewestAdvances
  <2>3. QED
    BY <2>1, <2>2
<1>5. QED
  BY <1>2, <1>3, <1>4 DEF LatestRetained

LEMMA InsertKeepsWindow ==
    ASSUME IInv, NEW stamp \in Instants, NEW transform \in Transforms,
           Insert(stamp, transform)
    PROVE  WindowFaithful'
<1> DEFINE offered == {e \in Content(buffer) : e.stamp # stamp} \cup {Entry(stamp, transform)}
           newest == Newest(buffer')
<1>1. /\ buffer' \in Seq(StampedBy(Transforms)) /\ Len(buffer') >= 1 /\ StrictlySorted(buffer')
      /\ Content(buffer') = {e \in offered : duration <= 0 \/ e.stamp >= newest.stamp - duration}
      /\ DOMAIN written' = DOMAIN written \cup {stamp}
      /\ newest \in offered
  BY InsertStep
<1>2. newest.stamp \in Int /\ duration \in Int /\ duration' = duration /\ widened' = widened
  BY <1>1, OfferedEntries, BufferIsDeque DEF Insert, IInv
<1>3. \A e \in Content(buffer') : e.stamp \in DOMAIN written' /\ e.transform = written'[e.stamp]
  BY <1>1, OfferedEntries
<1>4. ASSUME NEW s \in DOMAIN written' \ Stamps(buffer'), ~widened
      PROVE  duration > 0 /\ s < newest.stamp - duration
  <2>1. s \in Int
    BY <1>1, InstantsAreIntegers DEF IInv, TypeOK
  <2>2. \A e \in offered : e.stamp = s => ~(duration <= 0 \/ e.stamp >= newest.stamp - duration)
    BY <1>1, StampsOfContent
  <2>3. CASE s = stamp \/ s \in Stamps(buffer)
    <3>1. \E e \in offered : e.stamp = s
      <4>1. CASE s = stamp
        <5>1. Entry(stamp, transform) \in offered /\ Entry(stamp, transform).stamp = stamp
          BY DEF Entry
        <5>2. QED
          BY <4>1, <5>1
      <4>2. CASE s # stamp
        BY <2>3, <4>2, StampsOfContent
      <4>3. QED
        BY <4>1, <4>2
    <3>2. ~(duration <= 0) /\ ~(s >= newest.stamp - duration)
      BY <2>2, <3>1
    <3>3. QED
      BY <1>2, <2>1, <3>2
  <2>4. CASE ~(s = stamp \/ s \in Stamps(buffer))
    <3>1. s \in DOMAIN written \ Stamps(buffer)
      BY <1>1, <2>4
    <3>2. duration > 0 /\ s < Newest(buffer).stamp - duration
      BY <1>4, <3>1 DEF IInv, WindowFaithful
    <3>3. buffer # <<>>
      BY <3>1 DEF IInv, LatestRetained
    <3>4. QED
      BY <1>2, <2>1, <3>2, <3>3, NewestAdvances
  <2>5. QED
    BY <2>3, <2>4
<1>5. ASSUME NEW s \in DOMAIN written' \ Stamps(buffer'), ~widened
      PROVE  s < Oldest(buffer').stamp
  <2>1. Oldest(buffer') \in Content(buffer')
    BY <1>1, EndsAreExtremes
  <2>2. Oldest(buffer').stamp \in Int
    BY <1>1, <2>1, OfferedEntries
  <2>3. Oldest(buffer').stamp >= newest.stamp - duration
    BY <1>1, <1>2, <1>4, <1>5, <2>1
  <2>4. s \in Int
    BY <1>1, InstantsAreIntegers DEF IInv, TypeOK
  <2>5. QED
    BY <1>2, <1>4, <1>5, <2>2, <2>3, <2>4
<1>6. QED
  BY <1>2, <1>3, <1>4, <1>5, <1>1 DEF WindowFaithful, Content

LEMMA SetDurationKeeps ==
    ASSUME IInv, NEW d \in Durations, SetDuration(d)
    PROVE  IInv'
<1>1. buffer' = buffer /\ written' = written /\ duration' = d
      /\ widened' = (widened \/ ~NoWider(d, duration))
  BY DEF SetDuration
<1>2. TypeOK' /\ Sorted' /\ LatestRetained'
  BY <1>1 DEF IInv, TypeOK, Sorted, LatestRetained
<1>3. ASSUME ~widened', NEW s \in DOMAIN written \ Stamps(buffer)
      PROVE  d > 0 /\ s < Newest(buffer).stamp - d /\ s < Oldest(buffer).stamp
  <2>1. ~widened /\ NoWider(d, duration)
    BY <1>1, <1>3
  <2>2. duration > 0 /\ s < Newest(buffer).stamp - duration /\ s < Oldest(buffer).stamp
    BY <1>3, <2>1 DEF IInv, WindowFaithful
  <2>3. duration \in Int /\ d \in Int /\ s \in Int
    BY InstantsAreIntegers, DurationsAreIntegers DEF IInv, TypeOK
  <2>4. Newest(buffer).stamp \in Int
    BY InstantsAreIntegers DEF IInv, TypeOK, LatestRetained
  <2>5. d > 0 /\ d <= duration
    BY <2>1, <2>2, <2>3 DEF NoWider
  <2>6. QED
    BY <2>2, <2>3, <2>4, <2>5
<1>4. WindowFaithful'
  BY <1>1, <1>3 DEF IInv, WindowFaithful
<1>5. QED
  BY <1>2, <1>4 DEF IInv

LEMMA EmptyBufferIsFine ==
    ASSUME buffer = <<>>, duration \in Durations, written = Abstract!Nothing, widened = FALSE
    PROVE  IInv
<1>1. DOMAIN written = {} /\ DOMAIN buffer = {}
  BY DEF Abstract!Nothing
<1>2. TypeOK
  <2>1. <<>> \in Seq(Entries)
    OBVIOUS
  <2>2. \A s \in DOMAIN written : written[s] \in Transforms
    BY <1>1
  <2>3. QED
    BY <1>1, <2>1, <2>2 DEF TypeOK
<1>3. Sorted /\ LatestRetained /\ WindowFaithful
  BY <1>1 DEF Sorted, StrictlySorted, LatestRetained, WindowFaithful
<1>4. QED
  BY <1>2, <1>3 DEF IInv

LEMMA ClearKeeps ==
    ASSUME IInv, Clear
    PROVE  IInv'
<1>1. buffer' = <<>> /\ duration' \in Durations /\ widened' = FALSE
      /\ DOMAIN written' = {} /\ DOMAIN buffer' = {}
  BY DEF Clear, IInv, TypeOK, Abstract!Nothing
<1>2. TypeOK'
  <2>1. <<>> \in Seq(Entries)
    OBVIOUS
  <2>2. \A s \in DOMAIN written' : written'[s] \in Transforms
    BY <1>1
  <2>3. QED
    BY <1>1, <2>1, <2>2 DEF TypeOK
<1>3. Sorted' /\ LatestRetained' /\ WindowFaithful'
  BY <1>1 DEF Sorted, StrictlySorted, LatestRetained, WindowFaithful
<1>4. QED
  BY <1>2, <1>3 DEF IInv

-----------------------------------------------------------------------------

LEMMA Inductive == Spec => []IInv
<1>1. Init => IInv
  BY EmptyBufferIsFine DEF Init
<1>2. IInv /\ [Next]_vars => IInv'
  <2> SUFFICES ASSUME IInv, [Next]_vars PROVE IInv'
    OBVIOUS
  <2>1. ASSUME NEW stamp \in Instants, NEW transform \in Transforms, Insert(stamp, transform)
        PROVE  IInv'
    <3>1. Sorted'
      BY <2>1, InsertStep DEF Sorted
    <3>2. QED
      BY <2>1, <3>1, InsertKeepsType, InsertKeepsLatest, InsertKeepsWindow DEF IInv
  <2>2. ASSUME NEW d \in Durations, SetDuration(d) PROVE IInv'
    BY <2>2, SetDurationKeeps
  <2>3. CASE Clear
    BY <2>3, ClearKeeps
  <2>4. CASE UNCHANGED vars
    BY <2>4 DEF IInv, vars, TypeOK, Sorted, LatestRetained, WindowFaithful
  <2>5. QED
    BY <2>1, <2>2, <2>3, <2>4 DEF Next
<1>3. QED
  BY <1>1, <1>2, PTL DEF Spec

(* The deque holds stamped transforms whatever is inserted into it.        *)
THEOREM TypeCorrect == Spec => []TypeOK
<1>1. IInv => TypeOK
  BY DEF IInv
<1>2. QED
  BY <1>1, Inductive, PTL

(* std::lower_bound always runs on a deque sorted by strictly increasing   *)
(* stamps.                                                                 *)
THEOREM AlwaysSorted == Spec => []Sorted
<1>1. IInv => Sorted
  BY DEF IInv
<1>2. QED
  BY <1>1, Inductive, PTL

(* The newest transform ever inserted is at the back, for get(0).          *)
THEOREM LatestNeverLost == Spec => []LatestRetained
<1>1. IInv => LatestRetained
  BY DEF IInv
<1>2. QED
  BY <1>1, Inductive, PTL

(* Nothing within the duration of the newest transform is ever missing     *)
(* unless the duration was raised.                                         *)
THEOREM WindowKept == Spec => []WindowFaithful
<1>1. IInv => WindowFaithful
  BY DEF IInv
<1>2. QED
  BY <1>1, Inductive, PTL

-----------------------------------------------------------------------------

(* What the histories say about the buffer while the duration was never    *)
(* raised: its entries were written, and only stamps before its oldest     *)
(* entry were written and are gone.                                        *)
LEMMA HistoryAndBuffer ==
    ASSUME IInv, ~widened, buffer # <<>>
    PROVE  /\ buffer \in Seq(StampedBy(Transforms)) /\ StrictlySorted(buffer)
           /\ Len(buffer) >= 1
           /\ DOMAIN written \in SUBSET Int
           /\ \A e \in Content(buffer) : /\ e.stamp \in DOMAIN written
                                         /\ e.stamp \in Int
                                         /\ written[e.stamp] = e.transform
                                         /\ e.stamp <= Newest(buffer).stamp
                                         /\ e.stamp >= Oldest(buffer).stamp
           /\ Oldest(buffer) \in Content(buffer)
           /\ Newest(buffer) \in Content(buffer)
           /\ \A s \in DOMAIN written :
                 s < Oldest(buffer).stamp \/ \E e \in Content(buffer) : e.stamp = s
<1>1. buffer \in Seq(StampedBy(Transforms)) /\ StrictlySorted(buffer)
  BY BufferIsDeque DEF IInv, Sorted
<1>2. Len(buffer) >= 1
  BY <1>1, EmptySeq, LenProperties
<1>3. DOMAIN written \in SUBSET Int
  BY InstantsAreIntegers DEF IInv, TypeOK
<1>4. \A e \in Content(buffer) : e.stamp \in DOMAIN written /\ written[e.stamp] = e.transform
  BY WindowFaithfulByContent DEF IInv
<1>5. \A s \in DOMAIN written :
         s < Oldest(buffer).stamp \/ \E e \in Content(buffer) : e.stamp = s
  BY WindowFaithfulByContent, StampsOfContent DEF IInv
<1>6. QED
  BY <1>1, <1>2, <1>3, <1>4, <1>5, EndsAreExtremes

(* What the complete history answers for a time inside it: at a written    *)
(* stamp what was written, between two neighbouring stamps the             *)
(* interpolation of what was written at them.                              *)
LEMMA HistoryAt ==
    ASSUME DOMAIN written \in SUBSET Int, NEW t \in DOMAIN written, t # 0
    PROVE  HistoryAnswer(t) = written[t]
<1> DEFINE before == {s \in DOMAIN written : s <= t}
           after == {s \in DOMAIN written : s >= t}
<1>1. before \in SUBSET Int /\ t \in before /\ \A s \in before : s <= t
  OBVIOUS
<1>2. after \in SUBSET Int /\ t \in after /\ \A s \in after : s >= t
  OBVIOUS
<1> HIDE DEF before, after
<1>3. Max(before) = t
  BY <1>1, MaxIs
<1>4. Min(after) = t
  BY <1>2, MinIs
<1>5. before # {} /\ after # {}
  BY <1>1, <1>2
<1>6. QED
  BY <1>3, <1>4, <1>5 DEF HistoryAnswer, before, after

LEMMA HistoryBetween ==
    ASSUME DOMAIN written \in SUBSET Int, NEW t \in Int, t # 0,
           NEW lo \in DOMAIN written, NEW hi \in DOMAIN written, lo < t, t < hi,
           \A s \in DOMAIN written : s <= lo \/ s >= hi
    PROVE  HistoryAnswer(t) = Interpolate(written[lo], written[hi], t - lo, hi - lo)
<1> DEFINE before == {s \in DOMAIN written : s <= t}
           after == {s \in DOMAIN written : s >= t}
<1>0. lo \in Int /\ hi \in Int
  OBVIOUS
<1>1. before \in SUBSET Int /\ lo \in before /\ \A s \in before : s <= lo
  BY <1>0
<1>2. after \in SUBSET Int /\ hi \in after /\ \A s \in after : s >= hi
  BY <1>0
<1> HIDE DEF before, after
<1>3. Max(before) = lo
  BY <1>1, MaxIs
<1>4. Min(after) = hi
  BY <1>2, MinIs
<1>5. before # {} /\ after # {} /\ lo # hi
  BY <1>0, <1>1, <1>2
<1>6. QED
  BY <1>3, <1>4, <1>5 DEF HistoryAnswer, before, after

LEMMA HistoryLatest ==
    ASSUME DOMAIN written \in SUBSET Int, NEW last \in DOMAIN written,
           \A s \in DOMAIN written : s <= last,
           NEW t \in Int, t = 0 \/ t > last
    PROVE  HistoryAnswer(t) = written[last]
<1>1. (CHOOSE s \in DOMAIN written : \A u \in DOMAIN written : u <= s) = last
  <2> DEFINE z == CHOOSE s \in DOMAIN written : \A u \in DOMAIN written : u <= s
  <2>1. z \in DOMAIN written /\ \A u \in DOMAIN written : u <= z
    OBVIOUS
  <2> HIDE DEF z
  <2>2. z \in Int /\ last \in Int /\ z <= last /\ last <= z
    BY <2>1
  <2>3. z = last
    BY <2>2
  <2>4. QED
    BY <2>3 DEF z
<1>2. t # 0 => {s \in DOMAIN written : s >= t} = {}
  OBVIOUS
<1>3. QED
  BY <1>1, <1>2 DEF HistoryAnswer

(* From the oldest stored stamp on, and for the time zero, get answers as  *)
(* if insert never discarded anything, for buffers of any length and       *)
(* histories that need not be finite.                                      *)
THEOREM ExpiryIsInvisible == Spec => []AnswersAsIfNothingExpired
<1>1. ASSUME IInv, ~widened, buffer # <<>>, NEW t \in Instants \cup {0},
             t = 0 \/ t >= Oldest(buffer).stamp
      PROVE  Lookup(buffer, t) = HistoryAnswer(t)
  <2> DEFINE old == Oldest(buffer)
             new == Newest(buffer)
  <2>1. t \in Int
    BY InstantsAreIntegers
  <2>2. /\ buffer \in Seq(StampedBy(Transforms)) /\ StrictlySorted(buffer)
        /\ Len(buffer) >= 1
        /\ DOMAIN written \in SUBSET Int
        /\ \A e \in Content(buffer) : /\ e.stamp \in DOMAIN written
                                      /\ e.stamp \in Int
                                      /\ written[e.stamp] = e.transform
                                      /\ e.stamp <= new.stamp
                                      /\ e.stamp >= old.stamp
        /\ old \in Content(buffer)
        /\ new \in Content(buffer)
        /\ \A s \in DOMAIN written :
              s < old.stamp \/ \E e \in Content(buffer) : e.stamp = s
    BY <1>1, HistoryAndBuffer
  <2>3. \A s \in DOMAIN written : s <= new.stamp
    BY <2>2
  <2>4. CASE t = 0 \/ t > new.stamp
    <3>1. HistoryAnswer(t) = written[new.stamp]
      BY <2>1, <2>2, <2>3, <2>4, HistoryLatest
    <3>2. t = 0 \/ (~(t <= old.stamp) /\ t >= new.stamp)
      BY <2>1, <2>2, <2>4
    <3>3. Lookup(buffer, t) = new.transform
      BY <3>2 DEF Lookup
    <3>4. QED
      BY <2>2, <3>1, <3>3
  <2>5. CASE t # 0 /\ t = old.stamp
    <3>1. Lookup(buffer, t) = old.transform
      BY <2>2, <2>5 DEF Lookup
    <3>2. HistoryAnswer(t) = written[t]
      BY <2>2, <2>5, HistoryAt
    <3>3. QED
      BY <2>2, <2>5, <3>1, <3>2
  <2>6. CASE t # 0 /\ t > old.stamp /\ t = new.stamp
    <3>1. ~(t <= old.stamp) /\ t >= new.stamp
      BY <2>1, <2>2, <2>6
    <3>2. Lookup(buffer, t) = new.transform
      BY <2>6, <3>1 DEF Lookup
    <3>3. HistoryAnswer(t) = written[t]
      BY <2>2, <2>6, HistoryAt
    <3>4. QED
      BY <2>2, <2>6, <3>2, <3>3
  <2>7. CASE t # 0 /\ t > old.stamp /\ t < new.stamp
    <3>1. CASE \E e \in Content(buffer) : e.stamp = t /\ Lookup(buffer, t) = e.transform
      <4>1. PICK e \in Content(buffer) : e.stamp = t /\ Lookup(buffer, t) = e.transform
        BY <3>1
      <4>2. HistoryAnswer(t) = written[t]
        BY <2>2, <2>7, <4>1, HistoryAt
      <4>3. QED
        BY <2>2, <4>1, <4>2
    <3>2. CASE \E lo, hi \in Content(buffer) :
                 /\ lo.stamp < t /\ t < hi.stamp
                 /\ \A e \in Content(buffer) : e.stamp <= lo.stamp \/ e.stamp >= hi.stamp
                 /\ Lookup(buffer, t) =
                       Interpolate(lo.transform, hi.transform,
                                   t - lo.stamp, hi.stamp - lo.stamp)
      <4>1. PICK lo \in Content(buffer), hi \in Content(buffer) :
                 /\ lo.stamp < t /\ t < hi.stamp
                 /\ \A e \in Content(buffer) : e.stamp <= lo.stamp \/ e.stamp >= hi.stamp
                 /\ Lookup(buffer, t) =
                       Interpolate(lo.transform, hi.transform,
                                   t - lo.stamp, hi.stamp - lo.stamp)
        BY <3>2
      <4>2. ASSUME NEW s \in DOMAIN written PROVE s <= lo.stamp \/ s >= hi.stamp
        <5>1. CASE s < old.stamp
          <6>1. s \in Int /\ old.stamp \in Int /\ lo.stamp \in Int /\ lo.stamp >= old.stamp
            BY <2>2, <4>1
          <6>2. QED
            BY <5>1, <6>1
        <5>2. CASE \E e \in Content(buffer) : e.stamp = s
          BY <4>1, <5>2
        <5>3. QED
          BY <2>2, <5>1, <5>2
      <4>3. HistoryAnswer(t) = Interpolate(written[lo.stamp], written[hi.stamp],
                                           t - lo.stamp, hi.stamp - lo.stamp)
        BY <2>1, <2>2, <2>7, <4>1, <4>2, HistoryBetween
      <4>4. QED
        BY <2>2, <4>1, <4>3
    <3>3. t \in Int /\ t # 0 /\ t > old.stamp /\ t < new.stamp
      BY <2>1, <2>7
    <3>4. /\ buffer \in Seq(StampedBy(Transforms)) /\ StrictlySorted(buffer)
          /\ Len(buffer) >= 1
      BY <2>2
    <3>5. QED
      BY <3>1, <3>2, <3>3, <3>4, LookupBetween
  <2>8. QED
    <3>1. old.stamp \in Int /\ new.stamp \in Int /\ old.stamp <= new.stamp
      BY <2>2
    <3>2. \/ t = 0 \/ t > new.stamp
          \/ t # 0 /\ t = old.stamp
          \/ t # 0 /\ t > old.stamp /\ t = new.stamp
          \/ t # 0 /\ t > old.stamp /\ t < new.stamp
      BY <1>1, <2>1, <3>1
    <3>3. QED
      BY <2>4, <2>5, <2>6, <2>7, <3>2
<1>2. IInv => AnswersAsIfNothingExpired
  BY <1>1 DEF AnswersAsIfNothingExpired
<1>3. QED
  BY <1>2, Inductive, PTL

-----------------------------------------------------------------------------

(* One insertion into the deque is one insertion into the map.             *)
LEMMA InsertRefines ==
    ASSUME IInv, NEW stamp \in Instants, NEW transform \in Transforms,
           Insert(stamp, transform)
    PROVE  Abstract!Insert(stamp, transform)
<1>1. /\ buffer \in Seq(StampedBy(Transforms)) /\ StrictlySorted(buffer)
      /\ duration \in Int /\ stamp \in Int
  BY BufferIsDeque, InstantsAreIntegers DEF IInv, Sorted
<1>2. AsMap(buffer') = AsMap(InsertInto(buffer, duration, stamp, transform))
  BY DEF Insert
<1>3. AsMap(buffer') = MapWithin(MapWith(AsMap(buffer), stamp, transform), duration)
  BY <1>1, <1>2, InsertIntoMap
<1>4. MapWith(AsMap(buffer), stamp, transform) =
          Abstract!Written(AsMap(buffer), stamp, transform)
  BY DEF MapWith, Abstract!Written
<1>5. ASSUME NEW map
      PROVE  MapWithin(map, duration) = Abstract!Retained(map, duration)
  BY DEF MapWithin, Abstract!Retained, Abstract!Kept
<1>6. QED
  BY <1>3, <1>4, <1>5 DEF Abstract!Insert, Insert

LEMMA EmptyIsNothing == AsMap(<<>>) = Abstract!Nothing
<1>1. Stamps(<<>>) = {}
  BY DEF Stamps
<1>2. QED
  BY <1>1 DEF AsMap, Abstract!Nothing

(* transform_buffer.cpp implements the stamp-to-transform map with         *)
(* retention: each call is one operation of the map.                       *)
THEOREM Implementation == Spec => ImplementsStore
<1>1. Init => Abstract!Init
  BY EmptyIsNothing DEF Init, Abstract!Init
<1>2. IInv /\ [Next]_vars => [Abstract!Next]_(Abstract!vars)
  <2> SUFFICES ASSUME IInv, [Next]_vars PROVE [Abstract!Next]_(Abstract!vars)
    OBVIOUS
  <2>1. ASSUME NEW stamp \in Instants, NEW transform \in Transforms, Insert(stamp, transform)
        PROVE  Abstract!Next
    BY <2>1, InsertRefines DEF Abstract!Next
  <2>2. ASSUME NEW d \in Durations, SetDuration(d) PROVE Abstract!Next
    BY <2>2 DEF SetDuration, Abstract!SetRetention, Abstract!Next
  <2>3. CASE Clear
    BY <2>3, EmptyIsNothing DEF Clear, Abstract!Clear, Abstract!Next
  <2>4. CASE UNCHANGED vars
    BY <2>4 DEF vars, Abstract!vars
  <2>5. QED
    BY <2>1, <2>2, <2>3, <2>4 DEF Next
<1>3. QED
  BY <1>1, <1>2, Inductive, PTL DEF Spec, ImplementsStore, Abstract!Spec

=============================================================================
