----------------------------- MODULE TimedDeque -----------------------------
(***************************************************************************)
(* The value of one rix::tf::TransformBuffer: a deque of stamped           *)
(* transforms, oldest at the front, that is searched by stamp and keeps    *)
(* only what lies within a duration of its newest entry.  Constant-level   *)
(* operators only, so that the state machines that own such a deque        *)
(* (TransformBuffer, FrameGraph and the listener above it) share them.     *)
(*                                                                         *)
(* Stamps and durations are integer nanoseconds in the code and integers   *)
(* here.  A transform is an opaque value; Interpolate(a, b, num, den)      *)
(* stands for rix::robot::interpolate(a, b, num / den).                    *)
(***************************************************************************)
EXTENDS Integers, Sequences, SequencesExt

CONSTANTS
    Interpolate(_, _, _, _),
    Instants,    (* the stamps of header.stamp *)
    Transforms,  (* the transforms that are published *)
    Durations    (* the durations of the constructors and of set_duration *)

ASSUME InstantsAreIntegers  == Instants \subseteq Int
ASSUME DurationsAreIntegers == Durations \subseteq Int
ASSUME SomeTransform        == Transforms # {}

(* One element of the deque: a (Time, Transform) pair.                     *)
Entry(stamp, transform) == [stamp |-> stamp, transform |-> transform]

Entries == [stamp : Instants, transform : Transforms]

(* rix::tf names the two ends of a std::deque front() and back().          *)
Oldest(deque) == deque[1]
Newest(deque) == deque[Len(deque)]

Stamps(deque) == {deque[i].stamp : i \in DOMAIN deque}

(* A deque seen as the map it stands for.                                  *)
AsMap(deque) ==
    [s \in Stamps(deque) |->
        deque[CHOOSE i \in DOMAIN deque : deque[i].stamp = s].transform]

(***************************************************************************)
(* The position std::lower_bound returns: the first entry that is not      *)
(* before t, or one past the end.  The pop_front loop of insert stops at   *)
(* the same place.                                                         *)
(***************************************************************************)
NotBefore(deque, t) ==
    {i \in 1 .. Len(deque) + 1 : i <= Len(deque) => deque[i].stamp >= t}

LowerBoundSkipsEqual(deque, t) ==
    Min({i \in 1 .. Len(deque) + 1 : i <= Len(deque) => deque[i].stamp > t})

LowerBound(deque, t) == Min(NotBefore(deque, t))

(***************************************************************************)
(* Discard what is older than the newest entry by more than the duration;  *)
(* a duration that is not positive keeps everything.                       *)
(***************************************************************************)
ExpireAtTheEdge(deque, duration) ==
    IF duration <= 0
    THEN deque
    ELSE SubSeq(deque, LowerBoundSkipsEqual(deque, Newest(deque).stamp - duration),
                Len(deque))

ExpireAgainstOldest(deque, duration) ==
    IF duration <= 0
    THEN deque
    ELSE SubSeq(deque, LowerBound(deque, Oldest(deque).stamp + duration), Len(deque))

Expire(deque, duration) ==
    IF duration <= 0
    THEN deque
    ELSE SubSeq(deque, LowerBound(deque, Newest(deque).stamp - duration),
                Len(deque))

(***************************************************************************)
(* TransformBuffer::insert.  An entry of the same stamp is overwritten in  *)
(* place, any other is inserted at its sorted position, however old it is; *)
(* the expiry that follows may discard it again at once.                   *)
(***************************************************************************)
PlaceAtBack(deque, stamp, transform) ==
    Append(deque, Entry(stamp, transform))

PlaceKeepingFirst(deque, stamp, transform) ==
    LET pos == LowerBound(deque, stamp)
    IN  IF pos <= Len(deque) /\ deque[pos].stamp = stamp
        THEN deque
        ELSE InsertAt(deque, pos, Entry(stamp, transform))

Place(deque, stamp, transform) ==
    LET pos == LowerBound(deque, stamp)
    IN  IF pos <= Len(deque) /\ deque[pos].stamp = stamp
        THEN [deque EXCEPT ![pos] = Entry(stamp, transform)]
        ELSE InsertAt(deque, pos, Entry(stamp, transform))

InsertInto(deque, duration, stamp, transform) ==
    Expire(Place(deque, stamp, transform), duration)

(***************************************************************************)
(* TransformBuffer::get on a buffer that is not empty (get fails on an     *)
(* empty one).  Time zero asks for the newest entry; a time outside the    *)
(* stored stamps is answered by the nearer end; a time between two entries *)
(* by interpolation.  The code repeats the test for a position at the      *)
(* front and for entries that are not apart; both are kept here.           *)
(***************************************************************************)
Between(deque, upper, t) ==
    LET lo == deque[upper - 1]
        hi == deque[upper]
    IN  IF hi.stamp - lo.stamp <= 0
        THEN lo.transform
        ELSE Interpolate(lo.transform, hi.transform, t - lo.stamp, hi.stamp - lo.stamp)

LookupNearest(deque, t) ==
    LET upper == LowerBound(deque, t)
    IN  CASE t = 0 -> Newest(deque).transform
          [] t # 0 /\ t <= Oldest(deque).stamp -> Oldest(deque).transform
          [] t # 0 /\ t > Oldest(deque).stamp /\ t >= Newest(deque).stamp
               -> Newest(deque).transform
          [] OTHER -> deque[upper - 1].transform

Lookup(deque, t) ==
    LET upper == LowerBound(deque, t)
    IN  IF t = 0 THEN Newest(deque).transform
        ELSE IF t <= Oldest(deque).stamp THEN Oldest(deque).transform
        ELSE IF t >= Newest(deque).stamp THEN Newest(deque).transform
        ELSE IF deque[upper].stamp = t \/ upper = 1
        THEN deque[upper].transform
        ELSE Between(deque, upper, t)

(***************************************************************************)
(* What std::lower_bound needs of the deque and what every insertion must  *)
(* keep: stamps increase strictly from front to back.                      *)
(***************************************************************************)
StrictlySorted(deque) ==
    \A i, j \in DOMAIN deque : i < j => deque[i].stamp < deque[j].stamp

=============================================================================
