-------------------------- MODULE TransformBuffer ---------------------------
(***************************************************************************)
(* rix::tf::TransformBuffer (src/rix/tf/transform_buffer.cpp): one time-   *)
(* indexed buffer of transforms and the calls that change it.  The lookup  *)
(* `get' does not change state; the properties below quantify over every   *)
(* time it may be asked for.                                               *)
(*                                                                         *)
(* Two history variables, which no action reads, record what the caller    *)
(* has done since the buffer was last cleared: the last transform written  *)
(* for each stamp, and whether the duration was ever raised.               *)
(***************************************************************************)
EXTENDS TimedDeque, FiniteSets

VARIABLES
    buffer,      (* TransformBuffer::buffer_ *)
    duration,    (* TransformBuffer::duration_ *)
    written,     (* history: stamp |-> transform last inserted with it *)
    widened      (* history: the duration has been raised *)

vars == <<buffer, duration, written, widened>>

Abstract == INSTANCE TransformStore WITH
    store     <- AsMap(buffer),
    retention <- duration

(* A duration that is not positive switches expiry off, so it is the       *)
(* widest of all.                                                          *)
NoWider(d, e) == e <= 0 \/ (d > 0 /\ d <= e)

-----------------------------------------------------------------------------

Init ==
    /\ buffer = <<>>
    /\ duration \in Durations
    /\ written = Abstract!Nothing
    /\ widened = FALSE

Insert(stamp, transform) ==
    /\ buffer' = InsertInto(buffer, duration, stamp, transform)
    /\ written' = Abstract!Written(written, stamp, transform)
    /\ UNCHANGED <<duration, widened>>

SetDurationAdding(d) ==
    /\ duration' = duration + d
    /\ widened' = (widened \/ ~NoWider(duration + d, duration))
    /\ UNCHANGED <<buffer, written>>

(* Entries already stored stay until the next insertion.                   *)
SetDuration(d) ==
    /\ duration' = d
    /\ widened' = (widened \/ ~NoWider(d, duration))
    /\ UNCHANGED <<buffer, written>>

Clear ==
    /\ buffer' = <<>>
    /\ written' = Abstract!Nothing
    /\ widened' = FALSE
    /\ UNCHANGED duration

Next ==
    \/ \E stamp \in Instants, transform \in Transforms : Insert(stamp, transform)
    \/ \E d \in Durations : SetDuration(d)
    \/ Clear

Spec == Init /\ [][Next]_vars

-----------------------------------------------------------------------------

(* TypeOK: the buffer is a sequence of stamped transforms, the duration is *)
(* one that was given to it (transform_buffer.hpp, members duration_ and   *)
(* buffer_), and the histories are a map and a flag.                       *)
TypeOK ==
    /\ buffer \in Seq(Entries)
    /\ duration \in Durations
    /\ DOMAIN written \subseteq Instants
    /\ \A s \in DOMAIN written : written[s] \in Transforms
    /\ widened \in BOOLEAN

(* Sorted: the deque holds strictly increasing stamps, whatever the order  *)
(* in which transforms arrive and however often a stamp repeats; the       *)
(* binary searches of insert and get are meaningless without it, and a     *)
(* second entry of one stamp would never be found.                         *)
Sorted == StrictlySorted(buffer)

(* LatestRetained: no sequence of late, repeated or expiring insertions    *)
(* loses the newest transform.  The back of the deque is the transform     *)
(* last written for the greatest stamp ever inserted, so that get(0) is    *)
(* the newest information and get fails only if nothing was inserted.      *)
LatestRetained ==
    DOMAIN written # {} =>
        /\ buffer # <<>>
        /\ Newest(buffer).stamp \in DOMAIN written
        /\ \A s \in DOMAIN written : s <= Newest(buffer).stamp
        /\ Newest(buffer).transform = written[Newest(buffer).stamp]

(* WindowFaithful: what is stored is what was last written, and unless the *)
(* duration was raised since, a stamp that was written and is not stored   *)
(* lies both beyond the duration of the newest entry and before the oldest *)
(* one.  Expiry takes only what is too old and punches no hole in the      *)
(* history that get interpolates over.                                     *)
WindowFaithful ==
    /\ \A i \in DOMAIN buffer :
          /\ buffer[i].stamp \in DOMAIN written
          /\ buffer[i].transform = written[buffer[i].stamp]
    /\ ~widened =>
          \A s \in DOMAIN written \ Stamps(buffer) :
              /\ duration > 0
              /\ s < Newest(buffer).stamp - duration
              /\ s < Oldest(buffer).stamp

(* The answer the complete history gives for time t, by its definition:    *)
(* the written transform at t, or the nearer end of the history, or the    *)
(* interpolation of the two written transforms around t.                   *)
HistoryAnswer(t) ==
    LET latest == CHOOSE s \in DOMAIN written : \A u \in DOMAIN written : u <= s
        before == {s \in DOMAIN written : s <= t}
        after  == {s \in DOMAIN written : s >= t}
        lo     == Max(before)
        hi     == Min(after)
    IN  CASE t = 0 \/ after = {} -> written[latest]
          [] t # 0 /\ after # {} /\ before = {} -> written[hi]
          [] OTHER -> IF lo = hi THEN written[t]
                      ELSE Interpolate(written[lo], written[hi], t - lo, hi - lo)

(* AnswersAsIfNothingExpired: for the time zero and for every time from    *)
(* the oldest stored stamp on, get returns what a buffer that never        *)
(* discards anything would return.                                         *)
AnswersAsIfNothingExpired ==
    ~widened /\ buffer # <<>> =>
        \A t \in Instants \cup {0} :
            t = 0 \/ t >= Oldest(buffer).stamp => Lookup(buffer, t) = HistoryAnswer(t)

(* ImplementsStore: every call maps to the same operation of the abstract  *)
(* stamp-to-transform map with retention: searching, overwriting in place, *)
(* inserting at a position and popping the front realise it exactly.       *)
ImplementsStore == Abstract!Spec

=============================================================================
