-------------------------- MODULE FrameTree_proofs --------------------------
(***************************************************************************)
(* What the operations of TimedDeque and of FrameTree keep, for deques of  *)
(* any length and graphs with any number of frames.                        *)
(*                                                                         *)
(* A deque is described by the set of its entries; with StrictlySorted     *)
(* that set determines the deque.  The lemmas say where the search lands   *)
(* and what a placement and an expiry leave behind.                        *)
(*                                                                         *)
(* For a graph, WellFormed collects what one update needs and leaves       *)
(* behind; an accepted update either hears a known edge (HearKeeps) or     *)
(* joins a new frame (JoinKeeps).                                          *)
(***************************************************************************)
EXTENDS FrameTree, SequenceTheorems, WellFoundedInduction, TLAPS

-----------------------------------------------------------------------------
(* One deque.                                                              *)

StampedBy(T) == [stamp : Int, transform : T]

Content(deque) == {deque[i] : i \in DOMAIN deque}

-----------------------------------------------------------------------------

(* A non-empty set of naturals has the least element that Min chooses.     *)
LEMMA MinOfNaturals ==
    ASSUME NEW S \in SUBSET Nat, S # {}
    PROVE  Min(S) \in S /\ \A y \in S : Min(S) <= y
<1>1. PICK x \in S : \A y \in S : ~(<<y, x>> \in OpToRel(<, Nat))
  BY NatLessThanWellFounded, WFMin
<1>2. ASSUME NEW y \in S PROVE x <= y
  <2>1. <<y, x>> \notin {ss \in Nat \X Nat : ss[1] < ss[2]}
    BY <1>1 DEF OpToRel
  <2>2. <<y, x>> \in Nat \X Nat
    OBVIOUS
  <2>3. ~(y < x)
    BY <2>1, <2>2
  <2>4. QED
    BY <2>3
<1>3. \E z \in S : \A y \in S : z <= y
  BY <1>2
<1>4. QED
  BY <1>3 DEF Min

(* Induction, for properties that are written as a set of naturals.        *)
LEMMA SetInduction ==
    ASSUME NEW S, 0 \in S, \A n \in Nat : n \in S => n + 1 \in S
    PROVE  Nat \subseteq S
<1> DEFINE B == Nat \ S
<1>1. ASSUME B # {} PROVE FALSE
  <2> DEFINE m == Min(B)
  <2>1. m \in B /\ \A y \in B : m <= y
    BY <1>1, MinOfNaturals
  <2> HIDE DEF m
  <2>2. m \in Nat /\ m \notin S /\ m # 0
    BY <2>1
  <2>3. m - 1 \in Nat
    BY <2>2
  <2>4. m - 1 \notin B
    BY <2>1, <2>2, <2>3
  <2>5. (m - 1) + 1 \in S
    BY <2>3, <2>4
  <2>6. (m - 1) + 1 = m
    BY <2>2
  <2>7. QED
    BY <2>2, <2>5, <2>6
<1>2. QED
  BY <1>1

(* A deque has a length, and its entries are stamped with integers.        *)
LEMMA DequeEntries ==
    ASSUME NEW T, NEW deque \in Seq(StampedBy(T))
    PROVE  /\ Len(deque) \in Nat
           /\ DOMAIN deque = 1 .. Len(deque)
           /\ \A i \in 1 .. Len(deque) : /\ deque[i] \in StampedBy(T)
                                         /\ deque[i].stamp \in Int
                                         /\ deque[i].transform \in T
<1>1. Len(deque) \in Nat /\ DOMAIN deque = 1 .. Len(deque)
  OBVIOUS
<1>2. ASSUME NEW i \in 1 .. Len(deque)
      PROVE  deque[i] \in StampedBy(T) /\ deque[i].stamp \in Int /\ deque[i].transform \in T
  <2>1. deque[i] \in StampedBy(T)
    BY ElementOfSeq
  <2>2. QED
    BY <2>1 DEF StampedBy
<1>3. QED
  BY <1>1, <1>2

(* The position std::lower_bound returns: the entries before it are        *)
(* earlier than t, the one at it (if there is one) is not.                 *)
LEMMA LowerBoundProperties ==
    ASSUME NEW T, NEW deque \in Seq(StampedBy(T)), NEW t \in Int
    PROVE  /\ LowerBound(deque, t) \in 1 .. Len(deque) + 1
           /\ LowerBound(deque, t) <= Len(deque) => deque[LowerBound(deque, t)].stamp >= t
           /\ \A i \in 1 .. LowerBound(deque, t) - 1 : deque[i].stamp < t
<1> DEFINE S == NotBefore(deque, t)
           p == Min(S)
<1>1. Len(deque) \in Nat /\ \A i \in 1 .. Len(deque) : deque[i].stamp \in Int
  BY DequeEntries
<1>2. S \in SUBSET Nat /\ Len(deque) + 1 \in S
  BY <1>1 DEF NotBefore
<1> HIDE DEF S
<1>3. p \in S /\ \A y \in S : p <= y
  BY <1>2, MinOfNaturals
<1>4. p \in 1 .. Len(deque) + 1 /\ (p <= Len(deque) => deque[p].stamp >= t)
  BY <1>3 DEF NotBefore, S
<1>5. ASSUME NEW i \in 1 .. p - 1 PROVE deque[i].stamp < t
  <2>1. i \in 1 .. Len(deque) /\ ~(p <= i)
    BY <1>1, <1>4
  <2>2. i \notin S
    BY <1>3, <2>1
  <2>3. ~(deque[i].stamp >= t)
    BY <1>1, <2>1, <2>2 DEF NotBefore, S
  <2>4. QED
    BY <1>1, <2>1, <2>3
<1>6. QED
  BY <1>4, <1>5 DEF LowerBound, S

(* std::deque::insert before a position, element by element.               *)
LEMMA InsertAtProperties ==
    ASSUME NEW S, NEW s \in Seq(S), NEW p \in 1 .. Len(s) + 1, NEW e \in S
    PROVE  /\ InsertAt(s, p, e) \in Seq(S)
           /\ Len(InsertAt(s, p, e)) = Len(s) + 1
           /\ \A j \in 1 .. Len(s) + 1 :
                 InsertAt(s, p, e)[j] = IF j < p THEN s[j]
                                        ELSE IF j = p THEN e ELSE s[j - 1]
<1>1. /\ Len(s) \in Nat /\ p \in Nat /\ p >= 1 /\ p <= Len(s) + 1
      /\ \A i \in 1 .. Len(s) : s[i] \in S
  BY ElementOfSeq, LenProperties
<1> DEFINE a == SubSeq(s, 1, p - 1)
           b == SubSeq(s, p, Len(s))
           c == a \o <<e>>
<1>2. /\ a \in Seq(S)
      /\ Len(a) = p - 1
      /\ \A i \in 1 .. p - 1 : a[i] = s[i]
  BY <1>1
<1>3. /\ b \in Seq(S)
      /\ Len(b) = Len(s) - p + 1
      /\ \A i \in 1 .. Len(s) - p + 1 : b[i] = s[p + i - 1]
  BY <1>1
<1>4. /\ <<e>> \in Seq(S)
      /\ Len(<<e>>) = 1
      /\ <<e>>[1] = e
  OBVIOUS
<1>5. InsertAt(s, p, e) = c \o b
  BY DEF InsertAt
<1> HIDE DEF a, b
<1>6. /\ c \in Seq(S)
      /\ Len(c) = p
  BY <1>1, <1>2, <1>4
<1>7. \A j \in 1 .. p : c[j] = IF j < p THEN s[j] ELSE e
  BY <1>1, <1>2, <1>4
<1> HIDE DEF c
<1>8. /\ c \o b \in Seq(S)
      /\ Len(c \o b) = Len(s) + 1
  <2>1. c \o b \in Seq(S) /\ Len(c \o b) = Len(c) + Len(b)
    BY <1>3, <1>6, ConcatProperties
  <2>2. QED
    BY <1>1, <1>3, <1>6, <2>1
<1>9. \A j \in 1 .. Len(s) + 1 : (c \o b)[j] = IF j <= p THEN c[j] ELSE b[j - p]
  BY <1>1, <1>3, <1>6
<1>10. \A j \in 1 .. Len(s) + 1 : j > p => b[j - p] = s[j - 1]
  BY <1>1, <1>3
<1>11. QED
  BY <1>1, <1>5, <1>7, <1>8, <1>9, <1>10

(* What Place leaves behind: a sorted deque that holds the new entry and   *)
(* every old one of another stamp, and nothing else.                       *)
LEMMA PlaceProperties ==
    ASSUME NEW T, NEW deque \in Seq(StampedBy(T)), StrictlySorted(deque),
           NEW t \in Int, NEW x \in T
    PROVE  /\ Place(deque, t, x) \in Seq(StampedBy(T))
           /\ Len(Place(deque, t, x)) >= 1
           /\ StrictlySorted(Place(deque, t, x))
           /\ Content(Place(deque, t, x)) =
                {e \in Content(deque) : e.stamp # t} \cup {Entry(t, x)}
<1> DEFINE p == LowerBound(deque, t)
           e == Entry(t, x)
           r == Place(deque, t, x)
<1>1. /\ Len(deque) \in Nat
      /\ DOMAIN deque = 1 .. Len(deque)
      /\ \A i \in 1 .. Len(deque) : deque[i] \in StampedBy(T) /\ deque[i].stamp \in Int
  BY DequeEntries
<1>2. /\ p \in 1 .. Len(deque) + 1
      /\ p <= Len(deque) => deque[p].stamp >= t
      /\ \A i \in 1 .. p - 1 : deque[i].stamp < t
  BY LowerBoundProperties
<1>3. e \in StampedBy(T) /\ e.stamp = t
  BY DEF Entry, StampedBy
<1>4. \A i, j \in 1 .. Len(deque) : i < j => deque[i].stamp < deque[j].stamp
  BY <1>1 DEF StrictlySorted
<1> HIDE DEF p, e
<1>5. CASE p <= Len(deque) /\ deque[p].stamp = t
  <2>1. r = [deque EXCEPT ![p] = e]
    BY <1>5 DEF Place, p, e
  <2>2. /\ r \in Seq(StampedBy(T))
        /\ Len(r) = Len(deque)
        /\ DOMAIN r = 1 .. Len(deque)
        /\ \A i \in 1 .. Len(deque) : r[i] = IF i = p THEN e ELSE deque[i]
    BY <1>1, <1>2, <1>3, <1>5, <2>1
  <2> HIDE DEF r
  <2>3. \A i \in 1 .. Len(deque) : r[i].stamp = deque[i].stamp
    BY <1>3, <1>5, <2>2
  <2>4. StrictlySorted(r)
    BY <1>4, <2>2, <2>3 DEF StrictlySorted
  <2>5. \A i \in 1 .. Len(deque) : i # p => deque[i].stamp # t
    BY <1>1, <1>2, <1>4, <1>5
  <2>6. Content(r) = {f \in Content(deque) : f.stamp # t} \cup {e}
    BY <1>1, <1>2, <1>5, <2>2, <2>5 DEF Content
  <2>7. QED
    BY <1>1, <1>2, <1>5, <2>2, <2>4, <2>6 DEF r, e
<1>6. CASE ~(p <= Len(deque) /\ deque[p].stamp = t)
  <2>1. r = InsertAt(deque, p, e)
    BY <1>6 DEF Place, p, e
  <2> HIDE DEF r
  <2>2. /\ r \in Seq(StampedBy(T))
        /\ Len(r) = Len(deque) + 1
        /\ \A j \in 1 .. Len(deque) + 1 :
              r[j] = IF j < p THEN deque[j] ELSE IF j = p THEN e ELSE deque[j - 1]
    <3>1. /\ InsertAt(deque, p, e) \in Seq(StampedBy(T))
          /\ Len(InsertAt(deque, p, e)) = Len(deque) + 1
          /\ \A j \in 1 .. Len(deque) + 1 :
                InsertAt(deque, p, e)[j] =
                    IF j < p THEN deque[j] ELSE IF j = p THEN e ELSE deque[j - 1]
      BY <1>2, <1>3, InsertAtProperties
    <3>2. QED
      BY <2>1, <3>1
  <2>3. DOMAIN r = 1 .. Len(deque) + 1
    BY <2>2
  <2>4. \A i \in 1 .. Len(deque) : i >= p => deque[i].stamp > t
    BY <1>1, <1>2, <1>4, <1>6
  <2>5. ASSUME NEW i \in 1 .. Len(deque) + 1, NEW j \in 1 .. Len(deque) + 1, i < j
        PROVE  r[i].stamp < r[j].stamp
    <3>1. CASE j < p
      <4>1. i < p /\ i \in 1 .. Len(deque) /\ j \in 1 .. Len(deque)
        BY <1>1, <1>2, <2>5, <3>1
      <4>2. r[i] = deque[i] /\ r[j] = deque[j]
        BY <2>2, <3>1, <4>1
      <4>3. QED
        BY <1>4, <2>5, <4>1, <4>2
    <3>2. CASE j = p
      <4>1. r[j].stamp = t /\ r[i] = deque[i] /\ i \in 1 .. p - 1
        BY <1>2, <1>3, <2>2, <2>5, <3>2
      <4>2. QED
        BY <1>2, <4>1
    <3>3. CASE j > p /\ i < p
      <4>1. r[i] = deque[i] /\ i \in 1 .. p - 1 /\ deque[i].stamp < t /\ i \in 1 .. Len(deque)
        BY <1>1, <1>2, <2>2, <3>3
      <4>2. r[j] = deque[j - 1] /\ j - 1 \in 1 .. Len(deque) /\ j - 1 >= p
        BY <1>1, <1>2, <2>2, <3>3
      <4>3. deque[j - 1].stamp > t
        BY <2>4, <4>2
      <4>4. deque[j - 1].stamp \in Int /\ deque[i].stamp \in Int
        BY <1>1, <4>1, <4>2
      <4>5. QED
        BY <4>1, <4>2, <4>3, <4>4
    <3>4. CASE j > p /\ i = p
      <4>1. r[j] = deque[j - 1] /\ j - 1 \in 1 .. Len(deque) /\ j - 1 >= p
        BY <1>1, <1>2, <2>2, <3>4
      <4>2. r[i].stamp = t /\ deque[j - 1].stamp > t /\ deque[j - 1].stamp \in Int
        BY <1>1, <1>3, <2>2, <2>4, <3>4, <4>1
      <4>3. QED
        BY <4>1, <4>2
    <3>5. CASE j > p /\ i > p
      <4>1. r[j] = deque[j - 1] /\ j - 1 \in 1 .. Len(deque)
        BY <1>1, <1>2, <2>2, <3>5
      <4>2. r[i] = deque[i - 1] /\ i - 1 \in 1 .. Len(deque) /\ i - 1 < j - 1
        BY <1>1, <1>2, <2>2, <2>5, <3>5
      <4>3. QED
        BY <1>4, <4>1, <4>2
    <3>6. QED
      BY <1>1, <1>2, <3>1, <3>2, <3>3, <3>4, <3>5
  <2>6. StrictlySorted(r)
    BY <2>3, <2>5 DEF StrictlySorted
  <2>7. Content(r) \subseteq {f \in Content(deque) : f.stamp # t} \cup {e}
    <3>1. ASSUME NEW j \in 1 .. Len(deque) + 1
          PROVE  r[j] \in {f \in Content(deque) : f.stamp # t} \cup {e}
      <4>1. CASE j < p
        <5>1. j \in 1 .. Len(deque) /\ j \in 1 .. p - 1 /\ r[j] = deque[j]
          BY <1>1, <1>2, <2>2, <4>1
        <5>2. deque[j].stamp < t /\ deque[j].stamp \in Int
          BY <1>1, <1>2, <5>1
        <5>3. QED
          BY <1>1, <5>1, <5>2 DEF Content
      <4>2. CASE j = p
        BY <1>2, <2>2, <4>2
      <4>3. CASE j > p
        <5>1. j - 1 \in 1 .. Len(deque) /\ j - 1 >= p /\ r[j] = deque[j - 1]
          <6>1. j \in Nat /\ p \in Nat /\ 1 <= p /\ ~(j < p) /\ j # p
            BY <1>1, <1>2, <4>3
          <6>2. r[j] = deque[j - 1]
            BY <2>2, <6>1
          <6>3. QED
            BY <1>1, <4>3, <6>1, <6>2
        <5>2. deque[j - 1].stamp > t /\ deque[j - 1].stamp \in Int
          BY <1>1, <2>4, <5>1
        <5>3. QED
          BY <1>1, <5>1, <5>2 DEF Content
      <4>4. QED
        BY <1>1, <1>2, <4>1, <4>2, <4>3
    <3>2. QED
      BY <2>3, <3>1 DEF Content
  <2>8. {f \in Content(deque) : f.stamp # t} \cup {e} \subseteq Content(r)
    <3>1. e \in Content(r)
      <4>1. p \in DOMAIN r /\ r[p] = e
        BY <1>1, <1>2, <2>2, <2>3
      <4>2. QED
        BY <4>1 DEF Content
    <3>2. ASSUME NEW i \in 1 .. Len(deque) PROVE deque[i] \in Content(r)
      <4>1. CASE i < p
        <5>1. i \in DOMAIN r /\ r[i] = deque[i]
          BY <1>1, <1>2, <2>2, <2>3, <4>1
        <5>2. QED
          BY <5>1 DEF Content
      <4>2. CASE i >= p
        <5>1. i + 1 \in DOMAIN r /\ r[i + 1] = deque[i]
          BY <1>1, <1>2, <2>2, <2>3, <4>2
        <5>2. QED
          BY <5>1 DEF Content
      <4>3. QED
        BY <1>1, <1>2, <4>1, <4>2
    <3>3. QED
      BY <1>1, <3>1, <3>2 DEF Content
  <2>9. QED
    BY <1>1, <2>2, <2>6, <2>7, <2>8 DEF r, e
<1>7. QED
  BY <1>5, <1>6

(* What Expire leaves behind: the newest entry, and of the others those    *)
(* that lie within the duration of it.                                     *)
LEMMA ExpireProperties ==
    ASSUME NEW T, NEW deque \in Seq(StampedBy(T)), StrictlySorted(deque),
           Len(deque) >= 1, NEW d \in Int
    PROVE  /\ Expire(deque, d) \in Seq(StampedBy(T))
           /\ Len(Expire(deque, d)) >= 1
           /\ StrictlySorted(Expire(deque, d))
           /\ Newest(Expire(deque, d)) = Newest(deque)
           /\ Content(Expire(deque, d)) =
                {e \in Content(deque) : d <= 0 \/ e.stamp >= Newest(deque).stamp - d}
<1>1. /\ Len(deque) \in Nat
      /\ DOMAIN deque = 1 .. Len(deque)
      /\ \A i \in 1 .. Len(deque) : deque[i] \in StampedBy(T) /\ deque[i].stamp \in Int
  BY DequeEntries
<1>2. \A i, j \in 1 .. Len(deque) : i < j => deque[i].stamp < deque[j].stamp
  BY <1>1 DEF StrictlySorted
<1> DEFINE n == Len(deque)
           oldest == deque[n].stamp - d
           p == LowerBound(deque, oldest)
           r == Expire(deque, d)
<1>3. CASE d <= 0
  BY <1>3 DEF Expire, Content
<1>4. CASE ~(d <= 0)
  <2>1. oldest \in Int /\ deque[n].stamp \in Int
    BY <1>1
  <2>2. /\ p \in 1 .. n + 1
        /\ p <= n => deque[p].stamp >= oldest
        /\ \A i \in 1 .. p - 1 : deque[i].stamp < oldest
    BY <2>1, LowerBoundProperties
  <2>3. r = SubSeq(deque, p, n)
    BY <1>4 DEF Expire, Newest
  <2> HIDE DEF p, r
  <2>4. p <= n
    <3>1. SUFFICES ASSUME p = n + 1 PROVE FALSE
      BY <1>1, <2>2
    <3>2. deque[n].stamp < deque[n].stamp - d
      BY <1>1, <2>2, <3>1
    <3>3. QED
      BY <1>4, <2>1, <3>2
  <2>5. /\ r \in Seq(StampedBy(T))
        /\ Len(r) = n - p + 1
        /\ \A i \in 1 .. n - p + 1 : r[i] = deque[p + i - 1]
    BY <1>1, <2>2, <2>3, <2>4
  <2>6. DOMAIN r = 1 .. n - p + 1
    BY <2>5
  <2>7. \A i \in 1 .. n - p + 1 : p + i - 1 \in 1 .. n
    BY <1>1, <2>2, <2>4
  <2>8. StrictlySorted(r)
    <3>1. ASSUME NEW i \in 1 .. n - p + 1, NEW j \in 1 .. n - p + 1, i < j
          PROVE  r[i].stamp < r[j].stamp
      <4>1. p + i - 1 < p + j - 1
        BY <1>1, <2>2, <3>1
      <4>2. QED
        BY <1>2, <2>5, <2>7, <4>1
    <3>2. QED
      BY <2>6, <3>1 DEF StrictlySorted
  <2>9. Newest(r) = Newest(deque)
    <3>1. Len(r) \in 1 .. n - p + 1 /\ p + Len(r) - 1 = n
      BY <1>1, <2>2, <2>4, <2>5
    <3>2. QED
      BY <2>5, <3>1 DEF Newest
  <2>10. \A i \in 1 .. n : i >= p => deque[i].stamp >= oldest
    BY <1>1, <1>2, <2>1, <2>2, <2>4
  <2>11. ASSUME NEW i \in 1 .. n, deque[i].stamp >= oldest PROVE deque[i] \in Content(r)
    <3>1. i >= p
      <4>1. ~(i \in 1 .. p - 1)
        BY <1>1, <2>1, <2>2, <2>11
      <4>2. QED
        BY <1>1, <2>2, <4>1
    <3>2. i - p + 1 \in 1 .. n - p + 1 /\ p + (i - p + 1) - 1 = i
      BY <1>1, <2>2, <3>1
    <3>3. r[i - p + 1] = deque[i]
      BY <2>5, <3>2
    <3>4. QED
      BY <2>6, <3>2, <3>3 DEF Content
  <2>12. ASSUME NEW i \in 1 .. n - p + 1
         PROVE  r[i] \in Content(deque) /\ r[i].stamp >= oldest
    <3>1. p + i - 1 \in 1 .. n /\ p + i - 1 >= p /\ r[i] = deque[p + i - 1]
      BY <1>1, <2>2, <2>5, <2>7
    <3>2. QED
      BY <1>1, <2>10, <3>1 DEF Content
  <2>13. Content(r) = {e \in Content(deque) : d <= 0 \/ e.stamp >= oldest}
    BY <1>1, <1>4, <2>6, <2>11, <2>12 DEF Content
  <2>14. QED
    BY <1>1, <2>2, <2>4, <2>5, <2>8, <2>9, <2>13 DEF r, Newest
<1>5. QED
  BY <1>3, <1>4

(* The ends of a sorted deque are its extreme entries.                     *)
LEMMA EndsAreExtremes ==
    ASSUME NEW T, NEW deque \in Seq(StampedBy(T)), StrictlySorted(deque),
           Len(deque) >= 1
    PROVE  /\ Newest(deque) \in Content(deque) /\ Oldest(deque) \in Content(deque)
           /\ \A e \in Content(deque) : /\ e.stamp <= Newest(deque).stamp
                                        /\ e.stamp >= Oldest(deque).stamp
<1>1. /\ Len(deque) \in Nat
      /\ DOMAIN deque = 1 .. Len(deque)
      /\ \A i \in 1 .. Len(deque) : deque[i].stamp \in Int
  BY DequeEntries
<1>2. \A i, j \in 1 .. Len(deque) : i < j => deque[i].stamp < deque[j].stamp
  BY <1>1 DEF StrictlySorted
<1> DEFINE n == Len(deque)
<1>3. n \in Nat /\ n >= 1
  BY <1>1
<1> HIDE DEF n
<1>4. 1 \in 1 .. n /\ n \in 1 .. n
  BY <1>3
<1>5. ASSUME NEW i \in 1 .. n
      PROVE  deque[i].stamp <= deque[n].stamp /\ deque[i].stamp >= deque[1].stamp
  <2>1. (i = n \/ i < n) /\ (i = 1 \/ 1 < i)
    BY <1>3
  <2>2. /\ i < n => deque[i].stamp < deque[n].stamp
        /\ 1 < i => deque[1].stamp < deque[i].stamp
    BY <1>2, <1>4 DEF n
  <2>3. deque[i].stamp \in Int /\ deque[n].stamp \in Int /\ deque[1].stamp \in Int
    BY <1>1, <1>4 DEF n
  <2>4. QED
    BY <2>1, <2>2, <2>3
<1>6. QED
  BY <1>1, <1>4, <1>5 DEF Content, Newest, Oldest, n

(* A sorted deque stores a stamp once.                                     *)
LEMMA OneEntryPerStamp ==
    ASSUME NEW T, NEW deque \in Seq(StampedBy(T)), StrictlySorted(deque),
           NEW e \in Content(deque), NEW f \in Content(deque), e.stamp = f.stamp
    PROVE  e = f
<1>1. /\ Len(deque) \in Nat
      /\ DOMAIN deque = 1 .. Len(deque)
      /\ \A i \in 1 .. Len(deque) : deque[i].stamp \in Int
  BY DequeEntries
<1>2. PICK i \in 1 .. Len(deque), j \in 1 .. Len(deque) : e = deque[i] /\ f = deque[j]
  BY <1>1 DEF Content
<1>3. ~(deque[i].stamp < deque[j].stamp) /\ ~(deque[j].stamp < deque[i].stamp)
  BY <1>1, <1>2
<1>4. ~(i < j) /\ ~(j < i)
  BY <1>1, <1>3 DEF StrictlySorted
<1>5. i = j
  BY <1>1, <1>4
<1>6. QED
  BY <1>2, <1>5

(* insert as a whole: the result is sorted and not empty, its newest entry *)
(* is at least as new as everything before and the one inserted, and it    *)
(* holds exactly what lies within the duration of that newest entry.       *)
LEMMA InsertIntoProperties ==
    ASSUME NEW T, NEW deque \in Seq(StampedBy(T)), StrictlySorted(deque),
           NEW d \in Int, NEW t \in Int, NEW x \in T
    PROVE  LET r == InsertInto(deque, d, t, x)
               offered == {e \in Content(deque) : e.stamp # t} \cup {Entry(t, x)}
           IN  /\ r \in Seq(StampedBy(T))
               /\ Len(r) >= 1
               /\ StrictlySorted(r)
               /\ Newest(r) \in offered
               /\ \A e \in offered : e.stamp <= Newest(r).stamp
               /\ Content(r) = {e \in offered : d <= 0 \/ e.stamp >= Newest(r).stamp - d}
<1> DEFINE placed == Place(deque, t, x)
           r == InsertInto(deque, d, t, x)
           offered == {e \in Content(deque) : e.stamp # t} \cup {Entry(t, x)}
<1>1. /\ placed \in Seq(StampedBy(T))
      /\ Len(placed) >= 1
      /\ StrictlySorted(placed)
      /\ Content(placed) = offered
  BY PlaceProperties
<1> HIDE DEF placed, offered
<1>2. /\ Newest(placed) \in offered
      /\ \A e \in offered : e.stamp <= Newest(placed).stamp
  BY <1>1, EndsAreExtremes
<1>3. r = Expire(placed, d)
  BY DEF InsertInto, placed
<1> HIDE DEF r
<1>4. /\ r \in Seq(StampedBy(T))
      /\ Len(r) >= 1
      /\ StrictlySorted(r)
      /\ Newest(r) = Newest(placed)
      /\ Content(r) = {e \in offered : d <= 0 \/ e.stamp >= Newest(placed).stamp - d}
  BY <1>1, <1>3, ExpireProperties
<1>5. QED
  BY <1>2, <1>4 DEF r, offered

-----------------------------------------------------------------------------

(* The stamps of a deque, read off its content.                            *)
LEMMA StampsOfContent ==
    ASSUME NEW deque
    PROVE  Stamps(deque) = {e.stamp : e \in Content(deque)}
BY DEF Stamps, Content

(* The map a sorted deque stands for has the deque's entries for its graph.*)
LEMMA GraphOfMap ==
    ASSUME NEW T, NEW deque \in Seq(StampedBy(T)), StrictlySorted(deque),
           NEW e \in Content(deque)
    PROVE  e.stamp \in DOMAIN AsMap(deque) /\ AsMap(deque)[e.stamp] = e.transform
<1> DEFINE i == CHOOSE j \in DOMAIN deque : deque[j].stamp = e.stamp
<1>1. i \in DOMAIN deque /\ deque[i].stamp = e.stamp
  BY DEF Content
<1>2. deque[i] = e
  BY <1>1, OneEntryPerStamp DEF Content
<1>3. e.stamp \in Stamps(deque)
  BY DEF Content, Stamps
<1>4. AsMap(deque)[e.stamp] = deque[i].transform
  BY <1>3 DEF AsMap
<1>5. QED
  BY <1>2, <1>3, <1>4 DEF AsMap

(* A map with one stamp written, and a map without what lies further       *)
(* behind its newest stamp than a duration.                                *)
MapWith(map, t, x) == [u \in DOMAIN map \cup {t} |-> IF u = t THEN x ELSE map[u]]

MapWithin(map, d) ==
    [s \in {v \in DOMAIN map : d <= 0 \/ \A u \in DOMAIN map : v >= u - d} |-> map[s]]

(* One insertion into the deque, expiry included, is one change of the map *)
(* it stands for.                                                          *)
LEMMA InsertIntoMap ==
    ASSUME NEW T, NEW deque \in Seq(StampedBy(T)), StrictlySorted(deque),
           NEW d \in Int, NEW t \in Int, NEW x \in T
    PROVE  AsMap(InsertInto(deque, d, t, x)) = MapWithin(MapWith(AsMap(deque), t, x), d)
<1> DEFINE W == MapWith(AsMap(deque), t, x)
           kept == {s \in DOMAIN W : d <= 0 \/ \A u \in DOMAIN W : s >= u - d}
           r == InsertInto(deque, d, t, x)
           offered == {e \in Content(deque) : e.stamp # t} \cup {Entry(t, x)}
           newest == Newest(r)
<1>1. /\ r \in Seq(StampedBy(T)) /\ StrictlySorted(r)
      /\ newest \in offered
      /\ \A e \in offered : e.stamp <= newest.stamp
      /\ Content(r) = {e \in offered : d <= 0 \/ e.stamp >= newest.stamp - d}
  BY InsertIntoProperties
<1>2. ASSUME NEW e \in offered PROVE e.stamp \in Int
  <2>1. CASE e = Entry(t, x)
    BY <2>1 DEF Entry
  <2>2. CASE e \in Content(deque)
    BY <2>2, DequeEntries DEF Content
  <2>3. QED
    BY <2>1, <2>2
<1>3. DOMAIN W = Stamps(deque) \cup {t}
  BY DEF MapWith, AsMap
<1>4. \A u \in DOMAIN W : W[u] = IF u = t THEN x ELSE AsMap(deque)[u]
  BY DEF MapWith
<1>5. ASSUME NEW e \in offered PROVE e.stamp \in DOMAIN W /\ W[e.stamp] = e.transform
  <2>1. CASE e = Entry(t, x)
    <3>1. e.stamp = t /\ e.transform = x
      BY <2>1 DEF Entry
    <3>2. QED
      BY <1>3, <1>4, <3>1
  <2>2. CASE e \in Content(deque) /\ e.stamp # t
    <3>1. AsMap(deque)[e.stamp] = e.transform
      BY <2>2, GraphOfMap
    <3>2. e.stamp \in Stamps(deque)
      BY <2>2, StampsOfContent
    <3>3. QED
      BY <1>3, <1>4, <2>2, <3>1, <3>2
  <2>3. QED
    BY <2>1, <2>2
<1>6. ASSUME NEW u \in DOMAIN W PROVE \E e \in offered : e.stamp = u
  <2>1. CASE u = t
    <3>1. Entry(t, x) \in offered /\ Entry(t, x).stamp = t
      BY DEF Entry
    <3>2. QED
      BY <2>1, <3>1
  <2>2. CASE u # t
    BY <1>3, <2>2, StampsOfContent
  <2>3. QED
    BY <2>1, <2>2
<1> HIDE DEF offered, W, r
<1>7. ASSUME NEW e \in offered
      PROVE  (d <= 0 \/ \A v \in DOMAIN W : e.stamp >= v - d)
                <=> (d <= 0 \/ e.stamp >= newest.stamp - d)
  <2>1. newest.stamp \in DOMAIN W /\ newest.stamp \in Int /\ e.stamp \in Int
    BY <1>1, <1>2, <1>5
  <2>2. ASSUME NEW v \in DOMAIN W PROVE v \in Int /\ v <= newest.stamp
    BY <1>1, <1>2, <1>6
  <2>3. QED
    BY <2>1, <2>2
<1>8. kept = Stamps(r)
  <2>1. \A u : u \in kept <=>
            \E e \in offered : /\ e.stamp = u
                               /\ d <= 0 \/ \A v \in DOMAIN W : u >= v - d
    BY <1>5, <1>6
  <2>2. \A u : u \in Stamps(r) <=>
            \E e \in offered : /\ e.stamp = u
                               /\ d <= 0 \/ e.stamp >= newest.stamp - d
    BY <1>1, StampsOfContent
  <2>3. \A u : u \in kept <=> u \in Stamps(r)
    BY <1>7, <2>1, <2>2
  <2>4. QED
    BY <2>3
<1>9. ASSUME NEW u \in Stamps(r) PROVE AsMap(r)[u] = W[u]
  <2>1. PICK e \in Content(r) : e.stamp = u
    BY StampsOfContent
  <2>2. AsMap(r)[u] = e.transform
    BY <1>1, <2>1, GraphOfMap
  <2>3. W[u] = e.transform
    BY <1>1, <1>5, <2>1
  <2>4. QED
    BY <2>2, <2>3
<1>10. AsMap(r) = [u \in Stamps(r) |-> AsMap(r)[u]]
  BY DEF AsMap
<1> HIDE DEF kept
<1>11. AsMap(r) = [u \in kept |-> W[u]]
  BY <1>8, <1>9, <1>10
<1>12. QED
  BY <1>11 DEF W, kept, r, MapWithin

-----------------------------------------------------------------------------

(* Strictly between its ends a deque answers with the entry of that stamp, *)
(* or with the interpolation of two neighbouring entries around it.        *)
LEMMA LookupBetween ==
    ASSUME NEW T, NEW deque \in Seq(StampedBy(T)), StrictlySorted(deque), Len(deque) >= 1,
           NEW t \in Int, t # 0, t > Oldest(deque).stamp, t < Newest(deque).stamp
    PROVE  \/ \E e \in Content(deque) : e.stamp = t /\ Lookup(deque, t) = e.transform
           \/ \E lo, hi \in Content(deque) :
                 /\ lo.stamp < t /\ t < hi.stamp
                 /\ \A e \in Content(deque) : e.stamp <= lo.stamp \/ e.stamp >= hi.stamp
                 /\ Lookup(deque, t) =
                       Interpolate(lo.transform, hi.transform,
                                   t - lo.stamp, hi.stamp - lo.stamp)
<1> DEFINE upper == LowerBound(deque, t)
<1>1. /\ Len(deque) \in Nat
      /\ DOMAIN deque = 1 .. Len(deque)
      /\ \A i \in 1 .. Len(deque) : deque[i].stamp \in Int
  BY DequeEntries
<1>2. /\ upper \in 1 .. Len(deque) + 1
      /\ upper <= Len(deque) => deque[upper].stamp >= t
      /\ \A i \in 1 .. upper - 1 : deque[i].stamp < t
  BY LowerBoundProperties
<1>3. Lookup(deque, t) = IF deque[upper].stamp = t \/ upper = 1
                         THEN deque[upper].transform
                         ELSE Between(deque, upper, t)
  <2>1. ~(t <= Oldest(deque).stamp) /\ ~(t >= Newest(deque).stamp)
    <3>1. 1 \in 1 .. Len(deque) /\ Len(deque) \in 1 .. Len(deque)
      BY <1>1
    <3>2. Oldest(deque).stamp \in Int /\ Newest(deque).stamp \in Int
      BY <1>1, <3>1 DEF Oldest, Newest
    <3>3. QED
      BY <3>2
  <2>2. QED
    BY <2>1 DEF Lookup
<1> HIDE DEF upper
<1>4. upper \in 2 .. Len(deque)
  <2>1. upper # Len(deque) + 1
    <3>1. upper = Len(deque) + 1 => Len(deque) \in 1 .. upper - 1
      BY <1>1
    <3>2. ~(deque[Len(deque)].stamp < t)
      BY <1>1 DEF Newest
    <3>3. QED
      BY <1>2, <3>1, <3>2
  <2>2. upper # 1
    <3>1. ~(deque[1].stamp >= t)
      BY <1>1 DEF Oldest
    <3>2. QED
      BY <1>1, <1>2, <3>1
  <2>3. QED
    BY <1>1, <1>2, <2>1, <2>2
<1>5. CASE deque[upper].stamp = t
  <2>1. deque[upper] \in Content(deque)
    BY <1>1, <1>4 DEF Content
  <2>2. Lookup(deque, t) = deque[upper].transform
    BY <1>3, <1>5
  <2>3. QED
    BY <1>5, <2>1, <2>2
<1>6. CASE deque[upper].stamp # t
  <2> DEFINE lo == deque[upper - 1]
             hi == deque[upper]
  <2>1. /\ upper \in 1 .. Len(deque) /\ upper - 1 \in 1 .. Len(deque)
        /\ upper - 1 \in 1 .. upper - 1 /\ upper \in Int /\ upper # 1
    BY <1>1, <1>4
  <2>2. lo \in Content(deque) /\ hi \in Content(deque)
    BY <1>1, <2>1 DEF Content
  <2>3. lo.stamp \in Int /\ hi.stamp \in Int /\ lo.stamp < t /\ t < hi.stamp
    <3>1. lo.stamp \in Int /\ hi.stamp \in Int
      BY <1>1, <2>1
    <3>2. lo.stamp < t
      BY <1>2, <2>1
    <3>3. hi.stamp >= t
      BY <1>2, <2>1
    <3>4. QED
      BY <1>6, <3>1, <3>2, <3>3
  <2>4. ASSUME NEW e \in Content(deque)
        PROVE  e.stamp <= lo.stamp \/ e.stamp >= hi.stamp
    <3>1. PICK i \in 1 .. Len(deque) : e = deque[i]
      BY <1>1 DEF Content
    <3>2. \A j, k \in 1 .. Len(deque) : j < k => deque[j].stamp < deque[k].stamp
      BY <1>1 DEF StrictlySorted
    <3>3. i < upper - 1 \/ i = upper - 1 \/ i = upper \/ upper < i
      BY <2>1
    <3>4. e.stamp \in Int
      BY <1>1, <3>1
    <3>5. QED
      BY <2>1, <2>3, <3>1, <3>2, <3>3, <3>4
  <2>5. Lookup(deque, t) =
            Interpolate(lo.transform, hi.transform, t - lo.stamp, hi.stamp - lo.stamp)
    <3>1. Lookup(deque, t) = Between(deque, upper, t)
      BY <1>3, <1>6, <2>1
    <3>2. ~(hi.stamp - lo.stamp <= 0)
      BY <2>3
    <3>3. QED
      BY <3>1, <3>2 DEF Between
  <2>6. QED
    BY <2>2, <2>3, <2>4, <2>5
<1>7. QED
  BY <1>5, <1>6

(* At a stamp it stores a deque answers with what it stores there.         *)
LEMMA LookupAtStamp ==
    ASSUME NEW T, NEW deque \in Seq(StampedBy(T)), StrictlySorted(deque),
           NEW t \in Stamps(deque), t # 0
    PROVE  Lookup(deque, t) = AsMap(deque)[t]
<1>1. PICK e \in Content(deque) : e.stamp = t
  BY StampsOfContent
<1>2. AsMap(deque)[t] = e.transform
  BY <1>1, GraphOfMap
<1>3. /\ Len(deque) >= 1
      /\ \A f \in Content(deque) : f.stamp \in Int
  <2>1. /\ Len(deque) \in Nat
        /\ DOMAIN deque = 1 .. Len(deque)
        /\ \A i \in 1 .. Len(deque) : deque[i].stamp \in Int
    BY DequeEntries
  <2>2. PICK i \in 1 .. Len(deque) : deque[i] = e
    BY <1>1, <2>1 DEF Content
  <2>3. QED
    BY <2>1, <2>2 DEF Content
<1>4. /\ Newest(deque) \in Content(deque) /\ Oldest(deque) \in Content(deque)
      /\ Oldest(deque).stamp <= t /\ t <= Newest(deque).stamp
  BY <1>1, <1>3, EndsAreExtremes
<1>5. t \in Int /\ Oldest(deque).stamp \in Int /\ Newest(deque).stamp \in Int
  BY <1>1, <1>3, <1>4
<1>6. CASE t <= Oldest(deque).stamp
  <2>1. Oldest(deque) = e
    BY <1>1, <1>4, <1>5, <1>6, OneEntryPerStamp
  <2>2. QED
    BY <1>2, <1>6, <2>1 DEF Lookup
<1>7. CASE ~(t <= Oldest(deque).stamp) /\ t >= Newest(deque).stamp
  <2>1. Newest(deque) = e
    BY <1>1, <1>4, <1>5, <1>7, OneEntryPerStamp
  <2>2. QED
    BY <1>2, <1>7, <2>1 DEF Lookup
<1>8. CASE ~(t <= Oldest(deque).stamp) /\ ~(t >= Newest(deque).stamp)
  <2>1. t > Oldest(deque).stamp /\ t < Newest(deque).stamp
    BY <1>5, <1>8
  <2>2. CASE \E f \in Content(deque) : f.stamp = t /\ Lookup(deque, t) = f.transform
    BY <1>1, <1>2, <2>2, OneEntryPerStamp
  <2>3. ASSUME NEW lo \in Content(deque), NEW hi \in Content(deque),
               lo.stamp < t, t < hi.stamp,
               \A f \in Content(deque) : f.stamp <= lo.stamp \/ f.stamp >= hi.stamp
        PROVE  FALSE
    BY <1>1, <1>3, <2>3
  <2>4. QED
    BY <1>3, <1>5, <2>1, <2>2, <2>3, LookupBetween
<1>9. QED
  BY <1>6, <1>7, <1>8

(* The extremes of a set of integers are what Max and Min choose.          *)
LEMMA MaxIs ==
    ASSUME NEW S \in SUBSET Int, NEW x \in S, \A y \in S : y <= x
    PROVE  Max(S) = x
<1>1. \A y \in S : x >= y
  OBVIOUS
<1>2. Max(S) \in S /\ \A y \in S : Max(S) >= y
  BY <1>1 DEF Max
<1> DEFINE z == Max(S)
<1>3. z \in Int /\ x \in Int /\ z <= x /\ z >= x
  <2> HIDE DEF z
  <2>1. z \in S /\ z >= x
    BY <1>2 DEF z
  <2>2. QED
    BY <2>1
<1> HIDE DEF z
<1>4. z = x
  BY <1>3
<1>5. QED
  BY <1>4 DEF z

LEMMA MinIs ==
    ASSUME NEW S \in SUBSET Int, NEW x \in S, \A y \in S : y >= x
    PROVE  Min(S) = x
<1>1. \A y \in S : x <= y
  OBVIOUS
<1>2. Min(S) \in S /\ \A y \in S : Min(S) <= y
  BY <1>1 DEF Min
<1> DEFINE z == Min(S)
<1>3. z \in Int /\ x \in Int /\ z <= x /\ z >= x
  <2> HIDE DEF z
  <2>1. z \in S /\ z <= x
    BY <1>2 DEF z
  <2>2. QED
    BY <2>1
<1> HIDE DEF z
<1>4. z = x
  BY <1>3
<1>5. QED
  BY <1>4 DEF z

-----------------------------------------------------------------------------
(* One graph.                                                              *)

WellFormed(g) ==
    /\ Typed(g)
    /\ NamesInverse(g)
    /\ ParentsPrecede(g)
    /\ EdgesListedOnce(g)
    /\ EdgesCarryData(g)

-----------------------------------------------------------------------------

(* The members of a typed graph.                                           *)
LEMMA GraphMembers ==
    ASSUME NEW g, Typed(g)
    PROVE  /\ g.frames \in Seq(Frames)
           /\ g.graph \in Seq(Seq(Nat))
           /\ g.duration \in Durations \cup {0}
           /\ g.duration \in Int
           /\ Len(g.frames) \in Nat
           /\ Len(g.frames) >= 1
           /\ Len(g.graph) = Len(g.frames)
           /\ Indices(g) = 1 .. Len(g.frames)
           /\ DOMAIN g.frames = Indices(g)
           /\ DOMAIN g.graph = Indices(g)
           /\ RootIndex \in Indices(g)
           /\ g = [frames        |-> g.frames,
                   graph         |-> g.graph,
                   name_to_index |-> g.name_to_index,
                   duration      |-> g.duration]
<1>1. /\ g.frames \in Seq(Frames)
      /\ g.graph \in Seq(Seq(Nat))
      /\ g.duration \in Durations \cup {0}
      /\ g = [frames        |-> g.frames,
              graph         |-> g.graph,
              name_to_index |-> g.name_to_index,
              duration      |-> g.duration]
  BY DEF Typed
<1>2. g.duration \in Int
  BY <1>1, DurationsAreIntegers
<1>3. Len(g.frames) >= 1 /\ Len(g.graph) = Len(g.frames)
  BY DEF Typed
<1>4. Len(g.frames) \in Nat /\ DOMAIN g.frames = 1 .. Len(g.frames)
  BY <1>1, LenProperties
<1>5. DOMAIN g.graph = 1 .. Len(g.graph)
  BY <1>1, LenProperties
<1>6. RootIndex \in 1 .. Len(g.frames)
  BY <1>3, <1>4 DEF RootIndex
<1>7. QED
  BY <1>1, <1>2, <1>3, <1>4, <1>5, <1>6 DEF Indices

(* What replacing one adjacency list, or one buffer, does to the members.  *)
LEMMA ReplacedList ==
    ASSUME NEW g, Typed(g), NEW p, NEW list
    PROVE  [g EXCEPT !.graph[p] = list] =
               [frames        |-> g.frames,
                graph         |-> [g.graph EXCEPT ![p] = list],
                name_to_index |-> g.name_to_index,
                duration      |-> g.duration]
<1>1. g = [frames        |-> g.frames,
           graph         |-> g.graph,
           name_to_index |-> g.name_to_index,
           duration      |-> g.duration]
  BY GraphMembers
<1>2. ASSUME NEW F, NEW G, NEW I, NEW D,
             g = [frames |-> F, graph |-> G, name_to_index |-> I, duration |-> D]
      PROVE  [g EXCEPT !.graph[p] = list] =
                 [frames |-> F, graph |-> [G EXCEPT ![p] = list],
                  name_to_index |-> I, duration |-> D]
  BY <1>2
<1>3. QED
  BY <1>1, <1>2

(* One frame and one adjacency list of a typed graph.                      *)
LEMMA FrameAndList ==
    ASSUME NEW g, Typed(g), NEW i \in Indices(g)
    PROVE  /\ g.frames[i] \in Frames
           /\ g.frames[i].name \in Names
           /\ g.frames[i].buffer \in Seq(Entries)
           /\ g.frames[i].duration \in Durations \cup {0}
           /\ g.frames[i].duration \in Int
           /\ g.graph[i] \in Seq(Nat)
           /\ Len(g.graph[i]) \in Nat
           /\ DOMAIN g.graph[i] = 1 .. Len(g.graph[i])
           /\ g.graph[i] # <<>> => Len(g.graph[i]) >= 1
<1>1. g.frames[i] \in Frames /\ g.graph[i] \in Seq(Nat)
  <2>1. i \in 1 .. Len(g.frames) /\ i \in 1 .. Len(g.graph)
    BY GraphMembers
  <2>2. g.frames \in Seq(Frames) /\ g.graph \in Seq(Seq(Nat))
    BY GraphMembers
  <2>3. g.frames[i] \in Frames
    BY <2>1, <2>2, ElementOfSeq
  <2>4. g.graph[i] \in Seq(Nat)
    BY <2>1, <2>2, ElementOfSeq
  <2>5. QED
    BY <2>3, <2>4
<1>2. /\ g.frames[i].name \in Names
      /\ g.frames[i].buffer \in Seq(Entries)
      /\ g.frames[i].duration \in Durations \cup {0}
  BY <1>1 DEF Frames
<1>3. g.frames[i].duration \in Int
  <2>1. Durations \cup {0} \subseteq Int
    BY DurationsAreIntegers
  <2>2. QED
    BY <1>2, <2>1, Zenon
<1>4. Len(g.graph[i]) \in Nat /\ DOMAIN g.graph[i] = 1 .. Len(g.graph[i])
  BY <1>1, LenProperties
<1>5. g.graph[i] # <<>> => Len(g.graph[i]) \in Nat \ {0}
  BY <1>1, EmptySeq
<1>6. QED
  BY <1>1, <1>2, <1>3, <1>4, <1>5

(* One insertion into the buffer of a frame.                               *)
LEMMA InsertKeepsBuffer ==
    ASSUME NEW deque \in Seq(Entries), StrictlySorted(deque),
           NEW d \in Int, NEW s \in Instants, NEW x \in Transforms
    PROVE  LET r == InsertInto(deque, d, s, x)
           IN  r \in Seq(Entries) /\ r # <<>> /\ StrictlySorted(r)
<1> DEFINE r == InsertInto(deque, d, s, x)
           offered == {e \in Content(deque) : e.stamp # s} \cup {Entry(s, x)}
<1>1. deque \in Seq(StampedBy(Transforms))
  <2>1. Entries \subseteq StampedBy(Transforms)
    BY InstantsAreIntegers DEF Entries, StampedBy
  <2>2. QED
    BY <2>1, SeqMonotonic
<1>2. s \in Int
  BY InstantsAreIntegers
<1>3. /\ r \in Seq(StampedBy(Transforms))
      /\ Len(r) >= 1
      /\ StrictlySorted(r)
      /\ Content(r) \subseteq offered
  BY <1>1, <1>2, InsertIntoProperties
<1>4. offered \subseteq Entries
  <2>1. Entry(s, x) \in Entries
    BY DEF Entry, Entries
  <2>2. ASSUME NEW e \in Content(deque) PROVE e \in Entries
    <3>1. PICK i \in DOMAIN deque : e = deque[i]
      BY DEF Content
    <3>2. i \in 1 .. Len(deque)
      BY <3>1
    <3>3. QED
      BY <3>1, <3>2, ElementOfSeq
  <2>3. QED
    BY <2>1, <2>2
<1>5. r \in Seq(Entries)
  <2> HIDE DEF r
  <2>1. Len(r) \in Nat /\ DOMAIN r = 1 .. Len(r)
    BY <1>3
  <2>2. ASSUME NEW i \in 1 .. Len(r) PROVE r[i] \in Entries
    <3>1. r[i] \in Content(r)
      BY <2>1, <2>2 DEF Content
    <3>2. QED
      BY <1>3, <1>4, <3>1
  <2>3. r = [i \in 1 .. Len(r) |-> r[i]]
    BY <1>3, <2>1
  <2>4. QED
    BY <2>1, <2>2, <2>3
<1>6. r # <<>>
  <2> HIDE DEF r
  <2>1. QED
    BY <1>3
<1>7. QED
  BY <1>3, <1>5, <1>6

-----------------------------------------------------------------------------

(* Only the root's list can be empty, and the slot it is then given says   *)
(* that it has no parent.                                                  *)
LEMMA SlotKeeps ==
    ASSUME NEW g, WellFormed(g), NEW p \in Indices(g)
    PROVE  LET h == WithParentSlot(g, p)
           IN  /\ WellFormed(h)
               /\ h.graph[p] # <<>>
               /\ h.frames = g.frames
               /\ h.name_to_index = g.name_to_index
               /\ h.duration = g.duration
               /\ \A j \in Indices(g) : ParentOf(h, j) = ParentOf(g, j)
               /\ \A j \in Indices(g) : ChildrenOf(h, j) = ChildrenOf(g, j)
<1> DEFINE h == WithParentSlot(g, p)
<1>1. CASE g.graph[p] # <<>>
  BY <1>1 DEF WithParentSlot
<1>2. CASE g.graph[p] = <<>>
  <2>1. p = RootIndex
    BY <1>2 DEF WellFormed, ParentsPrecede
  <2>2. ListedParent(g, p) = None
    BY <2>1 DEF ListedParent
  <2>3. h = [g EXCEPT !.graph[p] = <<None>>]
    BY <1>2, <2>2 DEF WithParentSlot
  <2>4. /\ h.frames = g.frames
        /\ h.name_to_index = g.name_to_index
        /\ h.duration = g.duration
        /\ h.graph = [g.graph EXCEPT ![p] = <<None>>]
        /\ h = [frames        |-> h.frames,
                graph         |-> h.graph,
                name_to_index |-> h.name_to_index,
                duration      |-> h.duration]
    <3>1. h = [frames        |-> g.frames,
               graph         |-> [g.graph EXCEPT ![p] = <<None>>],
               name_to_index |-> g.name_to_index,
               duration      |-> g.duration]
      BY <2>3, ReplacedList DEF WellFormed
    <3> HIDE DEF h
    <3>2. QED
      BY <3>1
  <2>5. /\ h.graph \in Seq(Seq(Nat))
        /\ Len(h.graph) = Len(g.graph)
        /\ \A j \in 1 .. Len(g.graph) :
              h.graph[j] = IF j = p THEN <<None>> ELSE g.graph[j]
    <3>1. <<None>> \in Seq(Nat)
      BY DEF None
    <3>2. g.graph \in Seq(Seq(Nat)) /\ p \in 1 .. Len(g.graph)
      BY GraphMembers DEF WellFormed
    <3>3. QED
      BY <2>4, <3>1, <3>2, ExceptSeq
  <2>6. Indices(h) = Indices(g) /\ Indices(g) = 1 .. Len(g.graph)
    BY <2>4, GraphMembers DEF Indices, WellFormed
  <2>7. \A j \in Indices(g) : h.graph[j] = IF j = p THEN <<None>> ELSE g.graph[j]
    BY <2>5, <2>6
  <2>8. \A j \in Indices(g) \cup {None} : ParentOf(h, j) = ParentOf(g, j)
    <3>1. <<None>> # <<>> /\ <<None>>[1] = None
      OBVIOUS
    <3>2. ASSUME NEW j \in Indices(g), j # p PROVE ParentOf(h, j) = ParentOf(g, j)
      BY <2>7, <3>2 DEF ParentOf
    <3>3. ParentOf(h, p) = None /\ ParentOf(g, p) = None
      BY <1>2, <2>7, <3>1 DEF ParentOf
    <3>4. ParentOf(h, None) = ParentOf(g, None)
      BY DEF ParentOf
    <3>5. QED
      BY <3>2, <3>3, <3>4
  <2>9. \A j \in Indices(g) : ChildrenOf(h, j) = ChildrenOf(g, j)
    <3>1. Len(<<None>>) = 1 /\ Len(g.graph[p]) = 0
      BY <1>2
    <3>2. ChildrenOf(h, p) = {} /\ ChildrenOf(g, p) = {}
      BY <2>7, <3>1 DEF ChildrenOf
    <3>3. ASSUME NEW j \in Indices(g), j # p PROVE ChildrenOf(h, j) = ChildrenOf(g, j)
      BY <2>7, <3>3 DEF ChildrenOf
    <3>4. QED
      BY <3>2, <3>3
  <2>10. Typed(h)
    <3>1. /\ g.frames \in Seq(Frames)
          /\ g.duration \in Durations \cup {0}
          /\ g.name_to_index \in [DOMAIN g.name_to_index -> Nat]
          /\ Len(g.graph) = Len(g.frames)
          /\ Len(g.frames) >= 1
          /\ DOMAIN g.name_to_index \subseteq Names
          /\ \A n \in DOMAIN g.name_to_index : g.name_to_index[n] \in Indices(g)
          /\ \A i \in Indices(g) : \A k \in DOMAIN g.graph[i] :
                g.graph[i][k] \in Indices(g) \cup {None}
      BY DEF WellFormed, Typed
    <3>2. h \in [frames        : Seq(Frames),
                 graph         : Seq(Seq(Nat)),
                 name_to_index : [DOMAIN h.name_to_index -> Nat],
                 duration      : Durations \cup {0}]
      BY <2>4, <2>5, <3>1
    <3>3. ASSUME NEW i \in Indices(g), NEW k \in DOMAIN h.graph[i]
          PROVE  h.graph[i][k] \in Indices(g) \cup {None}
      <4>1. CASE i # p
        BY <2>7, <3>1, <3>3, <4>1
      <4>2. CASE i = p
        <5>1. h.graph[i] = <<None>>
          BY <2>7, <4>2
        <5>2. k = 1
          BY <3>3, <5>1
        <5>3. QED
          BY <5>1, <5>2
      <4>3. QED
        BY <4>1, <4>2
    <3>4. QED
      BY <2>4, <2>5, <2>6, <3>1, <3>2, <3>3 DEF Typed
  <2>11. NamesInverse(h)
    BY <2>4, <2>6 DEF WellFormed, NamesInverse, Exists
  <2>12. ParentsPrecede(h)
    <3>1. ASSUME NEW i \in Indices(g) \ {RootIndex}
          PROVE  h.graph[i] # <<>> /\ ParentOf(h, i) \in 1 .. i - 1
      BY <2>1, <2>7, <2>8 DEF WellFormed, ParentsPrecede
    <3>2. RootIndex \in Indices(g)
      BY <2>1
    <3>3. QED
      BY <2>4, <2>6, <2>8, <3>1, <3>2 DEF WellFormed, ParentsPrecede
  <2>13. EdgesListedOnce(h)
    <3>1. ASSUME NEW i \in Indices(h), NEW c \in ChildrenOf(h, i)
          PROVE  c # None /\ ParentOf(h, c) = i
      <4>1. i \in Indices(g) /\ c \in ChildrenOf(g, i)
        BY <2>6, <2>9
      <4>2. c # None /\ ParentOf(g, c) = i
        BY <4>1 DEF WellFormed, EdgesListedOnce
      <4>3. c \in Indices(g)
        <5>1. PICK k \in 2 .. Len(g.graph[i]) : c = g.graph[i][k]
          BY <4>1 DEF ChildrenOf
        <5>2. k \in DOMAIN g.graph[i]
          BY <4>1, <5>1, FrameAndList DEF WellFormed
        <5>3. QED
          BY <4>1, <4>2, <5>1, <5>2 DEF WellFormed, Typed
      <4>4. QED
        BY <2>8, <4>2, <4>3
    <3>2. ASSUME NEW c \in Indices(h) \ {RootIndex}
          PROVE  c \in ChildrenOf(h, ParentOf(h, c))
      <4>1. ParentOf(h, c) = ParentOf(g, c) /\ c \in Indices(g)
        BY <2>6, <2>8
      <4>2. ParentOf(g, c) \in 1 .. c - 1
        BY <4>1 DEF WellFormed, ParentsPrecede
      <4>3. ParentOf(g, c) \in Indices(g)
        BY <2>6, <4>1, <4>2
      <4>4. QED
        BY <2>9, <4>1, <4>3 DEF WellFormed, EdgesListedOnce
    <3>3. ASSUME NEW i \in Indices(h), NEW j \in 2 .. Len(h.graph[i]),
                 NEW k \in 2 .. Len(h.graph[i]), h.graph[i][j] = h.graph[i][k]
          PROVE  j = k
      <4>1. CASE i # p
        BY <2>6, <2>7, <3>3, <4>1 DEF WellFormed, EdgesListedOnce
      <4>2. CASE i = p
        <5>1. Len(h.graph[i]) = 1
          BY <2>7, <2>6, <4>2
        <5>2. QED
          BY <5>1
      <4>3. QED
        BY <4>1, <4>2
    <3>4. QED
      BY <3>1, <3>2, <3>3 DEF EdgesListedOnce
  <2>14. EdgesCarryData(h)
    BY <2>4, <2>6 DEF WellFormed, EdgesCarryData
  <2>15. h.graph[p] # <<>>
    BY <2>7, SMTT(30)
  <2>16. QED
    BY <2>4, <2>8, <2>9, <2>10, <2>11, <2>12, <2>13, <2>14, <2>15 DEF WellFormed
<1>3. QED
  BY <1>1, <1>2

-----------------------------------------------------------------------------

(* What storing a transform does to the members.                           *)
LEMMA StoreShape ==
    ASSUME NEW F \in Seq(Frames), NEW G, NEW I, NEW D,
           NEW g, g = [frames |-> F, graph |-> G, name_to_index |-> I, duration |-> D],
           NEW c \in 1 .. Len(F), StrictlySorted(F[c].buffer),
           NEW s \in Instants, NEW x \in Transforms
    PROVE  LET h == Store(g, c, s, x)
           IN  /\ h = [frames |-> h.frames, graph |-> G, name_to_index |-> I,
                       duration |-> D]
               /\ h.frames \in Seq(Frames)
               /\ Len(h.frames) = Len(F)
               /\ \A i \in 1 .. Len(F) :
                     /\ h.frames[i].name = F[i].name
                     /\ h.frames[i].duration = F[i].duration
                     /\ i # c => h.frames[i] = F[i]
               /\ h.frames[c].buffer = InsertInto(F[c].buffer, F[c].duration, s, x)
               /\ h.frames[c].buffer # <<>>
               /\ StrictlySorted(h.frames[c].buffer)
<1> DEFINE h == Store(g, c, s, x)
           r == InsertInto(F[c].buffer, F[c].duration, s, x)
           held == [F[c] EXCEPT !.buffer = r]
<1>1. F[c] \in Frames
  BY ElementOfSeq
<1>2. /\ F[c].name \in Names
      /\ F[c].buffer \in Seq(Entries)
      /\ F[c].duration \in Durations \cup {0}
  BY <1>1 DEF Frames
<1>3. F[c].duration \in Int
  <2>1. Durations \cup {0} \subseteq Int
    BY DurationsAreIntegers
  <2>2. QED
    BY <1>2, <2>1, Zenon
<1>4. r \in Seq(Entries) /\ r # <<>> /\ StrictlySorted(r)
  BY <1>2, <1>3, InsertKeepsBuffer
<1>5. h = [frames |-> [F EXCEPT ![c] = held], graph |-> G, name_to_index |-> I,
           duration |-> D]
  <2>1. g.frames = F
    OBVIOUS
  <2>2. h = [g EXCEPT !.frames[c].buffer = r]
    BY <2>1 DEF Store
  <2> HIDE DEF r
  <2>3. h = [g EXCEPT !.frames = [F EXCEPT ![c] = held]]
    BY <2>1, <2>2
  <2>4. ASSUME NEW V
        PROVE  [g EXCEPT !.frames = V] =
                   [frames |-> V, graph |-> G, name_to_index |-> I, duration |-> D]
    OBVIOUS
  <2> HIDE DEF held, h
  <2>5. QED
    BY <2>3, <2>4
<1>6. held = [name |-> F[c].name, buffer |-> r, duration |-> F[c].duration]
  <2> HIDE DEF r
  <2>1. QED
    BY <1>1 DEF Frames
<1>7. held \in Frames
  <2> HIDE DEF r, held
  <2>1. QED
    BY <1>2, <1>4, <1>6 DEF Frames
<1>8. /\ h.frames \in Seq(Frames)
      /\ Len(h.frames) = Len(F)
      /\ \A j \in 1 .. Len(F) : h.frames[j] = IF j = c THEN held ELSE F[j]
  <2> HIDE DEF held, h
  <2>1. h.frames = [F EXCEPT ![c] = held]
    BY <1>5
  <2>2. QED
    BY <1>7, <2>1, ExceptSeq
<1>9. h = [frames |-> h.frames, graph |-> G, name_to_index |-> I, duration |-> D]
  <2> HIDE DEF held, h
  <2>1. QED
    BY <1>5
<1>10. held.name = F[c].name /\ held.duration = F[c].duration /\ held.buffer = r
  <2> HIDE DEF held, r
  <2>1. QED
    BY <1>6
<1>11. /\ h.frames \in Seq(Frames)
       /\ Len(h.frames) = Len(F)
       /\ \A i \in 1 .. Len(F) :
             /\ h.frames[i].name = F[i].name
             /\ h.frames[i].duration = F[i].duration
             /\ i # c => h.frames[i] = F[i]
       /\ h.frames[c].buffer = r
       /\ h.frames[c].buffer # <<>>
       /\ StrictlySorted(h.frames[c].buffer)
  <2> HIDE DEF held, h, r
  <2>1. QED
    BY <1>4, <1>8, <1>10
<1> HIDE DEF held, h, r
<1>12. QED
  BY <1>9, <1>11 DEF h, r

(* Hearing a further transform of a known edge.                            *)
LEMMA HearKeeps ==
    ASSUME NEW g, WellFormed(g), NEW c \in Indices(g) \ {RootIndex},
           NEW s \in Instants, NEW x \in Transforms
    PROVE  WellFormed(Store(g, c, s, x))
<1> DEFINE h == Store(g, c, s, x)
<1>1. /\ g.frames \in Seq(Frames)
      /\ g = [frames |-> g.frames, graph |-> g.graph, name_to_index |-> g.name_to_index,
              duration |-> g.duration]
      /\ c \in 1 .. Len(g.frames)
      /\ StrictlySorted(g.frames[c].buffer)
  BY GraphMembers DEF WellFormed, EdgesCarryData
<1>2. /\ h = [frames |-> h.frames, graph |-> g.graph, name_to_index |-> g.name_to_index,
              duration |-> g.duration]
      /\ h.frames \in Seq(Frames)
      /\ Len(h.frames) = Len(g.frames)
      /\ \A i \in 1 .. Len(g.frames) :
            /\ h.frames[i].name = g.frames[i].name
            /\ h.frames[i].duration = g.frames[i].duration
            /\ i # c => h.frames[i] = g.frames[i]
      /\ h.frames[c].buffer # <<>>
      /\ StrictlySorted(h.frames[c].buffer)
  BY <1>1, StoreShape
<1> HIDE DEF h
<1>3. /\ h.graph = g.graph
      /\ h.name_to_index = g.name_to_index
      /\ h.duration = g.duration
  BY <1>2
<1>4. Indices(h) = Indices(g) /\ Indices(g) = 1 .. Len(g.frames)
  BY <1>2 DEF Indices
<1>5. /\ \A j : ParentOf(h, j) = ParentOf(g, j)
      /\ \A j : ChildrenOf(h, j) = ChildrenOf(g, j)
  BY <1>3 DEF ParentOf, ChildrenOf
<1>6. Typed(h)
  <2>1. /\ g.graph \in Seq(Seq(Nat))
        /\ g.duration \in Durations \cup {0}
        /\ g.name_to_index \in [DOMAIN g.name_to_index -> Nat]
    BY DEF WellFormed, Typed
  <2>2. h \in [frames        : Seq(Frames),
               graph         : Seq(Seq(Nat)),
               name_to_index : [DOMAIN h.name_to_index -> Nat],
               duration      : Durations \cup {0}]
    BY <1>2, <1>3, <2>1
  <2>3. QED
    BY <1>2, <1>3, <1>4, <2>2 DEF WellFormed, Typed
<1>7. NamesInverse(h)
  <2>1. \A i \in Indices(g) : h.frames[i].name = g.frames[i].name
    BY <1>2, <1>4
  <2>2. \A n \in DOMAIN g.name_to_index : g.name_to_index[n] \in Indices(g)
    BY DEF WellFormed, Typed
  <2>3. NamesInverse(g)
    BY DEF WellFormed
  <2>4. ASSUME NEW n \in DOMAIN h.name_to_index
        PROVE  h.frames[h.name_to_index[n]].name = n
    <3>1. n \in DOMAIN g.name_to_index /\ h.name_to_index[n] = g.name_to_index[n]
      BY <1>3
    <3>2. h.frames[g.name_to_index[n]].name = g.frames[g.name_to_index[n]].name
      BY <2>1, <2>2, <3>1
    <3>3. QED
      BY <2>3, <3>1, <3>2 DEF NamesInverse
  <2>5. ASSUME NEW i \in Indices(h)
        PROVE  /\ Exists(h, h.frames[i].name)
               /\ h.name_to_index[h.frames[i].name] = i
    <3>1. i \in Indices(g) /\ h.frames[i].name = g.frames[i].name
      BY <1>4, <2>1
    <3>2. /\ g.frames[i].name \in DOMAIN g.name_to_index
          /\ g.name_to_index[g.frames[i].name] = i
      BY <2>3, <3>1 DEF NamesInverse, Exists
    <3>3. QED
      BY <1>3, <3>1, <3>2 DEF Exists
  <2>6. QED
    BY <2>4, <2>5 DEF NamesInverse
<1>8. ParentsPrecede(h)
  <2>1. RootIndex \in Indices(g)
    BY GraphMembers DEF WellFormed
  <2>2. h.frames[RootIndex].name = g.frames[RootIndex].name
    BY <1>2, <1>4, <2>1
  <2>3. QED
    BY <1>3, <1>4, <1>5, <2>2 DEF WellFormed, ParentsPrecede
<1>9. EdgesListedOnce(h)
  BY <1>3, <1>4, <1>5 DEF WellFormed, EdgesListedOnce
<1>10. EdgesCarryData(h)
  <2>1. RootIndex \in Indices(g)
    BY GraphMembers DEF WellFormed
  <2>2. h.frames[RootIndex] = g.frames[RootIndex]
    BY <1>2, <1>4, <2>1
  <2>3. ASSUME NEW i \in Indices(g) \ {RootIndex}
        PROVE  h.frames[i].buffer # <<>> /\ StrictlySorted(h.frames[i].buffer)
    <3>1. CASE i = c
      BY <1>2, <3>1
    <3>2. CASE i # c
      <4>1. h.frames[i] = g.frames[i]
        BY <1>2, <1>4, <3>2
      <4>2. QED
        BY <4>1 DEF WellFormed, EdgesCarryData
    <3>3. QED
      BY <3>1, <3>2
  <2>4. QED
    BY <1>4, <2>2, <2>3 DEF WellFormed, EdgesCarryData
<1>11. QED
  BY <1>6, <1>7, <1>8, <1>9, <1>10 DEF WellFormed, h

-----------------------------------------------------------------------------

(* The children that are listed are frames.                                *)
LEMMA ChildrenAreFrames ==
    ASSUME NEW g, WellFormed(g), NEW i \in Indices(g), NEW c \in ChildrenOf(g, i)
    PROVE  c \in Indices(g) \ {RootIndex} /\ ParentOf(g, c) = i
<1>1. c # None /\ ParentOf(g, c) = i
  BY DEF WellFormed, EdgesListedOnce
<1>2. PICK k \in 2 .. Len(g.graph[i]) : c = g.graph[i][k]
  BY DEF ChildrenOf
<1>3. k \in DOMAIN g.graph[i]
  BY <1>2, FrameAndList DEF WellFormed
<1>4. c \in Indices(g)
  BY <1>1, <1>2, <1>3 DEF WellFormed, Typed
<1>5. i # None
  BY GraphMembers DEF WellFormed, None
<1>6. c # RootIndex
  BY <1>1, <1>5 DEF WellFormed, ParentsPrecede
<1>7. QED
  BY <1>1, <1>4, <1>6

(* The graph after a new frame has been joined below p.                    *)
Joined(g, p, name, s, x) ==
    Store(Link(Admit(g, name, p), p, Len(g.frames) + 1), Len(g.frames) + 1, s, x)

(* What joining a new frame below a frame with a parent slot does to the   *)
(* members: one frame, one list and one name more, and one more child.     *)
LEMMA JoinShape ==
    ASSUME NEW g, WellFormed(g), NEW p \in Indices(g),
           NEW name \in Names \ DOMAIN g.name_to_index,
           NEW s \in Instants, NEW x \in Transforms
    PROVE  LET n == Len(g.frames) + 1
               grown == Admit(g, name, p)
               h == Joined(g, p, name, s, x)
           IN  /\ h = [frames |-> h.frames, graph |-> h.graph,
                       name_to_index |-> h.name_to_index, duration |-> g.duration]
               /\ grown.name_to_index = h.name_to_index
               /\ ParentOf(grown, n) = p
               /\ h.frames \in Seq(Frames)
               /\ Len(h.frames) = n
               /\ \A i \in 1 .. Len(g.frames) : h.frames[i] = g.frames[i]
               /\ h.frames[n].name = name
               /\ h.frames[n].duration = g.duration
               /\ h.frames[n].buffer = InsertInto(<<>>, g.duration, s, x)
               /\ h.frames[n].buffer # <<>>
               /\ StrictlySorted(h.frames[n].buffer)
               /\ h.graph \in Seq(Seq(Nat))
               /\ Len(h.graph) = n
               /\ \A i \in 1 .. Len(g.frames) :
                     h.graph[i] = IF i = p THEN Append(g.graph[p], n) ELSE g.graph[i]
               /\ h.graph[n] = <<p>>
               /\ h.name_to_index = [k \in DOMAIN g.name_to_index \cup {name} |->
                                       IF k = name THEN n ELSE g.name_to_index[k]]
<1> DEFINE n == Len(g.frames) + 1
           fresh == NewFrame(name, g.duration)
           F == Append(g.frames, fresh)
           G == Append(g.graph, <<p>>)
           I == [k \in DOMAIN g.name_to_index \cup {name} |->
                   IF k = name THEN n ELSE g.name_to_index[k]]
           grown == Admit(g, name, p)
           linked == Link(grown, p, n)
           L == [G EXCEPT ![p] = Append(g.graph[p], n)]
           h == Store(linked, n, s, x)
<1>1. /\ g.frames \in Seq(Frames)
      /\ g.graph \in Seq(Seq(Nat))
      /\ g.duration \in Durations \cup {0}
      /\ Len(g.frames) \in Nat
      /\ Len(g.frames) >= 1
      /\ Len(g.graph) = Len(g.frames)
      /\ Indices(g) = 1 .. Len(g.frames)
      /\ g = [frames |-> g.frames, graph |-> g.graph,
              name_to_index |-> g.name_to_index, duration |-> g.duration]
  BY GraphMembers DEF WellFormed
<1>2. n \in Nat /\ p \in Nat /\ p \in 1 .. Len(g.frames) /\ p # n
  BY <1>1
<1>3. /\ fresh \in Frames /\ fresh.name = name
      /\ fresh.buffer = <<>> /\ fresh.duration = g.duration
  <2>1. <<>> \in Seq(Entries)
    OBVIOUS
  <2>2. fresh = [name |-> name, buffer |-> <<>>, duration |-> g.duration]
    BY DEF NewFrame
  <2>3. QED
    BY <1>1, <2>1, <2>2 DEF Frames
<1>4. /\ F \in Seq(Frames)
      /\ Len(F) = n
      /\ \A i \in 1 .. Len(g.frames) : F[i] = g.frames[i]
      /\ F[n] = fresh
  <2> HIDE DEF fresh
  <2>1. QED
    BY <1>1, <1>3, AppendProperties
<1>5. /\ G \in Seq(Seq(Nat))
      /\ Len(G) = n
      /\ \A i \in 1 .. Len(g.frames) : G[i] = g.graph[i]
      /\ G[n] = <<p>>
  <2>1. <<p>> \in Seq(Nat)
    BY <1>2
  <2>2. QED
    BY <1>1, <2>1, AppendProperties
<1>6. grown = [frames |-> F, graph |-> G, name_to_index |-> I, duration |-> g.duration]
  <2>1. ASSUME NEW A, NEW B, NEW C, NEW D, NEW A1, NEW B1, NEW C1,
               g = [frames |-> A, graph |-> B, name_to_index |-> C, duration |-> D]
        PROVE  [g EXCEPT !.frames = A1, !.graph = B1, !.name_to_index = C1] =
                   [frames |-> A1, graph |-> B1, name_to_index |-> C1, duration |-> D]
    <3> DEFINE g1 == [g EXCEPT !.frames = A1]
               g2 == [g1 EXCEPT !.graph = B1]
               g3 == [g2 EXCEPT !.name_to_index = C1]
    <3>1. g1 = [frames |-> A1, graph |-> B, name_to_index |-> C, duration |-> D]
      BY <2>1
    <3>2. g2 = [frames |-> A1, graph |-> B1, name_to_index |-> C, duration |-> D]
      <4> HIDE DEF g1
      <4>1. QED
        BY <3>1
    <3>3. g3 = [frames |-> A1, graph |-> B1, name_to_index |-> C1, duration |-> D]
      <4> HIDE DEF g2
      <4>1. QED
        BY <3>2
    <3>4. [g EXCEPT !.frames = A1, !.graph = B1, !.name_to_index = C1] = g3
      OBVIOUS
    <3>5. QED
      BY <3>3, <3>4
  <2>2. grown = [g EXCEPT !.frames = F, !.graph = G, !.name_to_index = I]
    BY DEF Admit
  <2> HIDE DEF F, G, I, grown
  <2>3. QED
    BY <1>1, <2>1, <2>2
<1>7. n \notin ChildrenOf(grown, p)
  <2>1. ChildrenOf(grown, p) = ChildrenOf(g, p)
    <3>1. grown.graph[p] = g.graph[p]
      BY <1>2, <1>5, <1>6
    <3> HIDE DEF grown
    <3>2. QED
      BY <3>1 DEF ChildrenOf
  <2>2. \A c \in ChildrenOf(g, p) : c \in 1 .. Len(g.frames)
    BY <1>1, ChildrenAreFrames
  <2>3. n \notin 1 .. Len(g.frames)
    BY <1>1
  <2>4. QED
    BY <2>1, <2>2, <2>3
<1>8. linked = [frames |-> F, graph |-> L, name_to_index |-> I, duration |-> g.duration]
  <2>1. linked = [grown EXCEPT !.graph[p] = Append(grown.graph[p], n)]
    BY <1>7 DEF Link
  <2>2. grown.graph = G /\ grown.graph[p] = g.graph[p]
    BY <1>2, <1>5, <1>6
  <2>3. linked = [grown EXCEPT !.graph = L]
    BY <2>1, <2>2
  <2>4. ASSUME NEW A, NEW B, NEW C, NEW D, NEW B1,
               grown = [frames |-> A, graph |-> B, name_to_index |-> C, duration |-> D]
        PROVE  [grown EXCEPT !.graph = B1] =
                   [frames |-> A, graph |-> B1, name_to_index |-> C, duration |-> D]
    BY <2>4
  <2> HIDE DEF F, G, I, L, grown, linked
  <2>5. QED
    BY <1>6, <2>3, <2>4
<1>9. /\ L \in Seq(Seq(Nat))
      /\ Len(L) = n
      /\ \A i \in 1 .. n : L[i] = IF i = p THEN Append(g.graph[p], n) ELSE G[i]
  <2>1. g.graph[p] \in Seq(Nat)
    BY FrameAndList DEF WellFormed
  <2>2. Append(g.graph[p], n) \in Seq(Nat)
    BY <1>2, <2>1, AppendProperties
  <2>3. p \in 1 .. Len(G)
    BY <1>1, <1>2, <1>5
  <2> HIDE DEF G
  <2>4. QED
    BY <1>5, <2>2, <2>3, ExceptSeq
<1>10. /\ n \in 1 .. Len(F)
       /\ StrictlySorted(F[n].buffer)
  <2>1. n \in 1 .. Len(F)
    BY <1>2, <1>1, <1>4
  <2>2. StrictlySorted(<<>>)
    BY DEF StrictlySorted
  <2>3. QED
    BY <1>3, <1>4, <2>1, <2>2
<1>11. /\ h = [frames |-> h.frames, graph |-> L, name_to_index |-> I,
               duration |-> g.duration]
       /\ h.frames \in Seq(Frames)
       /\ Len(h.frames) = Len(F)
       /\ \A i \in 1 .. Len(F) :
             /\ h.frames[i].name = F[i].name
             /\ h.frames[i].duration = F[i].duration
             /\ i # n => h.frames[i] = F[i]
       /\ h.frames[n].buffer = InsertInto(F[n].buffer, F[n].duration, s, x)
       /\ h.frames[n].buffer # <<>>
       /\ StrictlySorted(h.frames[n].buffer)
  <2> HIDE DEF F, G, I, L, grown, linked, n
  <2>1. QED
    BY <1>4, <1>8, <1>10, StoreShape
<1>12. h.graph = L /\ h.name_to_index = I
  <2> HIDE DEF L, I, h
  <2>1. QED
    BY <1>11
<1>13. \A i \in 1 .. Len(g.frames) : i \in 1 .. n /\ i # n
  BY <1>1
<1>14. ParentOf(grown, n) = p
  <2>1. grown.graph[n] = <<p>>
    BY <1>5, <1>6
  <2>2. n # None
    BY <1>1 DEF None
  <2> HIDE DEF grown, n
  <2>3. <<p>>[1] = p /\ <<p>> # <<>>
    OBVIOUS
  <2>4. QED
    BY <2>1, <2>2, <2>3 DEF ParentOf
<1>15. grown.name_to_index = I
  BY <1>6
<1>16. /\ \A i \in 1 .. Len(g.frames) : h.frames[i] = g.frames[i]
       /\ h.frames[n].name = name
       /\ h.frames[n].duration = g.duration
       /\ h.frames[n].buffer = InsertInto(<<>>, g.duration, s, x)
       /\ Len(h.frames) = n
  <2> HIDE DEF F, n, h, fresh
  <2>1. QED
    BY <1>3, <1>4, <1>10, <1>11, <1>13
<1>17. /\ \A i \in 1 .. Len(g.frames) :
              L[i] = IF i = p THEN Append(g.graph[p], n) ELSE g.graph[i]
       /\ L[n] = <<p>>
  <2>1. n \in 1 .. n
    BY <1>1
  <2> HIDE DEF L, G, n
  <2>2. QED
    BY <1>2, <1>5, <1>9, <1>13, <2>1
<1> HIDE DEF h, L, F, G, grown
<1>18. h = [frames |-> h.frames, graph |-> h.graph,
            name_to_index |-> h.name_to_index, duration |-> g.duration]
  BY <1>11, <1>12
<1>19. QED
  BY <1>9, <1>11, <1>12, <1>14, <1>15, <1>16, <1>17, <1>18 DEF h, grown, linked, Joined

(* Where update finds the frame it has just admitted.                      *)
LEMMA JoinedNames ==
    ASSUME NEW g, WellFormed(g), NEW p \in Indices(g),
           NEW name \in Names \ DOMAIN g.name_to_index,
           NEW s \in Instants, NEW x \in Transforms
    PROVE  /\ Admit(g, name, p).name_to_index[name] = Len(g.frames) + 1
           /\ ParentOf(Admit(g, name, p), Len(g.frames) + 1) = p
<1>1. /\ Admit(g, name, p).name_to_index = Joined(g, p, name, s, x).name_to_index
      /\ ParentOf(Admit(g, name, p), Len(g.frames) + 1) = p
      /\ Joined(g, p, name, s, x).name_to_index =
            [k \in DOMAIN g.name_to_index \cup {name} |->
               IF k = name THEN Len(g.frames) + 1 ELSE g.name_to_index[k]]
  BY JoinShape, SMTT(60)
<1>2. QED
  BY <1>1

(* Joining a new frame.                                                    *)
LEMMA JoinKeeps ==
    ASSUME NEW g, WellFormed(g), NEW p \in Indices(g), g.graph[p] # <<>>,
           NEW name \in Names \ DOMAIN g.name_to_index,
           NEW s \in Instants, NEW x \in Transforms
    PROVE  WellFormed(Joined(g, p, name, s, x))
<1> DEFINE n == Len(g.frames) + 1
           h == Joined(g, p, name, s, x)
<1>1. /\ h = [frames |-> h.frames, graph |-> h.graph,
              name_to_index |-> h.name_to_index, duration |-> g.duration]
      /\ h.frames \in Seq(Frames)
      /\ Len(h.frames) = n
      /\ \A i \in 1 .. Len(g.frames) : h.frames[i] = g.frames[i]
      /\ h.frames[n].name = name
      /\ h.frames[n].buffer # <<>>
      /\ StrictlySorted(h.frames[n].buffer)
      /\ h.graph \in Seq(Seq(Nat))
      /\ Len(h.graph) = n
      /\ \A i \in 1 .. Len(g.frames) :
            h.graph[i] = IF i = p THEN Append(g.graph[p], n) ELSE g.graph[i]
      /\ h.graph[n] = <<p>>
      /\ h.name_to_index = [k \in DOMAIN g.name_to_index \cup {name} |->
                              IF k = name THEN n ELSE g.name_to_index[k]]
  BY JoinShape
<1> HIDE DEF h
<1>2. /\ Len(g.frames) \in Nat
      /\ Len(g.frames) >= 1
      /\ Indices(g) = 1 .. Len(g.frames)
      /\ RootIndex \in Indices(g)
      /\ g.duration \in Durations \cup {0}
  BY GraphMembers DEF WellFormed
<1>3. /\ n \in Nat
      /\ Indices(h) = Indices(g) \cup {n}
      /\ n \notin Indices(g)
      /\ n # None
      /\ n # RootIndex
      /\ p # n
      /\ p \in 1 .. n - 1
      /\ p # None
      /\ None \notin Indices(g)
  BY <1>1, <1>2 DEF Indices, None, RootIndex
<1> HIDE DEF n
<1>4. \A i \in Indices(g) :
        /\ h.frames[i] = g.frames[i]
        /\ h.graph[i] = IF i = p THEN Append(g.graph[p], n) ELSE g.graph[i]
  BY <1>1, <1>2
<1>5. /\ g.graph[p] \in Seq(Nat)
      /\ Len(g.graph[p]) \in Nat
      /\ Len(g.graph[p]) >= 1
      /\ DOMAIN g.graph[p] = 1 .. Len(g.graph[p])
  BY FrameAndList DEF WellFormed
<1>6. /\ h.graph[p] \in Seq(Nat)
      /\ h.graph[p] # <<>>
      /\ Len(h.graph[p]) = Len(g.graph[p]) + 1
      /\ \A k \in 1 .. Len(g.graph[p]) : h.graph[p][k] = g.graph[p][k]
      /\ h.graph[p][Len(g.graph[p]) + 1] = n
  <2>1. h.graph[p] = Append(g.graph[p], n)
    BY <1>4
  <2>2. /\ Append(g.graph[p], n) \in Seq(Nat)
        /\ Append(g.graph[p], n) # <<>>
        /\ Len(Append(g.graph[p], n)) = Len(g.graph[p]) + 1
        /\ \A k \in 1 .. Len(g.graph[p]) : Append(g.graph[p], n)[k] = g.graph[p][k]
        /\ Append(g.graph[p], n)[Len(g.graph[p]) + 1] = n
    BY <1>3, <1>5, AppendProperties, SMTT(30)
  <2>3. QED
    BY <2>1, <2>2
<1>7. DOMAIN h.graph[p] = 1 .. Len(g.graph[p]) + 1
  BY <1>6
<1>8. h.graph[p][1] = g.graph[p][1]
  BY <1>5, <1>6
<1>9. /\ \A i \in Indices(g) : ParentOf(h, i) = ParentOf(g, i)
      /\ ParentOf(h, n) = p
  <2>1. ASSUME NEW i \in Indices(g), i # p PROVE ParentOf(h, i) = ParentOf(g, i)
    BY <1>4, <2>1 DEF ParentOf
  <2>2. ParentOf(h, p) = ParentOf(g, p)
    BY <1>3, <1>6, <1>8 DEF ParentOf
  <2>3. <<p>> # <<>> /\ <<p>>[1] = p
    OBVIOUS
  <2>4. ParentOf(h, n) = p
    BY <1>1, <1>3, <2>3 DEF ParentOf
  <2>5. QED
    BY <2>1, <2>2, <2>4
<1>10. /\ \A i \in Indices(g) \ {p} : ChildrenOf(h, i) = ChildrenOf(g, i)
       /\ ChildrenOf(h, p) = ChildrenOf(g, p) \cup {n}
       /\ ChildrenOf(h, n) = {}
  <2>1. ASSUME NEW i \in Indices(g) \ {p} PROVE ChildrenOf(h, i) = ChildrenOf(g, i)
    BY <1>4 DEF ChildrenOf
  <2>2. ASSUME NEW c \in ChildrenOf(h, p) PROVE c \in ChildrenOf(g, p) \cup {n}
    <3>1. PICK k \in 2 .. Len(h.graph[p]) : c = h.graph[p][k]
      BY DEF ChildrenOf
    <3>2. k \in 2 .. Len(g.graph[p]) \/ k = Len(g.graph[p]) + 1
      BY <1>5, <1>6, <3>1
    <3>3. CASE k \in 2 .. Len(g.graph[p])
      <4>1. k \in 1 .. Len(g.graph[p])
        BY <3>3
      <4>2. c = g.graph[p][k]
        BY <1>6, <3>1, <4>1
      <4>3. QED
        BY <3>3, <4>2 DEF ChildrenOf
    <3>4. CASE k = Len(g.graph[p]) + 1
      BY <1>6, <3>1, <3>4
    <3>5. QED
      BY <3>2, <3>3, <3>4
  <2>3. ASSUME NEW c \in ChildrenOf(g, p) PROVE c \in ChildrenOf(h, p)
    <3>1. PICK k \in 2 .. Len(g.graph[p]) : c = g.graph[p][k]
      BY DEF ChildrenOf
    <3>2. k \in 1 .. Len(g.graph[p]) /\ k \in 2 .. Len(h.graph[p])
      BY <1>5, <1>6, <3>1
    <3>3. c = h.graph[p][k]
      BY <1>6, <3>1, <3>2
    <3>4. QED
      BY <3>2, <3>3 DEF ChildrenOf
  <2>4. n \in ChildrenOf(h, p)
    <3>1. Len(g.graph[p]) + 1 \in 2 .. Len(h.graph[p])
      BY <1>5, <1>6
    <3>2. QED
      BY <1>6, <3>1 DEF ChildrenOf
  <2>5. ChildrenOf(h, n) = {}
    <3>1. Len(h.graph[n]) = 1
      BY <1>1
    <3>2. QED
      BY <3>1 DEF ChildrenOf
  <2>6. QED
    BY <2>1, <2>2, <2>3, <2>4, <2>5
<1>11. Typed(h)
  <2>1. /\ g.name_to_index \in [DOMAIN g.name_to_index -> Nat]
        /\ DOMAIN g.name_to_index \subseteq Names
        /\ \A k \in DOMAIN g.name_to_index : g.name_to_index[k] \in Indices(g)
        /\ \A i \in Indices(g) : \A k \in DOMAIN g.graph[i] :
              g.graph[i][k] \in Indices(g) \cup {None}
    BY DEF WellFormed, Typed
  <2>2. /\ DOMAIN h.name_to_index = DOMAIN g.name_to_index \cup {name}
        /\ \A k \in DOMAIN h.name_to_index :
              h.name_to_index[k] = IF k = name THEN n ELSE g.name_to_index[k]
    BY <1>1
  <2>3. /\ h.name_to_index \in [DOMAIN h.name_to_index -> Nat]
        /\ DOMAIN h.name_to_index \subseteq Names
        /\ \A k \in DOMAIN h.name_to_index : h.name_to_index[k] \in Indices(h)
    <3>1. ASSUME NEW k \in DOMAIN h.name_to_index
          PROVE  h.name_to_index[k] \in Indices(h)
      BY <1>3, <2>1, <2>2
    <3>2. \A i \in Indices(h) : i \in Nat
      BY <1>2, <1>3
    <3>3. DOMAIN h.name_to_index \subseteq Names
      BY <2>1, <2>2
    <3>4. h.name_to_index = [k \in DOMAIN h.name_to_index |-> h.name_to_index[k]]
      BY <1>1, <2>2
    <3>5. QED
      BY <3>1, <3>2, <3>3, <3>4
  <2>4. ASSUME NEW i \in Indices(h), NEW k \in DOMAIN h.graph[i]
        PROVE  h.graph[i][k] \in Indices(h) \cup {None}
    <3>1. CASE i \in Indices(g) /\ i # p
      BY <1>3, <1>4, <2>1, <2>4, <3>1
    <3>2. CASE i = p /\ k \in 1 .. Len(g.graph[p])
      <4>1. h.graph[i][k] = g.graph[p][k] /\ k \in DOMAIN g.graph[p]
        BY <1>5, <1>6, <3>2
      <4>2. QED
        BY <1>3, <2>1, <4>1
    <3>3. CASE i = p /\ k = Len(g.graph[p]) + 1
      BY <1>3, <1>6, <3>3
    <3>4. CASE i = n
      <4>1. h.graph[i] = <<p>>
        BY <1>1, <3>4
      <4>2. k = 1
        BY <2>4, <4>1
      <4>3. QED
        BY <1>3, <4>1, <4>2
    <3>5. i = p => k \in 1 .. Len(g.graph[p]) \/ k = Len(g.graph[p]) + 1
      BY <1>5, <1>7, <2>4
    <3>6. QED
      BY <1>3, <3>1, <3>2, <3>3, <3>4, <3>5
  <2>5. h \in [frames        : Seq(Frames),
               graph         : Seq(Seq(Nat)),
               name_to_index : [DOMAIN h.name_to_index -> Nat],
               duration      : Durations \cup {0}]
    BY <1>1, <1>2, <2>3
  <2>6. Len(h.graph) = Len(h.frames) /\ Len(h.frames) >= 1
    BY <1>1, <1>3
  <2>7. QED
    BY <2>3, <2>4, <2>5, <2>6 DEF Typed
<1>12. NamesInverse(h)
  <2>1. /\ \A k \in DOMAIN g.name_to_index :
              /\ g.name_to_index[k] \in Indices(g)
              /\ g.frames[g.name_to_index[k]].name = k
        /\ \A i \in Indices(g) :
              /\ g.frames[i].name \in DOMAIN g.name_to_index
              /\ g.name_to_index[g.frames[i].name] = i
    BY DEF WellFormed, Typed, NamesInverse, Exists
  <2>2. /\ DOMAIN h.name_to_index = DOMAIN g.name_to_index \cup {name}
        /\ h.name_to_index[name] = n
        /\ \A k \in DOMAIN g.name_to_index : h.name_to_index[k] = g.name_to_index[k]
    BY <1>1
  <2>3. ASSUME NEW k \in DOMAIN h.name_to_index
        PROVE  h.frames[h.name_to_index[k]].name = k
    <3>1. CASE k = name
      BY <1>1, <2>2, <3>1
    <3>2. CASE k \in DOMAIN g.name_to_index
      <4>1. g.name_to_index[k] \in Indices(g) /\ h.name_to_index[k] = g.name_to_index[k]
        BY <2>1, <2>2, <3>2
      <4>2. h.frames[h.name_to_index[k]] = g.frames[g.name_to_index[k]]
        BY <1>4, <4>1
      <4>3. QED
        BY <2>1, <3>2, <4>2
    <3>3. QED
      BY <2>2, <2>3, <3>1, <3>2
  <2>4. ASSUME NEW i \in Indices(h)
        PROVE  /\ h.frames[i].name \in DOMAIN h.name_to_index
               /\ h.name_to_index[h.frames[i].name] = i
    <3>1. CASE i = n
      BY <1>1, <2>2, <3>1
    <3>2. CASE i \in Indices(g)
      <4>1. h.frames[i].name = g.frames[i].name
        BY <1>4, <3>2
      <4>2. g.frames[i].name \in DOMAIN g.name_to_index
        BY <2>1, <3>2
      <4>3. QED
        BY <2>1, <2>2, <3>2, <4>1, <4>2
    <3>3. QED
      BY <1>3, <2>4, <3>1, <3>2
  <2>5. QED
    BY <2>3, <2>4 DEF NamesInverse, Exists
<1>13. ParentsPrecede(h)
  <2>1. /\ g.frames[RootIndex].name = Root
        /\ ParentOf(g, RootIndex) = None
        /\ \A i \in Indices(g) \ {RootIndex} :
              g.graph[i] # <<>> /\ ParentOf(g, i) \in 1 .. i - 1
    BY DEF WellFormed, ParentsPrecede
  <2>2. h.frames[RootIndex].name = Root /\ ParentOf(h, RootIndex) = None
    BY <1>2, <1>4, <1>9, <2>1
  <2>3. ASSUME NEW i \in Indices(g) \ {RootIndex}
        PROVE  h.graph[i] # <<>> /\ ParentOf(h, i) \in 1 .. i - 1
    <3>1. h.graph[i] # <<>>
      BY <1>4, <1>6, <2>1
    <3>2. QED
      BY <1>9, <2>1, <3>1
  <2>4. h.graph[n] # <<>> /\ ParentOf(h, n) \in 1 .. n - 1
    <3>1. <<p>> # <<>>
      OBVIOUS
    <3>2. QED
      BY <1>1, <1>3, <1>9, <3>1
  <2>5. QED
    BY <1>3, <2>2, <2>3, <2>4 DEF ParentsPrecede
<1>14. EdgesListedOnce(h)
  <2>1. ASSUME NEW i \in Indices(h), NEW c \in ChildrenOf(h, i)
        PROVE  c # None /\ ParentOf(h, c) = i
    <3>1. CASE i \in Indices(g) /\ c \in ChildrenOf(g, i)
      <4>1. c \in Indices(g) /\ ParentOf(g, c) = i
        BY <3>1, ChildrenAreFrames
      <4>2. QED
        BY <1>3, <1>9, <4>1
    <3>2. CASE i = p /\ c = n
      BY <1>3, <1>9, <3>2
    <3>3. QED
      BY <1>3, <1>10, <2>1, <3>1, <3>2
  <2>2. ASSUME NEW c \in Indices(h) \ {RootIndex}
        PROVE  c \in ChildrenOf(h, ParentOf(h, c))
    <3>1. CASE c = n
      BY <1>9, <1>10, <3>1
    <3>2. CASE c \in Indices(g)
      <4>1. ParentOf(g, c) \in 1 .. c - 1 /\ c \in ChildrenOf(g, ParentOf(g, c))
        BY <3>2 DEF WellFormed, ParentsPrecede, EdgesListedOnce
      <4>2. ParentOf(g, c) \in Indices(g)
        BY <1>2, <3>2, <4>1
      <4>3. QED
        BY <1>9, <1>10, <3>2, <4>1, <4>2
    <3>3. QED
      BY <1>3, <3>1, <3>2
  <2>3. ASSUME NEW i \in Indices(h), NEW j \in 2 .. Len(h.graph[i]),
               NEW k \in 2 .. Len(h.graph[i]), h.graph[i][j] = h.graph[i][k]
        PROVE  j = k
    <3>1. CASE i \in Indices(g) /\ i # p
      BY <1>4, <2>3, <3>1 DEF WellFormed, EdgesListedOnce
    <3>2. CASE i = n
      <4>1. Len(h.graph[i]) = 1
        BY <1>1, <3>2
      <4>2. QED
        BY <4>1
    <3>3. CASE i = p
      <4>1. ASSUME NEW l \in 2 .. Len(h.graph[p])
            PROVE  \/ l = Len(g.graph[p]) + 1 /\ h.graph[p][l] = n
                   \/ /\ l \in 2 .. Len(g.graph[p])
                      /\ h.graph[p][l] = g.graph[p][l]
                      /\ g.graph[p][l] # n
        <5>1. l = Len(g.graph[p]) + 1 \/ l \in 2 .. Len(g.graph[p])
          BY <1>5, <1>6, <4>1, SMTT(30)
        <5>2. CASE l = Len(g.graph[p]) + 1
          BY <1>6, <5>2
        <5>3. CASE l \in 2 .. Len(g.graph[p])
          <6>1. l \in 1 .. Len(g.graph[p])
            BY <5>3
          <6>2. g.graph[p][l] \in ChildrenOf(g, p)
            BY <5>3 DEF ChildrenOf
          <6>3. g.graph[p][l] \in Indices(g)
            BY <6>2, ChildrenAreFrames
          <6>4. QED
            BY <1>3, <1>6, <5>3, <6>1, <6>3
        <5>4. QED
          BY <5>1, <5>2, <5>3
      <4>2. \A a, b \in 2 .. Len(g.graph[p]) : g.graph[p][a] = g.graph[p][b] => a = b
        BY DEF WellFormed, EdgesListedOnce
      <4>3. j \in 2 .. Len(h.graph[p]) /\ k \in 2 .. Len(h.graph[p])
        BY <3>3
      <4>4. h.graph[p][j] = h.graph[p][k]
        BY <2>3, <3>3
      <4>5. QED
        BY <4>1, <4>2, <4>3, <4>4
    <3>4. QED
      BY <1>3, <3>1, <3>2, <3>3
  <2>4. QED
    BY <2>1, <2>2, <2>3 DEF EdgesListedOnce
<1>15. EdgesCarryData(h)
  BY <1>1, <1>2, <1>3, <1>4 DEF WellFormed, EdgesCarryData
<1>16. QED
  BY <1>11, <1>12, <1>13, <1>14, <1>15 DEF WellFormed, h

-----------------------------------------------------------------------------

(* Every frame but the root stands in its parent's list.                   *)
LEMMA ListedBelow ==
    ASSUME NEW g, WellFormed(g), NEW c \in Indices(g) \ {RootIndex}
    PROVE  c \in ChildrenOf(g, ParentOf(g, c))
BY DEF WellFormed, EdgesListedOnce

(* One update, accepted or refused.                                        *)
LEMMA UpdateKeeps ==
    ASSUME NEW g, WellFormed(g), NEW m \in Messages
    PROVE  WellFormed(Update(g, m).graph)
<1> DEFINE p == g.name_to_index[m.frame_id]
           rooted == WithParentSlot(g, p)
           grown == IF Exists(g, m.child_frame_id) THEN rooted
                    ELSE Admit(rooted, m.child_frame_id, p)
           c == grown.name_to_index[m.child_frame_id]
           stored == Store(Link(grown, p, c), c, m.stamp, m.transform)
<1>1. /\ m.child_frame_id \in Names
      /\ m.stamp \in Instants
      /\ m.transform \in Transforms
  BY DEF Messages
<1>2. CASE ~Exists(g, m.frame_id)
  <2>1. Update(g, m).graph = g
    BY <1>2 DEF Update, Refused
  <2>2. QED
    BY <2>1
<1>3. CASE Exists(g, m.frame_id)
  <2>1. p \in Indices(g)
    BY <1>3 DEF WellFormed, Typed, Exists
  <2>2. /\ WellFormed(rooted)
        /\ rooted.graph[p] # <<>>
        /\ rooted.frames = g.frames
        /\ rooted.name_to_index = g.name_to_index
    BY <2>1, SlotKeeps
  <2>3. Indices(rooted) = Indices(g) /\ p \in Indices(rooted)
    BY <2>1, <2>2 DEF Indices
  <2>4. Update(g, m) = IF ParentOf(grown, c) # p THEN Refused(grown) ELSE Accepted(stored)
    BY <1>3 DEF Update
  <2>5. CASE Exists(g, m.child_frame_id)
    <3>1. grown = rooted
      BY <2>5
    <3>2. c \in Indices(rooted)
      <4>1. g.name_to_index[m.child_frame_id] \in Indices(g)
        BY <2>5 DEF WellFormed, Typed, Exists
      <4>2. c = g.name_to_index[m.child_frame_id]
        BY <2>2, <3>1
      <4> HIDE DEF p, rooted, grown, c, stored
      <4>3. QED
        BY <2>3, <4>1, <4>2
    <3>3. CASE ParentOf(grown, c) # p
      <4>1. Update(g, m).graph = grown
        BY <2>4, <3>3 DEF Refused
      <4>2. QED
        BY <2>2, <3>1, <4>1
    <3>4. CASE ParentOf(grown, c) = p
      <4>1. ParentOf(rooted, RootIndex) = None /\ p # None
        <5> HIDE DEF p, rooted, grown, c, stored
        <5>1. WellFormed(rooted)
          BY <2>2
        <5>2. p \in Nat /\ p # None
          BY <2>3, <5>1, GraphMembers DEF WellFormed, None
        <5>3. ParentOf(rooted, RootIndex) = None
          BY <5>1 DEF WellFormed, ParentsPrecede
        <5>4. QED
          BY <5>2, <5>3
      <4>2. c \in Indices(rooted) \ {RootIndex}
        <5>1. grown = rooted
          BY <3>1
        <5> HIDE DEF p, rooted, grown, c, stored
        <5>2. QED
          BY <3>2, <3>4, <4>1, <5>1
      <4>3. c \in ChildrenOf(rooted, p)
        <5>1. WellFormed(rooted)
          BY <2>2
        <5>2. ParentOf(rooted, c) = p
          BY <3>1, <3>4
        <5> HIDE DEF p, rooted, grown, c, stored
        <5>3. c \in ChildrenOf(rooted, ParentOf(rooted, c))
          BY <4>2, <5>1, ListedBelow
        <5>4. QED
          BY <5>2, <5>3
      <4>4. Link(grown, p, c) = rooted
        <5>1. grown = rooted
          BY <3>1
        <5> HIDE DEF p, rooted, grown, c, stored
        <5>2. Link(rooted, p, c) = rooted
          BY <4>3 DEF Link
        <5>3. QED
          BY <5>1, <5>2
      <4>5. Update(g, m).graph = stored
        <5> HIDE DEF p, rooted, grown, c, stored
        <5>1. Update(g, m) = Accepted(stored)
          BY <2>4, <3>4
        <5>2. QED
          BY <5>1 DEF Accepted
      <4>6. stored = Store(rooted, c, m.stamp, m.transform)
        BY <4>4
      <4> HIDE DEF c, rooted, stored
      <4>7. WellFormed(Store(rooted, c, m.stamp, m.transform))
        BY <1>1, <2>2, <4>2, HearKeeps
      <4>8. QED
        BY <4>5, <4>6, <4>7
    <3>5. QED
      BY <3>3, <3>4
  <2>6. CASE ~Exists(g, m.child_frame_id)
    <3> DEFINE n == Len(rooted.frames) + 1
               joined == Joined(rooted, p, m.child_frame_id, m.stamp, m.transform)
    <3>1. grown = Admit(rooted, m.child_frame_id, p)
      BY <2>6
    <3>2. m.child_frame_id \in Names \ DOMAIN rooted.name_to_index
      BY <1>1, <2>2, <2>6 DEF Exists
    <3>3. /\ WellFormed(joined)
          /\ grown.name_to_index[m.child_frame_id] = n
          /\ ParentOf(grown, n) = p
      <4> HIDE DEF rooted, p, joined
      <4>1. WellFormed(Joined(rooted, p, m.child_frame_id, m.stamp, m.transform))
        BY <1>1, <2>2, <2>3, <3>2, JoinKeeps
      <4>2. /\ Admit(rooted, m.child_frame_id, p).name_to_index[m.child_frame_id] = n
            /\ ParentOf(Admit(rooted, m.child_frame_id, p), n) = p
        BY <1>1, <2>2, <2>3, <3>2, JoinedNames
      <4> HIDE DEF grown, n
      <4>3. QED
        BY <3>1, <4>1, <4>2 DEF joined
    <3>4. c = n
      BY <3>3
    <3>5. stored = joined
      BY <3>1, <3>4 DEF Joined
    <3>6. Update(g, m).graph = stored
      <4> HIDE DEF p, rooted, grown, c, stored, joined, n
      <4>1. ParentOf(grown, c) = p
        BY <3>3, <3>4
      <4>2. Update(g, m) = Accepted(stored)
        BY <2>4, <4>1
      <4>3. QED
        BY <4>2 DEF Accepted
    <3>7. QED
      BY <3>3, <3>5, <3>6
  <2>7. QED
    BY <2>5, <2>6
<1>4. QED
  BY <1>2, <1>3

(* The three things an update can do to the frames: nothing, one insertion *)
(* into the buffer of a known frame other than the root, one new frame.    *)
Unmoved(g, h) ==
    /\ h.frames = g.frames
    /\ h.name_to_index = g.name_to_index

Heard(g, h, c, s, x) ==
    /\ h.name_to_index = g.name_to_index
    /\ Len(h.frames) = Len(g.frames)
    /\ \A i \in Indices(g) :
          /\ h.frames[i].name = g.frames[i].name
          /\ h.frames[i].duration = g.frames[i].duration
          /\ i # c => h.frames[i] = g.frames[i]
    /\ h.frames[c].buffer = InsertInto(g.frames[c].buffer, g.frames[c].duration, s, x)

Grown(g, h, p, name, s, x) ==
    /\ h.name_to_index = [k \in DOMAIN g.name_to_index \cup {name} |->
                             IF k = name THEN Len(g.frames) + 1 ELSE g.name_to_index[k]]
    /\ Len(h.frames) = Len(g.frames) + 1
    /\ \A i \in Indices(g) : h.frames[i] = g.frames[i]
    /\ h.frames[Len(g.frames) + 1].duration = g.duration
    /\ h.frames[Len(g.frames) + 1].buffer = InsertInto(<<>>, g.duration, s, x)
    /\ ParentOf(h, Len(g.frames) + 1) = p

(* Joining a new frame is one frame more, and nothing else moves.          *)
LEMMA JoinGrows ==
    ASSUME NEW g, WellFormed(g), NEW p \in Indices(g), g.graph[p] # <<>>,
           NEW name \in Names \ DOMAIN g.name_to_index,
           NEW s \in Instants, NEW x \in Transforms
    PROVE  LET h == Joined(g, p, name, s, x)
           IN  /\ h.duration = g.duration
               /\ Grown(g, h, p, name, s, x)
               /\ \A i \in Indices(g) : ParentOf(h, i) = ParentOf(g, i)
<1> DEFINE n == Len(g.frames) + 1
           h == Joined(g, p, name, s, x)
<1>1. /\ h = [frames |-> h.frames, graph |-> h.graph,
              name_to_index |-> h.name_to_index, duration |-> g.duration]
      /\ Len(h.frames) = n
      /\ \A i \in 1 .. Len(g.frames) : h.frames[i] = g.frames[i]
      /\ h.frames[n].duration = g.duration
      /\ h.frames[n].buffer = InsertInto(<<>>, g.duration, s, x)
      /\ \A i \in 1 .. Len(g.frames) :
            h.graph[i] = IF i = p THEN Append(g.graph[p], n) ELSE g.graph[i]
      /\ h.graph[n] = <<p>>
      /\ h.name_to_index = [k \in DOMAIN g.name_to_index \cup {name} |->
                              IF k = name THEN n ELSE g.name_to_index[k]]
  BY JoinShape, SMTT(60)
<1> HIDE DEF h
<1>2. h.duration = g.duration
  BY <1>1
<1>3. n # None /\ n \in Nat
  BY GraphMembers DEF WellFormed, None
<1>4. ParentOf(h, n) = p
  <2>1. <<p>>[1] = p /\ <<p>> # <<>>
    OBVIOUS
  <2> HIDE DEF n
  <2>2. QED
    BY <1>1, <1>3, <2>1 DEF ParentOf
<1>5. Grown(g, h, p, name, s, x)
  BY <1>1, <1>4 DEF Grown, Indices
<1>6. ASSUME NEW i \in Indices(g) PROVE ParentOf(h, i) = ParentOf(g, i)
  <2>1. i \in 1 .. Len(g.frames) /\ g.graph[p] \in Seq(Nat)
    BY <1>6, FrameAndList DEF WellFormed, Indices
  <2>2. ASSUME NEW list \in Seq(Nat), list # <<>>, NEW k \in Nat
        PROVE  Append(list, k) # <<>> /\ Append(list, k)[1] = list[1]
    BY <2>2
  <2> HIDE DEF n
  <2>3. CASE i = p
    <3>1. h.graph[p] = Append(g.graph[p], n)
      BY <1>1, <2>1, <2>3
    <3>2. h.graph[p] # <<>> /\ h.graph[p][1] = g.graph[p][1]
      BY <1>3, <2>1, <2>2, <3>1
    <3>3. QED
      BY <2>3, <3>2 DEF ParentOf
  <2>4. CASE i # p
    <3>1. h.graph[i] = g.graph[i]
      BY <1>1, <2>1, <2>4
    <3>2. QED
      BY <3>1 DEF ParentOf
  <2>5. QED
    BY <2>3, <2>4
<1>7. QED
  BY <1>2, <1>5, <1>6 DEF h

(* What an update does to the frames; it moves no frame and leaves the     *)
(* graph's duration alone.                                                 *)
LEMMA UpdateShape ==
    ASSUME NEW g, WellFormed(g), NEW m \in Messages
    PROVE  LET h == Update(g, m).graph
               p == g.name_to_index[m.frame_id]
               c == g.name_to_index[m.child_frame_id]
           IN  /\ h.duration = g.duration
               /\ \A i \in Indices(g) : ParentOf(h, i) = ParentOf(g, i)
               /\ \/ ~Update(g, m).ok /\ Unmoved(g, h)
                  \/ /\ Exists(g, m.child_frame_id)
                     /\ c \in Indices(g) \ {RootIndex}
                     /\ Heard(g, h, c, m.stamp, m.transform)
                  \/ /\ Exists(g, m.frame_id) /\ ~Exists(g, m.child_frame_id)
                     /\ p \in Indices(g)
                     /\ Grown(g, h, p, m.child_frame_id, m.stamp, m.transform)
<1> DEFINE h == Update(g, m).graph
           p == g.name_to_index[m.frame_id]
           rooted == WithParentSlot(g, p)
           grown == IF Exists(g, m.child_frame_id) THEN rooted
                    ELSE Admit(rooted, m.child_frame_id, p)
           c == grown.name_to_index[m.child_frame_id]
           stored == Store(Link(grown, p, c), c, m.stamp, m.transform)
<1>1. /\ m.child_frame_id \in Names
      /\ m.stamp \in Instants
      /\ m.transform \in Transforms
  BY DEF Messages
<1>2. CASE ~Exists(g, m.frame_id)
  <2>1. h = g /\ Update(g, m).ok = FALSE
    BY <1>2 DEF Update, Refused
  <2>2. QED
    BY <2>1 DEF Unmoved
<1>3. CASE Exists(g, m.frame_id)
  <2>1. p \in Indices(g)
    BY <1>3 DEF WellFormed, Typed, Exists
  <2>2. /\ WellFormed(rooted)
        /\ rooted.frames = g.frames
        /\ rooted.name_to_index = g.name_to_index
        /\ rooted.duration = g.duration
        /\ \A j \in Indices(g) : ParentOf(rooted, j) = ParentOf(g, j)
    BY <2>1, SlotKeeps
  <2>3. Indices(rooted) = Indices(g) /\ p \in Indices(rooted)
    BY <2>1, <2>2 DEF Indices
  <2>4. Update(g, m) = IF ParentOf(grown, c) # p THEN Refused(grown) ELSE Accepted(stored)
    BY <1>3 DEF Update
  <2>5. CASE Exists(g, m.child_frame_id)
    <3>1. grown = rooted /\ c = g.name_to_index[m.child_frame_id]
      BY <2>2, <2>5
    <3>2. c \in Indices(rooted)
      <4>1. g.name_to_index[m.child_frame_id] \in Indices(g)
        BY <2>5 DEF WellFormed, Typed, Exists
      <4> HIDE DEF p, rooted, grown, c, stored
      <4>2. QED
        BY <2>3, <3>1, <4>1
    <3>3. CASE ParentOf(grown, c) # p
      <4>1. h = rooted /\ Update(g, m).ok = FALSE
        <5>1. grown = rooted
          BY <3>1
        <5> HIDE DEF p, rooted, grown, c, stored
        <5>2. Update(g, m) = Refused(rooted)
          BY <2>4, <3>3, <5>1
        <5>3. QED
          BY <5>2 DEF Refused
      <4>2. QED
        BY <2>2, <4>1 DEF Unmoved
    <3>4. CASE ParentOf(grown, c) = p
      <4>1. ParentOf(rooted, RootIndex) = None /\ p # None
        <5> HIDE DEF p, rooted, grown, c, stored
        <5>1. WellFormed(rooted)
          BY <2>2
        <5>2. p \in Nat /\ p # None
          BY <2>3, <5>1, GraphMembers DEF WellFormed, None
        <5>3. ParentOf(rooted, RootIndex) = None
          BY <5>1 DEF WellFormed, ParentsPrecede
        <5>4. QED
          BY <5>2, <5>3
      <4>2. c \in Indices(rooted) \ {RootIndex}
        <5>1. grown = rooted
          BY <3>1
        <5> HIDE DEF p, rooted, grown, c, stored
        <5>2. QED
          BY <3>2, <3>4, <4>1, <5>1
      <4>3. c \in ChildrenOf(rooted, p)
        <5>1. WellFormed(rooted)
          BY <2>2
        <5>2. ParentOf(rooted, c) = p
          BY <3>1, <3>4
        <5> HIDE DEF p, rooted, grown, c, stored
        <5>3. c \in ChildrenOf(rooted, ParentOf(rooted, c))
          BY <4>2, <5>1, ListedBelow
        <5>4. QED
          BY <5>2, <5>3
      <4>4. Link(grown, p, c) = rooted
        <5>1. grown = rooted
          BY <3>1
        <5> HIDE DEF p, rooted, grown, c, stored
        <5>2. Link(rooted, p, c) = rooted
          BY <4>3 DEF Link
        <5>3. QED
          BY <5>1, <5>2
      <4>5. h = stored
        <5> HIDE DEF p, rooted, grown, c, stored
        <5>1. Update(g, m) = Accepted(stored)
          BY <2>4, <3>4
        <5>2. QED
          BY <5>1 DEF Accepted
      <4>6. h = Store(rooted, c, m.stamp, m.transform)
        BY <4>4, <4>5
      <4> HIDE DEF c, rooted, stored, h, grown, p
      <4>7. /\ rooted.frames \in Seq(Frames)
            /\ rooted = [frames |-> rooted.frames, graph |-> rooted.graph,
                         name_to_index |-> rooted.name_to_index,
                         duration |-> rooted.duration]
            /\ c \in 1 .. Len(rooted.frames)
            /\ StrictlySorted(rooted.frames[c].buffer)
        BY <2>2, <4>2, GraphMembers DEF WellFormed, EdgesCarryData
      <4>8. /\ h = [frames |-> h.frames, graph |-> rooted.graph,
                    name_to_index |-> rooted.name_to_index, duration |-> rooted.duration]
            /\ Len(h.frames) = Len(rooted.frames)
            /\ \A i \in 1 .. Len(rooted.frames) :
                  /\ h.frames[i].name = rooted.frames[i].name
                  /\ h.frames[i].duration = rooted.frames[i].duration
                  /\ i # c => h.frames[i] = rooted.frames[i]
            /\ h.frames[c].buffer =
                  InsertInto(rooted.frames[c].buffer, rooted.frames[c].duration,
                             m.stamp, m.transform)
        BY <1>1, <4>6, <4>7, StoreShape
      <4>9. /\ h.graph = rooted.graph
            /\ h.name_to_index = g.name_to_index
            /\ h.duration = g.duration
        BY <2>2, <4>8
      <4>10. \A i \in Indices(g) : ParentOf(h, i) = ParentOf(g, i)
        BY <2>2, <4>9 DEF ParentOf
      <4>11. Heard(g, h, c, m.stamp, m.transform)
        BY <2>2, <4>8, <4>9 DEF Heard, Indices
      <4>12. c \in Indices(g) \ {RootIndex}
        BY <2>3, <4>2
      <4>13. QED
        BY <2>5, <3>1, <4>9, <4>10, <4>11, <4>12 DEF h
    <3>5. QED
      BY <3>3, <3>4
  <2>6. CASE ~Exists(g, m.child_frame_id)
    <3> DEFINE n == Len(rooted.frames) + 1
               joined == Joined(rooted, p, m.child_frame_id, m.stamp, m.transform)
    <3>1. grown = Admit(rooted, m.child_frame_id, p)
      BY <2>6
    <3>2. m.child_frame_id \in Names \ DOMAIN rooted.name_to_index
      BY <1>1, <2>2, <2>6 DEF Exists
    <3>3. /\ grown.name_to_index[m.child_frame_id] = n
          /\ ParentOf(grown, n) = p
      <4> HIDE DEF rooted, p, joined
      <4>1. /\ Admit(rooted, m.child_frame_id, p).name_to_index[m.child_frame_id] = n
            /\ ParentOf(Admit(rooted, m.child_frame_id, p), n) = p
        BY <1>1, <2>2, <2>3, <3>2, JoinedNames
      <4> HIDE DEF grown, n
      <4>2. QED
        BY <3>1, <4>1
    <3>4. c = n
      BY <3>3
    <3>5. stored = joined
      BY <3>1, <3>4 DEF Joined
    <3>6. h = joined
      <4> HIDE DEF p, rooted, grown, c, stored, joined, n
      <4>1. ParentOf(grown, c) = p
        BY <3>3, <3>4
      <4>2. Update(g, m) = Accepted(joined)
        BY <2>4, <3>5, <4>1
      <4>3. QED
        BY <4>2 DEF Accepted
    <3> HIDE DEF rooted, p, grown, c, stored, n
    <3>7. /\ joined.duration = rooted.duration
          /\ Grown(rooted, joined, p, m.child_frame_id, m.stamp, m.transform)
          /\ \A i \in Indices(rooted) : ParentOf(joined, i) = ParentOf(rooted, i)
      <4>1. rooted.graph[p] # <<>>
        BY <2>1, SlotKeeps DEF rooted
      <4>2. QED
        BY <1>1, <2>2, <2>3, <3>2, <4>1, JoinGrows
    <3> HIDE DEF joined
    <3>8. joined.duration = g.duration
      BY <2>2, <3>7
    <3>9. Grown(g, joined, p, m.child_frame_id, m.stamp, m.transform)
      BY <2>2, <3>7 DEF Grown, Indices
    <3>10. \A i \in Indices(g) : ParentOf(joined, i) = ParentOf(g, i)
      BY <2>2, <2>3, <3>7
    <3>11. QED
      BY <1>3, <2>1, <2>6, <3>6, <3>8, <3>9, <3>10 DEF p
  <2>7. QED
    BY <2>5, <2>6
<1>4. QED
  BY <1>2, <1>3

(* An update is refused exactly if its parent is unknown or its child is   *)
(* known under another parent, and then moves nothing.                     *)
LEMMA UpdateAccepts ==
    ASSUME NEW g, WellFormed(g), NEW m \in Messages
    PROVE  LET update == Update(g, m)
           IN  /\ update.ok \in BOOLEAN
               /\ update.ok <=>
                     /\ Exists(g, m.frame_id)
                     /\ Exists(g, m.child_frame_id) =>
                           ParentOf(g, g.name_to_index[m.child_frame_id])
                             = g.name_to_index[m.frame_id]
               /\ ~update.ok =>
                     /\ update.graph.frames = g.frames
                     /\ update.graph.name_to_index = g.name_to_index
                     /\ \A i \in Indices(g) :
                           /\ ParentOf(update.graph, i) = ParentOf(g, i)
                           /\ ChildrenOf(update.graph, i) = ChildrenOf(g, i)
<1> DEFINE p == g.name_to_index[m.frame_id]
           rooted == WithParentSlot(g, p)
           grown == IF Exists(g, m.child_frame_id) THEN rooted
                    ELSE Admit(rooted, m.child_frame_id, p)
           c == grown.name_to_index[m.child_frame_id]
           stored == Store(Link(grown, p, c), c, m.stamp, m.transform)
           update == Update(g, m)
<1>1. CASE ~Exists(g, m.frame_id)
  <2>1. update = Refused(g)
    BY <1>1 DEF Update
  <2>2. update.ok = FALSE /\ update.graph = g
    BY <2>1 DEF Refused
  <2>3. QED
    BY <1>1, <2>2
<1>2. CASE Exists(g, m.frame_id)
  <2>1. p \in Indices(g)
    BY <1>2 DEF WellFormed, Typed, Exists
  <2>2. /\ WellFormed(rooted)
        /\ rooted.frames = g.frames
        /\ rooted.name_to_index = g.name_to_index
        /\ \A j \in Indices(g) : ParentOf(rooted, j) = ParentOf(g, j)
        /\ \A j \in Indices(g) : ChildrenOf(rooted, j) = ChildrenOf(g, j)
    BY <2>1, SlotKeeps
  <2>3. update = IF ParentOf(grown, c) # p THEN Refused(grown) ELSE Accepted(stored)
    BY <1>2 DEF Update
  <2>4. CASE Exists(g, m.child_frame_id)
    <3>1. grown = rooted /\ c = g.name_to_index[m.child_frame_id]
      BY <2>2, <2>4
    <3>2. c \in Indices(g)
      BY <2>4, <3>1 DEF WellFormed, Typed, Exists
    <3>3. ParentOf(grown, c) = ParentOf(g, c)
      BY <2>2, <3>1, <3>2
    <3>4. CASE ParentOf(g, c) = p
      <4>1. update.ok = TRUE
        <5> HIDE DEF p, rooted, grown, c, stored, update
        <5>1. update = Accepted(stored)
          BY <2>3, <3>3, <3>4
        <5>2. QED
          BY <5>1 DEF Accepted
      <4>2. QED
        BY <1>2, <3>1, <3>4, <4>1
    <3>5. CASE ParentOf(g, c) # p
      <4>1. update.ok = FALSE /\ update.graph = rooted
        <5>1. grown = rooted
          BY <3>1
        <5> HIDE DEF p, rooted, grown, c, stored, update
        <5>2. update = Refused(rooted)
          BY <2>3, <3>3, <3>5, <5>1
        <5>3. QED
          BY <5>2 DEF Refused
      <4>2. update.graph.frames = g.frames /\ update.graph.name_to_index = g.name_to_index
        BY <2>2, <4>1
      <4>3. \A i \in Indices(g) : /\ ParentOf(update.graph, i) = ParentOf(g, i)
                                 /\ ChildrenOf(update.graph, i) = ChildrenOf(g, i)
        BY <2>2, <4>1
      <4>4. ParentOf(g, g.name_to_index[m.child_frame_id]) # g.name_to_index[m.frame_id]
        BY <3>1, <3>5
      <4> HIDE DEF update
      <4>5. QED
        BY <2>4, <4>1, <4>2, <4>3, <4>4 DEF update
    <3>6. QED
      BY <3>4, <3>5
  <2>5. CASE ~Exists(g, m.child_frame_id)
    <3>1. /\ m.child_frame_id \in Names \ DOMAIN rooted.name_to_index
          /\ m.stamp \in Instants
          /\ m.transform \in Transforms
      BY <2>2, <2>5 DEF Messages, Exists
    <3>2. p \in Indices(rooted)
      BY <2>1, <2>2 DEF Indices
    <3>3. /\ Admit(rooted, m.child_frame_id, p).name_to_index[m.child_frame_id]
                 = Len(rooted.frames) + 1
          /\ ParentOf(Admit(rooted, m.child_frame_id, p), Len(rooted.frames) + 1) = p
      <4> HIDE DEF rooted, p
      <4>1. QED
        BY <2>2, <3>1, <3>2, JoinedNames
    <3>4. grown = Admit(rooted, m.child_frame_id, p)
      BY <2>5
    <3>5. ParentOf(grown, c) = p
      BY <3>3, <3>4
    <3>6. update.ok = TRUE
      BY <2>3, <3>5 DEF Accepted
    <3>7. QED
      BY <1>2, <2>5, <3>6
  <2>6. QED
    BY <2>4, <2>5
<1>3. QED
  BY <1>1, <1>2

(* A graph that was just constructed.                                      *)
LEMMA NewGraphWellFormed ==
    ASSUME NEW d \in Durations
    PROVE  WellFormed(NewGraph(Root, d))
<1> DEFINE g == NewGraph(Root, d)
           first == NewFrame(Root, d)
<1>1. /\ g.frames = <<first>>
      /\ g.graph = << <<>> >>
      /\ g.name_to_index = [n \in {Root} |-> RootIndex]
      /\ g.duration = d
      /\ g = [frames |-> g.frames, graph |-> g.graph, name_to_index |-> g.name_to_index,
              duration |-> g.duration]
  BY DEF NewGraph
<1>2. /\ first \in Frames /\ first.name = Root /\ first.buffer = <<>>
  <2>1. <<>> \in Seq(Entries)
    OBVIOUS
  <2>2. QED
    BY <2>1, RootIsAName DEF NewFrame, Frames
<1> HIDE DEF g, first
<1>3. Indices(g) = {RootIndex} /\ RootIndex = 1
  BY <1>1 DEF Indices, RootIndex
<1>4. g.frames[RootIndex] = first /\ g.graph[RootIndex] = <<>>
  BY <1>1, <1>3
<1>5. Typed(g)
  <2>1. g.frames \in Seq(Frames)
    BY <1>1, <1>2
  <2>2. g.graph \in Seq(Seq(Nat))
    <3>1. <<>> \in Seq(Nat)
      OBVIOUS
    <3>2. QED
      BY <1>1, <3>1
  <2>3. g.name_to_index \in [DOMAIN g.name_to_index -> Nat]
    BY <1>1, <1>3
  <2>4. g.duration \in Durations \cup {0}
    BY <1>1
  <2>5. g \in [frames        : Seq(Frames),
               graph         : Seq(Seq(Nat)),
               name_to_index : [DOMAIN g.name_to_index -> Nat],
               duration      : Durations \cup {0}]
    BY <1>1, <2>1, <2>2, <2>3, <2>4
  <2>6. Len(g.graph) = 1 /\ Len(g.frames) = 1
    BY <1>1
  <2>7. DOMAIN g.graph[RootIndex] = {}
    BY <1>4
  <2>8. QED
    BY <1>1, <1>3, <2>5, <2>6, <2>7, RootIsAName DEF Typed
<1>6. ParentOf(g, RootIndex) = None
  BY <1>4 DEF ParentOf
<1>7. ChildrenOf(g, RootIndex) = {} /\ Len(g.graph[RootIndex]) = 0
  BY <1>4 DEF ChildrenOf
<1>8. NamesInverse(g)
  BY <1>1, <1>2, <1>3, <1>4 DEF NamesInverse, Exists
<1>9. ParentsPrecede(g)
  BY <1>2, <1>3, <1>4, <1>6 DEF ParentsPrecede
<1>10. EdgesListedOnce(g)
  BY <1>3, <1>7 DEF EdgesListedOnce
<1>11. EdgesCarryData(g)
  BY <1>2, <1>3, <1>4 DEF EdgesCarryData
<1>12. QED
  BY <1>5, <1>8, <1>9, <1>10, <1>11 DEF WellFormed, g

(* A copy differs in its duration alone.                                   *)
LEMMA CopyKeeps ==
    ASSUME NEW g, WellFormed(g)
    PROVE  WellFormed(CopyOf(g))
<1> DEFINE h == CopyOf(g)
<1>1. ASSUME NEW F, NEW G, NEW I, NEW D,
             g = [frames |-> F, graph |-> G, name_to_index |-> I, duration |-> D]
      PROVE  h = [frames |-> F, graph |-> G, name_to_index |-> I, duration |-> 0]
  BY <1>1 DEF CopyOf
<1>2. h = [frames |-> g.frames, graph |-> g.graph, name_to_index |-> g.name_to_index,
           duration |-> 0]
  BY <1>1, GraphMembers DEF WellFormed
<1> HIDE DEF h
<1>3. /\ h.frames = g.frames
      /\ h.graph = g.graph
      /\ h.name_to_index = g.name_to_index
      /\ h.duration = 0
  BY <1>2
<1>4. Indices(h) = Indices(g)
  BY <1>3 DEF Indices
<1>5. /\ \A j : ParentOf(h, j) = ParentOf(g, j)
      /\ \A j : ChildrenOf(h, j) = ChildrenOf(g, j)
  BY <1>3 DEF ParentOf, ChildrenOf
<1>6. Typed(h)
  <2>1. /\ g.frames \in Seq(Frames)
        /\ g.graph \in Seq(Seq(Nat))
        /\ g.name_to_index \in [DOMAIN g.name_to_index -> Nat]
    BY DEF WellFormed, Typed
  <2>2. h \in [frames        : Seq(Frames),
               graph         : Seq(Seq(Nat)),
               name_to_index : [DOMAIN h.name_to_index -> Nat],
               duration      : Durations \cup {0}]
    BY <1>2, <1>3, <2>1
  <2>3. QED
    BY <1>3, <1>4, <2>2 DEF WellFormed, Typed
<1>7. NamesInverse(h)
  BY <1>3, <1>4 DEF WellFormed, NamesInverse, Exists
<1>8. ParentsPrecede(h)
  BY <1>3, <1>4, <1>5 DEF WellFormed, ParentsPrecede
<1>9. EdgesListedOnce(h)
  BY <1>3, <1>4, <1>5 DEF WellFormed, EdgesListedOnce
<1>10. EdgesCarryData(h)
  BY <1>3, <1>4 DEF WellFormed, EdgesCarryData
<1>11. QED
  BY <1>6, <1>7, <1>8, <1>9, <1>10 DEF WellFormed, h

-----------------------------------------------------------------------------
(***************************************************************************)
(* Walks towards the root.  Climb is a recursive function; that there is   *)
(* one, and what its values have in common, is shown by induction on the   *)
(* number of steps.                                                        *)
(***************************************************************************)

IsClimb(g, i, n, f) ==
    f = [k \in 0 .. n |-> IF k = 0 THEN i ELSE ParentOf(g, f[k - 1])]

LEMMA ClimbExists ==
    ASSUME NEW g, NEW i
    PROVE  \A n \in Nat : \E f : IsClimb(g, i, n, f)
<1> DEFINE S == {n \in Nat : \E f : IsClimb(g, i, n, f)}
<1>1. 0 \in S
  <2> DEFINE f == [k \in 0 .. 0 |-> i]
  <2>1. f = [k \in 0 .. 0 |-> IF k = 0 THEN i ELSE ParentOf(g, f[k - 1])]
    OBVIOUS
  <2>2. QED
    BY <2>1 DEF IsClimb
<1>2. ASSUME NEW n \in Nat, n \in S PROVE n + 1 \in S
  <2>1. PICK f : f = [k \in 0 .. n |-> IF k = 0 THEN i ELSE ParentOf(g, f[k - 1])]
    BY <1>2 DEF IsClimb
  <2> DEFINE h == [k \in 0 .. n + 1 |-> IF k = n + 1 THEN ParentOf(g, f[n]) ELSE f[k]]
  <2>2. ASSUME NEW k \in 0 .. n + 1
        PROVE  h[k] = IF k = 0 THEN i ELSE ParentOf(g, h[k - 1])
    <3>1. CASE k = n + 1
      <4>1. n \in 0 .. n + 1 /\ k # 0 /\ k - 1 = n /\ n # n + 1
        BY <3>1
      <4>2. h[k] = ParentOf(g, f[n]) /\ h[n] = f[n]
        BY <3>1, <4>1
      <4> HIDE DEF h
      <4>3. QED
        BY <4>1, <4>2
    <3>2. CASE k # n + 1
      <4>1. k \in 0 .. n /\ h[k] = f[k]
        BY <3>2
      <4>2. f[k] = IF k = 0 THEN i ELSE ParentOf(g, f[k - 1])
        BY <2>1, <4>1
      <4>3. k # 0 => k - 1 \in 0 .. n + 1 /\ k - 1 # n + 1
        BY <4>1
      <4>4. k # 0 => h[k - 1] = f[k - 1]
        BY <4>3
      <4> HIDE DEF h
      <4>5. QED
        BY <4>1, <4>2, <4>4
    <3>3. QED
      BY <3>1, <3>2
  <2>3. h = [k \in 0 .. n + 1 |-> h[k]]
    OBVIOUS
  <2> HIDE DEF h
  <2>4. h = [k \in 0 .. n + 1 |-> IF k = 0 THEN i ELSE ParentOf(g, h[k - 1])]
    BY <2>2, <2>3
  <2>5. QED
    BY <2>4 DEF IsClimb
<1> HIDE DEF S
<1>3. Nat \subseteq S
  BY <1>1, <1>2, SetInduction
<1>4. QED
  BY <1>3 DEF S

(* The first step of a climb, and the others.                              *)
LEMMA ClimbSteps ==
    ASSUME NEW g, Len(g.frames) \in Nat, NEW i
    PROVE  /\ DOMAIN Climb(g, i) = 0 .. Len(g.frames)
           /\ Climb(g, i)[0] = i
           /\ \A k \in 1 .. Len(g.frames) :
                 Climb(g, i)[k] = ParentOf(g, Climb(g, i)[k - 1])
<1> DEFINE n == Len(g.frames)
           up == CHOOSE f : f = [k \in 0 .. n |->
                                   IF k = 0 THEN i ELSE ParentOf(g, f[k - 1])]
<1>1. Climb(g, i) = up
  BY DEF Climb
<1>2. n \in Nat
  OBVIOUS
<1> HIDE DEF n
<1>3. up = [k \in 0 .. n |-> IF k = 0 THEN i ELSE ParentOf(g, up[k - 1])]
  <2>1. PICK f : IsClimb(g, i, n, f)
    BY <1>2, ClimbExists
  <2>2. QED
    BY <2>1 DEF IsClimb
<1> HIDE DEF up
<1>4. /\ DOMAIN up = 0 .. n
      /\ up[0] = i
      /\ \A k \in 1 .. n : up[k] = ParentOf(g, up[k - 1])
  <2>1. DOMAIN up = 0 .. n
    BY <1>3
  <2>2. up[0] = i
    BY <1>2, <1>3
  <2>3. ASSUME NEW k \in 1 .. n PROVE up[k] = ParentOf(g, up[k - 1])
    <3>1. k \in 0 .. n /\ k # 0
      BY <1>2
    <3>2. QED
      BY <1>3, <3>1
  <2>4. QED
    BY <2>1, <2>2, <2>3
<1>5. QED
  BY <1>1, <1>4 DEF n

(* A climb that has reached a set which holds the parents of its members   *)
(* stays in it until it ends above the root.                               *)
LEMMA ClimbStays ==
    ASSUME NEW g, Len(g.frames) \in Nat, NEW i, NEW S,
           \A j \in S : ParentOf(g, j) \in S \cup {None},
           NEW m \in 0 .. Len(g.frames), Climb(g, i)[m] \in S \cup {None}
    PROVE  \A k \in m .. Len(g.frames) : Climb(g, i)[k] \in S \cup {None}
<1> DEFINE n == Len(g.frames)
           up == Climb(g, i)
           D == {d \in Nat : m + d <= n => up[m + d] \in S \cup {None}}
<1>1. \A k \in 1 .. n : up[k] = ParentOf(g, up[k - 1])
  BY ClimbSteps
<1>2. n \in Nat /\ m \in Nat /\ up[m] \in S \cup {None}
  OBVIOUS
<1> HIDE DEF n, up
<1>3. 0 \in D
  BY <1>2
<1>4. ASSUME NEW d \in Nat, d \in D PROVE d + 1 \in D
  <2> SUFFICES ASSUME m + (d + 1) <= n PROVE up[m + (d + 1)] \in S \cup {None}
    OBVIOUS
  <2>1. /\ m + (d + 1) \in 1 .. n
        /\ (m + (d + 1)) - 1 = m + d
        /\ m + d <= n
    BY <1>2
  <2>2. up[m + d] \in S \cup {None}
    BY <1>4, <2>1
  <2>3. up[m + (d + 1)] = ParentOf(g, up[m + d])
    BY <1>1, <2>1
  <2>4. ParentOf(g, None) = None
    BY DEF ParentOf
  <2>5. QED
    BY <2>2, <2>3, <2>4
<1>5. Nat \subseteq D
  <2> HIDE DEF D
  <2>1. QED
    BY <1>3, <1>4, SetInduction
<1>6. ASSUME NEW k \in m .. n PROVE up[k] \in S \cup {None}
  <2>1. k - m \in Nat /\ m + (k - m) = k /\ k <= n
    BY <1>2
  <2>2. k - m \in D
    BY <1>5, <2>1
  <2>3. QED
    BY <2>1, <2>2
<1>7. QED
  BY <1>6 DEF n, up

(* In a tree every climb moves to smaller positions and ends above the     *)
(* root within as many steps as there are frames.                          *)
LEMMA ClimbDescends ==
    ASSUME NEW g, WellFormed(g), NEW i \in Indices(g)
    PROVE  /\ \A k \in 0 .. Len(g.frames) :
                 /\ Climb(g, i)[k] \in Indices(g) \cup {None}
                 /\ Climb(g, i)[k] # None => Climb(g, i)[k] <= i - k
           /\ Climb(g, i)[Len(g.frames)] = None
<1> DEFINE n == Len(g.frames)
           up == Climb(g, i)
<1>1. n \in Nat /\ Indices(g) = 1 .. n /\ n >= 1 /\ RootIndex \in Indices(g)
  BY GraphMembers DEF WellFormed
<1>2. \A j \in Indices(g) : ParentOf(g, j) = None \/ ParentOf(g, j) \in 1 .. j - 1
  BY DEF WellFormed, ParentsPrecede
<1>3. up[0] = i /\ \A k \in 1 .. n : up[k] = ParentOf(g, up[k - 1])
  BY <1>1, ClimbSteps
<1>4. ParentOf(g, None) = None
  BY DEF ParentOf
<1> HIDE DEF n, up
<1> DEFINE S == {k \in Nat : k <= n =>
                     /\ up[k] \in Indices(g) \cup {None}
                     /\ up[k] # None => up[k] <= i - k}
<1>5. 0 \in S
  BY <1>1, <1>3
<1>6. ASSUME NEW k \in Nat, k \in S PROVE k + 1 \in S
  <2> SUFFICES ASSUME k + 1 <= n
               PROVE  /\ up[k + 1] \in Indices(g) \cup {None}
                      /\ up[k + 1] # None => up[k + 1] <= i - (k + 1)
    OBVIOUS
  <2>1. k + 1 \in 1 .. n /\ (k + 1) - 1 = k /\ k <= n
    BY <1>1
  <2>2. up[k] \in Indices(g) \cup {None} /\ (up[k] # None => up[k] <= i - k)
    BY <1>6, <2>1
  <2>3. up[k + 1] = ParentOf(g, up[k])
    BY <1>3, <2>1
  <2>4. CASE up[k] = None
    BY <1>4, <2>3, <2>4
  <2>5. CASE up[k] # None
    <3> DEFINE j == up[k]
               q == up[k + 1]
    <3>1. j \in 1 .. n /\ j <= i - k /\ (q = None \/ q \in 1 .. j - 1)
      BY <1>1, <1>2, <2>2, <2>3, <2>5
    <3> HIDE DEF j, q
    <3>2. i \in Int /\ j \in Int
      BY <1>1, <3>1
    <3>3. q \in 1 .. n \cup {None} /\ (q # None => q <= i - (k + 1))
      BY <1>1, <3>1, <3>2
    <3>4. QED
      BY <1>1, <3>3 DEF q
  <2>6. QED
    BY <2>4, <2>5
<1>7. Nat \subseteq S
  <2> HIDE DEF S
  <2>1. QED
    BY <1>5, <1>6, SetInduction
<1>8. \A k \in 0 .. n : /\ up[k] \in Indices(g) \cup {None}
                        /\ up[k] # None => up[k] <= i - k
  <2>1. \A k \in 0 .. n : k \in Nat /\ k <= n
    BY <1>1
  <2>2. QED
    BY <1>7, <2>1
<1>9. up[n] = None
  <2> DEFINE q == up[n]
  <2>1. n \in 0 .. n /\ i \in 1 .. n
    BY <1>1
  <2>2. q \in Indices(g) \cup {None} /\ (q # None => q <= i - n)
    BY <1>8, <2>1
  <2> HIDE DEF q
  <2>3. q = None
    BY <1>1, <2>1, <2>2
  <2>4. QED
    BY <2>3 DEF q
<1>10. QED
  BY <1>8, <1>9 DEF n, up

(* What a climb visits: the frame, the parents of what it visits, the root.*)
LEMMA VisitedProperties ==
    ASSUME NEW g, WellFormed(g), NEW i \in Indices(g)
    PROVE  /\ Visited(g, i) \subseteq Indices(g)
           /\ i \in Visited(g, i)
           /\ \A j \in Visited(g, i) : ParentOf(g, j) \in Visited(g, i) \cup {None}
           /\ RootIndex \in Visited(g, i)
<1> DEFINE n == Len(g.frames)
           up == Climb(g, i)
           V == Visited(g, i)
<1>1. n \in Nat /\ Indices(g) = 1 .. n /\ None \notin Indices(g)
  BY GraphMembers DEF WellFormed, None
<1>2. /\ up[0] = i
      /\ \A k \in 1 .. n : up[k] = ParentOf(g, up[k - 1])
  BY <1>1, ClimbSteps
<1>3. /\ \A k \in 0 .. n : up[k] \in Indices(g) \cup {None}
      /\ up[n] = None
  BY ClimbDescends
<1>4. V = {up[k] : k \in 0 .. n} \ {None}
  BY DEF Visited
<1> HIDE DEF n, up, V
<1>5. V \subseteq Indices(g)
  BY <1>3, <1>4
<1>6. i \in V
  BY <1>1, <1>2, <1>4
<1>7. ASSUME NEW j \in V PROVE ParentOf(g, j) \in V \cup {None}
  <2>1. PICK k \in 0 .. n : j = up[k] /\ j # None
    BY <1>4
  <2>2. k # n
    BY <1>3, <2>1
  <2>3. k + 1 \in 1 .. n /\ (k + 1) - 1 = k /\ k + 1 \in 0 .. n
    BY <1>1, <2>2
  <2>4. up[k + 1] = ParentOf(g, j)
    BY <1>2, <2>1, <2>3
  <2>5. QED
    BY <1>4, <2>3, <2>4
<1>8. RootIndex \in V
  <2> DEFINE m == Min(V)
  <2>1. m \in V /\ \A y \in V : m <= y
    <3>1. V \in SUBSET Nat /\ V # {}
      BY <1>1, <1>5, <1>6
    <3>2. QED
      BY <3>1, MinOfNaturals
  <2> HIDE DEF m
  <2>2. m \in Indices(g) /\ m \in Nat
    BY <1>1, <1>5, <2>1
  <2>3. ASSUME m # RootIndex PROVE FALSE
    <3>1. ParentOf(g, m) \in 1 .. m - 1
      BY <2>2, <2>3 DEF WellFormed, ParentsPrecede
    <3>2. ParentOf(g, m) \in V
      BY <1>7, <2>1, <3>1 DEF None
    <3>3. QED
      BY <2>1, <2>2, <3>1, <3>2
  <2>4. QED
    BY <2>1, <2>3
<1>9. QED
  BY <1>5, <1>6, <1>7, <1>8 DEF V

(* find_nearest_ancestor, on two walks: the frame it finds was visited on  *)
(* both, and every set that holds this frame and the parents of its        *)
(* members holds all that was visited on both.                             *)
LEMMA NearestProperties ==
    ASSUME NEW g, WellFormed(g), NEW a \in Indices(g), NEW b \in Indices(g)
    PROVE  LET nearest == NearestAncestor(g, a, b)
           IN  /\ nearest \in Visited(g, a) \cap Visited(g, b)
               /\ \A S : nearest \in S /\ (\A j \in S : ParentOf(g, j) \in S \cup {None})
                        => Visited(g, a) \cap Visited(g, b) \subseteq S
<1> DEFINE n == Len(g.frames)
           up == Climb(g, b)
           V == Visited(g, a)
           W == Visited(g, b)
           met == {k \in DOMAIN up : up[k] \in V}
           first == Min(met)
<1>1. n \in Nat
  BY GraphMembers DEF WellFormed
<1>2. DOMAIN up = 0 .. n
  BY <1>1, ClimbSteps
<1>3. W = {up[k] : k \in 0 .. n} \ {None}
  BY DEF Visited
<1>4. /\ RootIndex \in V /\ RootIndex \in W
      /\ V \subseteq Indices(g) /\ None \notin Indices(g)
  BY VisitedProperties, GraphMembers DEF WellFormed, None
<1>5. NearestAncestor(g, a, b) = IF met = {} THEN None ELSE up[first]
  BY DEF NearestAncestor
<1>6. ASSUME NEW S, \A j \in S : ParentOf(g, j) \in S \cup {None},
             NEW k \in 0 .. n, up[k] \in S, NEW l \in k .. n
      PROVE  up[l] \in S \cup {None}
  BY <1>1, <1>6, ClimbStays
<1> HIDE DEF n, up, V, W
<1>7. met # {}
  <2>1. PICK k \in 0 .. n : RootIndex = up[k]
    BY <1>3, <1>4
  <2>2. QED
    BY <1>2, <1>4, <2>1
<1>8. first \in met /\ \A y \in met : first <= y
  <2>1. met \in SUBSET Nat
    BY <1>1, <1>2
  <2> HIDE DEF met
  <2>2. QED
    BY <1>7, <2>1, MinOfNaturals
<1> HIDE DEF first
<1>9. first \in 0 .. n /\ up[first] \in V
  BY <1>2, <1>8
<1>10. up[first] \in V \cap W
  BY <1>3, <1>4, <1>9
<1>11. ASSUME NEW S, up[first] \in S, \A j \in S : ParentOf(g, j) \in S \cup {None},
              NEW x \in V \cap W
       PROVE  x \in S
  <2>1. PICK k \in 0 .. n : x = up[k] /\ x # None
    BY <1>3
  <2>2. k \in met
    BY <1>2, <2>1
  <2>3. k \in first .. n
    BY <1>1, <1>8, <1>9, <2>2
  <2>4. QED
    BY <1>6, <1>9, <1>11, <2>1, <2>3
<1>12. QED
  BY <1>5, <1>7, <1>10, <1>11 DEF V, W

(* The length of the path from a frame to one it climbs to; the frames     *)
(* that lie on it below its end are not the root.                          *)
LEMMA PathProperties ==
    ASSUME NEW g, WellFormed(g), NEW i \in Indices(g), NEW ancestor \in Visited(g, i)
    PROVE  LET last == PathLength(g, ancestor, i)
           IN  /\ last \in 0 .. Len(g.frames)
               /\ Climb(g, i)[last] = ancestor
               /\ \A k \in 0 .. last - 1 : Climb(g, i)[k] \in Indices(g) \ {RootIndex}
<1> DEFINE n == Len(g.frames)
           up == Climb(g, i)
           reached == {k \in 0 .. n : up[k] = ancestor}
           last == Min(reached)
<1>1. n \in Nat /\ RootIndex \in Indices(g)
  BY GraphMembers DEF WellFormed
<1>2. PathLength(g, ancestor, i) = last
  BY DEF PathLength
<1>3. ancestor \in {up[k] : k \in 0 .. n} \ {None}
  BY DEF Visited
<1>4. \A k \in 0 .. n : up[k] \in Indices(g) \cup {None}
  BY ClimbDescends
<1>5. ASSUME NEW S, \A j \in S : ParentOf(g, j) \in S \cup {None},
             NEW k \in 0 .. n, up[k] \in S \cup {None}, NEW l \in k .. n
      PROVE  up[l] \in S \cup {None}
  BY <1>1, <1>5, ClimbStays
<1> HIDE DEF n, up
<1>6. last \in reached /\ \A y \in reached : last <= y
  <2>1. reached \in SUBSET Nat /\ reached # {}
    BY <1>1, <1>3
  <2> HIDE DEF reached
  <2>2. QED
    BY <2>1, MinOfNaturals
<1> HIDE DEF last
<1>7. last \in 0 .. n /\ up[last] = ancestor /\ ancestor # None
  BY <1>3, <1>6
<1>8. ASSUME NEW k \in 0 .. last - 1 PROVE up[k] \in Indices(g) \ {RootIndex}
  <2>1. k \in 0 .. n /\ last \in k .. n /\ ~(last <= k)
    BY <1>1, <1>7
  <2>2. up[k] # ancestor
    BY <1>6, <2>1
  <2>3. up[k] # None
    <3>1. up[k] = None => up[last] \in {} \cup {None}
      BY <1>5, <2>1
    <3>2. QED
      BY <1>7, <3>1
  <2>4. up[k] # RootIndex
    <3>1. ParentOf(g, RootIndex) = None
      BY DEF WellFormed, ParentsPrecede
    <3>2. up[k] = RootIndex => up[last] \in {RootIndex} \cup {None}
      BY <1>5, <2>1, <3>1
    <3>3. QED
      BY <1>7, <2>2, <3>2
  <2>5. QED
    BY <1>4, <2>1, <2>3, <2>4
<1>9. QED
  BY <1>2, <1>7, <1>8 DEF up, n

(* Every edge between a frame and one it climbs to has a transform to      *)
(* read, so compute_transform never fails between two known frames.        *)
LEMMA PathReadable ==
    ASSUME NEW g, WellFormed(g), NEW i \in Indices(g), NEW ancestor \in Visited(g, i)
    PROVE  Readable(g, ancestor, i)
<1>1. \A k \in 0 .. PathLength(g, ancestor, i) - 1 :
          Climb(g, i)[k] \in Indices(g) \ {RootIndex}
  BY PathProperties
<1>2. QED
  BY <1>1 DEF Readable, WellFormed, EdgesCarryData

(* get_transform fails for unknown frames only.                            *)
LEMMA LookupSucceeds ==
    ASSUME NEW g, WellFormed(g), NEW target, NEW source, NEW t
    PROVE  GetTransform(g, target, source, t).ok
              <=> target = source \/ (Exists(g, target) /\ Exists(g, source))
<1>1. CASE target = source
  BY <1>1 DEF GetTransform, Answer
<1>2. CASE target # source /\ ~(Exists(g, target) /\ Exists(g, source))
  BY <1>2 DEF GetTransform, Failure
<1>3. CASE target # source /\ Exists(g, target) /\ Exists(g, source)
  <2> DEFINE to == g.name_to_index[target]
             from == g.name_to_index[source]
             ancestor == NearestAncestor(g, to, from)
  <2>1. to \in Indices(g) /\ from \in Indices(g)
    BY <1>3 DEF WellFormed, Typed, Exists
  <2> HIDE DEF to, from
  <2>2. ancestor \in Visited(g, to) \cap Visited(g, from)
    BY <2>1, NearestProperties
  <2>3. None \notin Visited(g, to)
    BY DEF Visited
  <2> HIDE DEF ancestor
  <2>4. ancestor # None /\ Readable(g, ancestor, to) /\ Readable(g, ancestor, from)
    BY <2>1, <2>2, <2>3, PathReadable
  <2>5. \E transform : GetTransform(g, target, source, t) = Answer(source, target, t, transform)
    <3>1. GetTransform(g, target, source, t) =
              Answer(source, target, t,
                     Compose(AlongPath(g, ancestor, to, t),
                             Invert(AlongPath(g, ancestor, from, t))))
      BY <1>3, <2>4 DEF GetTransform, ancestor, to, from
    <3>2. QED
      BY <3>1
  <2>6. QED
    BY <1>3, <2>5 DEF Answer
<1>4. QED
  BY <1>1, <1>2, <1>3

-----------------------------------------------------------------------------
(***************************************************************************)
(* Products of transforms along a path.  Of the transforms they need what  *)
(* every product of matrices has: it is associative, the identity is       *)
(* neutral and its own inverse, and an inverse is a matrix again.          *)
(***************************************************************************)
Composable(Poses) ==
    /\ Identity \in Poses
    /\ Transforms \subseteq Poses
    /\ \A a, b \in Transforms, num, den \in Nat :
          0 < num /\ num < den => Interpolate(a, b, num, den) \in Poses
    /\ \A a, b \in Poses : Compose(a, b) \in Poses
    /\ \A a, b, c \in Poses : Compose(Compose(a, b), c) = Compose(a, Compose(b, c))
    /\ \A a \in Poses : Compose(a, Identity) = a /\ Compose(Identity, a) = a
    /\ Invert(Identity) = Identity
    /\ \A a \in Poses : Invert(a) \in Poses

(* What a buffer answers with is a pose.                                   *)
LEMMA LookupIsPose ==
    ASSUME NEW Poses, Composable(Poses),
           NEW deque \in Seq(Entries), deque # <<>>, StrictlySorted(deque), NEW t \in Int
    PROVE  Lookup(deque, t) \in Poses
<1>1. deque \in Seq(StampedBy(Transforms))
  <2>1. Entries \subseteq StampedBy(Transforms)
    BY InstantsAreIntegers DEF Entries, StampedBy
  <2>2. QED
    BY <2>1, SeqMonotonic
<1>2. Len(deque) >= 1
  BY EmptySeq, LenProperties
<1>3. \A e \in Content(deque) : e.stamp \in Int /\ e.transform \in Transforms
  BY <1>1, DequeEntries DEF Content
<1>4. Newest(deque) \in Content(deque) /\ Oldest(deque) \in Content(deque)
  BY <1>1, <1>2, EndsAreExtremes
<1>5. Newest(deque).transform \in Poses /\ Oldest(deque).transform \in Poses
  BY <1>3, <1>4 DEF Composable
<1>6. CASE t = 0 \/ t <= Oldest(deque).stamp \/ t >= Newest(deque).stamp
  BY <1>5, <1>6 DEF Lookup
<1>7. CASE ~(t = 0 \/ t <= Oldest(deque).stamp \/ t >= Newest(deque).stamp)
  <2>1. t # 0 /\ t > Oldest(deque).stamp /\ t < Newest(deque).stamp
    BY <1>3, <1>4, <1>7
  <2>2. CASE \E e \in Content(deque) : e.stamp = t /\ Lookup(deque, t) = e.transform
    BY <1>3, <2>2 DEF Composable
  <2>3. CASE \E lo, hi \in Content(deque) :
               /\ lo.stamp < t /\ t < hi.stamp
               /\ Lookup(deque, t) = Interpolate(lo.transform, hi.transform,
                                                 t - lo.stamp, hi.stamp - lo.stamp)
    <3>1. PICK lo \in Content(deque), hi \in Content(deque) :
               /\ lo.stamp < t /\ t < hi.stamp
               /\ Lookup(deque, t) = Interpolate(lo.transform, hi.transform,
                                                 t - lo.stamp, hi.stamp - lo.stamp)
      BY <2>3
    <3>2. lo.stamp \in Int /\ hi.stamp \in Int
          /\ lo.transform \in Transforms /\ hi.transform \in Transforms
      BY <1>3
    <3> DEFINE num == t - lo.stamp
               den == hi.stamp - lo.stamp
    <3>3. num \in Nat /\ den \in Nat /\ 0 < num /\ num < den
      BY <3>1, <3>2
    <3> HIDE DEF num, den
    <3>4. Interpolate(lo.transform, hi.transform, num, den) \in Poses
      BY <3>2, <3>3 DEF Composable
    <3>5. QED
      BY <3>1, <3>4 DEF num, den
  <2>4. QED
    BY <1>1, <1>2, <2>1, <2>2, <2>3, LookupBetween
<1>8. QED
  BY <1>6, <1>7

(* What one edge contributes to a product.                                 *)
Edge(g, i, t) == Lookup(g.frames[i].buffer, t)

LEMMA EdgeIsPose ==
    ASSUME NEW Poses, Composable(Poses), NEW g, WellFormed(g),
           NEW i \in Indices(g) \ {RootIndex}, NEW t \in Int
    PROVE  Edge(g, i, t) \in Poses
<1>1. /\ g.frames[i].buffer \in Seq(Entries)
      /\ g.frames[i].buffer # <<>>
      /\ StrictlySorted(g.frames[i].buffer)
  BY FrameAndList DEF WellFormed, EdgesCarryData
<1>2. QED
  BY <1>1, LookupIsPose DEF Edge

(* The product up to any step of a climb, as AlongPath builds it.          *)
IsProduct(g, i, t, n, f) ==
    f = [k \in 0 .. n |-> IF k = 0 THEN Identity
                          ELSE Compose(Edge(g, Climb(g, i)[k - 1], t), f[k - 1])]

LEMMA ProductExists ==
    ASSUME NEW g, NEW i, NEW t
    PROVE  \A n \in Nat : \E f : IsProduct(g, i, t, n, f)
<1> DEFINE S == {n \in Nat : \E f : IsProduct(g, i, t, n, f)}
           edge(k) == Edge(g, Climb(g, i)[k], t)
<1>1. 0 \in S
  <2> DEFINE f == [k \in 0 .. 0 |-> Identity]
  <2>1. f = [k \in 0 .. 0 |-> IF k = 0 THEN Identity
                             ELSE Compose(Edge(g, Climb(g, i)[k - 1], t), f[k - 1])]
    OBVIOUS
  <2>2. QED
    BY <2>1 DEF IsProduct
<1>2. ASSUME NEW n \in Nat, n \in S PROVE n + 1 \in S
  <2>1. PICK f : f = [k \in 0 .. n |-> IF k = 0 THEN Identity
                                      ELSE Compose(edge(k - 1), f[k - 1])]
    BY <1>2 DEF IsProduct
  <2> DEFINE h == [k \in 0 .. n + 1 |-> IF k = n + 1 THEN Compose(edge(n), f[n]) ELSE f[k]]
  <2> HIDE DEF edge
  <2>2. ASSUME NEW k \in 0 .. n + 1
        PROVE  h[k] = IF k = 0 THEN Identity ELSE Compose(edge(k - 1), h[k - 1])
    <3>1. CASE k = n + 1
      <4>1. n \in 0 .. n + 1 /\ k # 0 /\ k - 1 = n /\ n # n + 1
        BY <3>1
      <4>2. h[k] = Compose(edge(n), f[n]) /\ h[n] = f[n]
        BY <3>1, <4>1
      <4> HIDE DEF h
      <4>3. QED
        BY <4>1, <4>2
    <3>2. CASE k # n + 1
      <4>1. k \in 0 .. n /\ h[k] = f[k]
        BY <3>2
      <4>2. f[k] = IF k = 0 THEN Identity ELSE Compose(edge(k - 1), f[k - 1])
        BY <2>1, <4>1
      <4>3. k # 0 => k - 1 \in 0 .. n + 1 /\ k - 1 # n + 1
        BY <4>1
      <4>4. k # 0 => h[k - 1] = f[k - 1]
        BY <4>3
      <4> HIDE DEF h
      <4>5. QED
        BY <4>1, <4>2, <4>4
    <3>3. QED
      BY <3>1, <3>2
  <2>3. h = [k \in 0 .. n + 1 |-> h[k]]
    OBVIOUS
  <2> HIDE DEF h
  <2>4. h = [k \in 0 .. n + 1 |-> IF k = 0 THEN Identity
                                 ELSE Compose(edge(k - 1), h[k - 1])]
    BY <2>2, <2>3
  <2>5. QED
    BY <2>4 DEF IsProduct, edge
<1> HIDE DEF S
<1>3. Nat \subseteq S
  BY <1>1, <1>2, SetInduction
<1>4. QED
  BY <1>3 DEF S

(* One product serves the paths from a frame to all of its ancestors.      *)
IsPathProduct(g, i, t, f) ==
    /\ f[0] = Identity
    /\ \A k \in 1 .. Len(g.frames) :
          f[k] = Compose(Edge(g, Climb(g, i)[k - 1], t), f[k - 1])
    /\ \A a : AlongPath(g, a, i, t) = f[PathLength(g, a, i)]

LEMMA ProductSteps ==
    ASSUME NEW g, Len(g.frames) \in Nat, NEW i, NEW t
    PROVE  \E f : IsPathProduct(g, i, t, f)
<1> DEFINE n == Len(g.frames)
           up == Climb(g, i)
           f == CHOOSE h : h = [k \in 0 .. n |->
                    IF k = 0 THEN Identity
                    ELSE Compose(Lookup(g.frames[up[k - 1]].buffer, t), h[k - 1])]
<1>1. \A a : AlongPath(g, a, i, t) = f[PathLength(g, a, i)]
  BY DEF AlongPath
<1>2. n \in Nat
  OBVIOUS
<1> HIDE DEF n
<1>3. f = [k \in 0 .. n |-> IF k = 0 THEN Identity
                           ELSE Compose(Lookup(g.frames[up[k - 1]].buffer, t), f[k - 1])]
  <2>1. PICK h : IsProduct(g, i, t, n, h)
    BY <1>2, ProductExists
  <2>2. h = [k \in 0 .. n |-> IF k = 0 THEN Identity
                             ELSE Compose(Lookup(g.frames[up[k - 1]].buffer, t), h[k - 1])]
    BY <2>1 DEF IsProduct, Edge
  <2>3. QED
    BY <2>2
<1> HIDE DEF f
<1>4. f[0] = Identity
  BY <1>2, <1>3
<1>5. ASSUME NEW k \in 1 .. n PROVE f[k] = Compose(Edge(g, up[k - 1], t), f[k - 1])
  <2>1. k \in 0 .. n /\ k # 0
    BY <1>2
  <2>2. QED
    BY <1>3, <2>1 DEF Edge
<1>6. QED
  BY <1>1, <1>4, <1>5 DEF n, IsPathProduct

(* A climb passes a frame at one step only, so any step at which it does   *)
(* is the length of the path.                                              *)
LEMMA PathIsUnique ==
    ASSUME NEW g, WellFormed(g), NEW i \in Indices(g),
           NEW k \in 0 .. Len(g.frames), Climb(g, i)[k] # None
    PROVE  /\ Climb(g, i)[k] \in Visited(g, i)
           /\ PathLength(g, Climb(g, i)[k], i) = k
<1> DEFINE n == Len(g.frames)
           up == Climb(g, i)
           a == up[k]
           l == PathLength(g, a, i)
<1>1. n \in Nat /\ Indices(g) = 1 .. n
  BY GraphMembers DEF WellFormed
<1>2. a \in Visited(g, i)
  BY DEF Visited
<1>3. l \in 0 .. n /\ up[l] = a
  BY <1>2, PathProperties
<1>4. a \in Indices(g)
  BY <1>2, VisitedProperties
<1>5. \A x \in 0 .. n - 1 : up[x + 1] = ParentOf(g, up[x])
  <2>1. \A x \in 1 .. n : up[x] = ParentOf(g, up[x - 1])
    BY <1>1, ClimbSteps
  <2> HIDE DEF up, n
  <2>2. ASSUME NEW x \in 0 .. n - 1 PROVE up[x + 1] = ParentOf(g, up[x])
    <3>1. x + 1 \in 1 .. n /\ (x + 1) - 1 = x
      BY <1>1
    <3>2. QED
      BY <2>1, <3>1
  <2>3. QED
    BY <2>2
<1>6. ASSUME NEW S, \A j \in S : ParentOf(g, j) \in S \cup {None},
             NEW x \in 0 .. n, up[x] \in S \cup {None}, NEW y \in x .. n
      PROVE  up[y] \in S \cup {None}
  BY <1>1, <1>6, ClimbStays
<1> HIDE DEF n, up, a, l
<1>7. \A j \in Indices(g) : ParentOf(g, j) = None \/ ParentOf(g, j) \in 1 .. j - 1
  BY DEF WellFormed, ParentsPrecede
<1>8. ASSUME NEW x \in 0 .. n, NEW y \in 0 .. n, x < y, up[x] = a, up[y] = a
      PROVE  FALSE
  <2> DEFINE S == 1 .. a - 1
  <2>1. x \in 0 .. n - 1 /\ x + 1 \in 0 .. n /\ y \in x + 1 .. n
    BY <1>1, <1>8
  <2>2. a \in Nat /\ a \in 1 .. n
    BY <1>1, <1>4
  <2>3. \A j \in S : ParentOf(g, j) \in S \cup {None}
    <3> SUFFICES ASSUME NEW j \in S PROVE ParentOf(g, j) \in S \cup {None}
      OBVIOUS
    <3>1. j \in Indices(g) /\ j \in Nat /\ j <= a - 1
      BY <1>1, <2>2
    <3> DEFINE q == ParentOf(g, j)
    <3>2. q = None \/ q \in 1 .. j - 1
      BY <1>7, <3>1
    <3> HIDE DEF q
    <3>3. q \in S \cup {None}
      BY <2>2, <3>1, <3>2
    <3>4. QED
      BY <3>3 DEF q
  <2>4. up[x + 1] \in S \cup {None}
    BY <1>4, <1>5, <1>7, <1>8, <2>1
  <2> HIDE DEF S
  <2>5. up[y] \in S \cup {None}
    BY <1>6, <2>1, <2>3, <2>4
  <2>6. QED
    BY <1>8, <2>2, <2>5 DEF S, None
<1>9. k \in 0 .. n /\ up[k] = a
  BY DEF n, a
<1>10. l = k
  <2>1. ~(l < k)
    BY <1>3, <1>8, <1>9
  <2>2. ~(k < l)
    BY <1>3, <1>8, <1>9
  <2>3. QED
    BY <1>1, <1>3, <1>9, <2>1, <2>2
<1>11. QED
  BY <1>2, <1>10 DEF a, l, up

(* A climb from a frame on the way is the rest of the climb.               *)
LEMMA ClimbOnwards ==
    ASSUME NEW g, Len(g.frames) \in Nat, NEW i, NEW m \in 0 .. Len(g.frames),
           NEW j, j = Climb(g, i)[m]
    PROVE  \A k \in 0 .. Len(g.frames) - m : Climb(g, j)[k] = Climb(g, i)[m + k]
<1> DEFINE n == Len(g.frames)
           up == Climb(g, i)
           on == Climb(g, j)
           S == {k \in Nat : k <= n - m => on[k] = up[m + k]}
<1>1. /\ \A k \in 1 .. n : up[k] = ParentOf(g, up[k - 1])
      /\ \A k \in 1 .. n : on[k] = ParentOf(g, on[k - 1])
      /\ on[0] = j /\ j = up[m]
      /\ n \in Nat /\ m \in 0 .. n
  BY ClimbSteps
<1> HIDE DEF n, up, on
<1>2. 0 \in S
  BY <1>1
<1>3. ASSUME NEW k \in Nat, k \in S PROVE k + 1 \in S
  <2> SUFFICES ASSUME k + 1 <= n - m PROVE on[k + 1] = up[m + (k + 1)]
    OBVIOUS
  <2>1. /\ k + 1 \in 1 .. n /\ (k + 1) - 1 = k /\ k <= n - m
        /\ m + (k + 1) \in 1 .. n /\ (m + (k + 1)) - 1 = m + k
    <3>1. n \in Nat /\ m \in 0 .. n
      BY <1>1
    <3>2. QED
      BY <3>1
  <2>2. on[k] = up[m + k]
    BY <1>3, <2>1
  <2>3. on[k + 1] = ParentOf(g, on[k]) /\ up[m + (k + 1)] = ParentOf(g, up[m + k])
    BY <1>1, <2>1
  <2>4. QED
    BY <2>2, <2>3
<1>4. Nat \subseteq S
  <2> HIDE DEF S
  <2>1. QED
    BY <1>2, <1>3, SetInduction
<1>5. ASSUME NEW k \in 0 .. n - m PROVE on[k] = up[m + k]
  <2>1. k \in Nat /\ k <= n - m
    BY <1>1
  <2>2. QED
    BY <1>4, <2>1
<1>6. QED
  BY <1>5 DEF n, up, on

(* The product along a path is a pose, and is the product along its two    *)
(* parts, the upper one on the left.                                       *)
LEMMA PathsCompose ==
    ASSUME NEW Poses, Composable(Poses), NEW g, WellFormed(g), NEW t \in Int,
           NEW i \in Indices(g), NEW mid \in Visited(g, i), NEW high \in Visited(g, mid)
    PROVE  /\ high \in Visited(g, i)
           /\ AlongPath(g, mid, i, t) \in Poses
           /\ AlongPath(g, i, i, t) = Identity
           /\ AlongPath(g, high, i, t) =
                 Compose(AlongPath(g, high, mid, t), AlongPath(g, mid, i, t))
<1>1. /\ Len(g.frames) \in Nat /\ Indices(g) = 1 .. Len(g.frames)
      /\ RootIndex \in Indices(g)
  BY GraphMembers DEF WellFormed
<1>2. mid \in Indices(g) /\ high \in Indices(g) /\ mid # None /\ high # None /\ i # None
  <2>1. mid \in Indices(g)
    BY VisitedProperties
  <2>2. high \in Indices(g)
    BY <2>1, VisitedProperties
  <2>3. QED
    BY <1>1, <2>1, <2>2 DEF None
<1>3. PICK f : IsPathProduct(g, i, t, f)
  BY <1>1, ProductSteps
<1>4. PICK h : IsPathProduct(g, mid, t, h)
  BY <1>1, ProductSteps
<1> DEFINE n == Len(g.frames)
           up == Climb(g, i)
           on == Climb(g, mid)
           m == PathLength(g, mid, i)
           l == PathLength(g, high, mid)
<1>5. n \in Nat /\ i \in 1 .. n /\ mid \in 1 .. n /\ high \in 1 .. n
  BY <1>1, <1>2
<1>6. /\ m \in 0 .. n /\ up[m] = mid
      /\ \A k \in 0 .. m - 1 : up[k] \in Indices(g) \ {RootIndex}
  BY PathProperties
<1>7. /\ l \in 0 .. n /\ on[l] = high
      /\ \A k \in 0 .. l - 1 : on[k] \in Indices(g) \ {RootIndex}
  BY <1>2, PathProperties
<1>8. mid <= i - m /\ high <= mid - l
  BY <1>2, <1>6, <1>7, ClimbDescends
<1>9. \A k \in 0 .. n - m : on[k] = up[m + k]
  <2>1. m \in 0 .. Len(g.frames) /\ mid = Climb(g, i)[m]
    BY <1>6
  <2> HIDE DEF m
  <2>2. \A k \in 0 .. Len(g.frames) - m : Climb(g, mid)[k] = Climb(g, i)[m + k]
    BY <1>1, <2>1, ClimbOnwards
  <2>3. QED
    BY <2>2
<1>10. /\ f[0] = Identity
       /\ \A k \in 1 .. n : f[k] = Compose(Edge(g, up[k - 1], t), f[k - 1])
  BY <1>3 DEF IsPathProduct
<1>11. \A a : AlongPath(g, a, i, t) = f[PathLength(g, a, i)]
  BY <1>3 DEF IsPathProduct
<1>12. /\ h[0] = Identity
       /\ \A k \in 1 .. n : h[k] = Compose(Edge(g, on[k - 1], t), h[k - 1])
  BY <1>4 DEF IsPathProduct
<1>13. \A a : AlongPath(g, a, mid, t) = h[PathLength(g, a, mid)]
  BY <1>4 DEF IsPathProduct
<1>14. \A k \in 0 .. n : up[k] # None => PathLength(g, up[k], i) = k /\ up[k] \in Visited(g, i)
  BY PathIsUnique
<1>15. up[0] = i
  BY <1>1, ClimbSteps
<1>16. /\ AlongPath(g, mid, i, t) = f[m]
       /\ AlongPath(g, high, mid, t) = h[l]
  BY <1>11, <1>13
<1>17. AlongPath(g, i, i, t) = Identity
  <2>1. 0 \in 0 .. n
    BY <1>1
  <2>2. PathLength(g, i, i) = 0
    BY <1>2, <1>14, <1>15, <2>1
  <2>3. QED
    BY <1>11, <1>10, <2>2
<1> HIDE DEF n, up, on, m, l
<1>18. m + l \in 0 .. n /\ l \in 0 .. n - m /\ m \in Nat /\ l \in Nat
  BY <1>5, <1>6, <1>7, <1>8
<1>19. up[m + l] = high
  BY <1>7, <1>9, <1>18
<1>20. high \in Visited(g, i) /\ PathLength(g, high, i) = m + l
  BY <1>2, <1>14, <1>18, <1>19
<1>21. /\ \A k \in Nat : k < m => Edge(g, up[k], t) \in Poses
       /\ \A k \in Nat : k < l => Edge(g, on[k], t) \in Poses
  <2>1. ASSUME NEW k \in Nat, k < m PROVE Edge(g, up[k], t) \in Poses
    <3>1. up[k] \in Indices(g) \ {RootIndex}
      BY <1>6, <1>18, <2>1
    <3>2. QED
      BY <3>1, EdgeIsPose
  <2>2. ASSUME NEW k \in Nat, k < l PROVE Edge(g, on[k], t) \in Poses
    <3>1. on[k] \in Indices(g) \ {RootIndex}
      BY <1>7, <1>18, <2>2
    <3>2. QED
      BY <3>1, EdgeIsPose
  <2>3. QED
    BY <2>1, <2>2
<1>22. f[m] \in Poses
  <2> DEFINE S == {k \in Nat : k <= m => f[k] \in Poses}
  <2>1. 0 \in S
    BY <1>10 DEF Composable
  <2>2. ASSUME NEW k \in Nat, k \in S PROVE k + 1 \in S
    <3> SUFFICES ASSUME k + 1 <= m PROVE f[k + 1] \in Poses
      OBVIOUS
    <3>1. k + 1 \in 1 .. n /\ (k + 1) - 1 = k /\ k < m /\ k <= m
      BY <1>5, <1>6
    <3>2. f[k + 1] = Compose(Edge(g, up[k], t), f[k])
      BY <1>10, <3>1
    <3>3. f[k] \in Poses /\ Edge(g, up[k], t) \in Poses
      BY <1>21, <2>2, <3>1
    <3>4. QED
      BY <3>2, <3>3 DEF Composable
  <2> HIDE DEF S
  <2>3. Nat \subseteq S
    BY <2>1, <2>2, SetInduction
  <2>4. m \in S
    BY <1>18, <2>3
  <2>5. QED
    BY <1>18, <2>4 DEF S
<1>23. \A x, y, z \in Poses : Compose(x, Compose(y, z)) = Compose(Compose(x, y), z)
  BY DEF Composable
<1>24. f[m + l] = Compose(h[l], f[m])
  <2> DEFINE S == {k \in Nat : k <= l => /\ h[k] \in Poses
                                         /\ f[m + k] = Compose(h[k], f[m])}
  <2>1. 0 \in S
    BY <1>10, <1>12, <1>18, <1>22 DEF Composable
  <2>2. ASSUME NEW k \in Nat, k \in S PROVE k + 1 \in S
    <3> SUFFICES ASSUME k + 1 <= l
                 PROVE  h[k + 1] \in Poses /\ f[m + (k + 1)] = Compose(h[k + 1], f[m])
      OBVIOUS
    <3>1. /\ k + 1 \in 1 .. n /\ (k + 1) - 1 = k /\ k < l /\ k <= l
          /\ m + (k + 1) \in 1 .. n /\ (m + (k + 1)) - 1 = m + k
          /\ k \in 0 .. n - m
      BY <1>5, <1>7, <1>18
    <3> DEFINE e == Edge(g, on[k], t)
    <3>2. h[k + 1] = Compose(e, h[k])
      BY <1>12, <3>1
    <3>3. f[m + (k + 1)] = Compose(e, f[m + k])
      BY <1>9, <1>10, <3>1
    <3>4. e \in Poses /\ h[k] \in Poses /\ f[m + k] = Compose(h[k], f[m])
      BY <1>21, <2>2, <3>1
    <3> HIDE DEF e
    <3>5. Compose(e, Compose(h[k], f[m])) = Compose(Compose(e, h[k]), f[m])
      BY <1>22, <1>23, <3>4
    <3>6. Compose(e, h[k]) \in Poses
      BY <3>4 DEF Composable
    <3>7. QED
      BY <3>2, <3>3, <3>4, <3>5, <3>6
  <2> HIDE DEF S
  <2>3. Nat \subseteq S
    BY <2>1, <2>2, SetInduction
  <2>4. l \in S
    BY <1>18, <2>3
  <2>5. QED
    BY <1>18, <2>4 DEF S
<1>25. AlongPath(g, high, i, t) = f[m + l]
  BY <1>11, <1>20
<1>26. QED
  BY <1>16, <1>17, <1>20, <1>22, <1>24, <1>25

(* The pose of a frame is that of its parent and the edge between them.    *)
LEMMA PathFromParent ==
    ASSUME NEW Poses, Composable(Poses), NEW g, WellFormed(g), NEW t \in Int,
           NEW i \in Indices(g) \ {RootIndex}
    PROVE  /\ AlongPath(g, RootIndex, RootIndex, t) = Identity
           /\ AlongPath(g, RootIndex, i, t) =
                 Compose(AlongPath(g, RootIndex, ParentOf(g, i), t), Edge(g, i, t))
<1> DEFINE n == Len(g.frames)
           p == ParentOf(g, i)
           up == Climb(g, i)
<1>1. n \in Nat /\ Indices(g) = 1 .. n /\ RootIndex \in Indices(g) /\ RootIndex = 1
  BY GraphMembers DEF WellFormed, RootIndex
<1>2. p \in 1 .. i - 1
  BY DEF WellFormed, ParentsPrecede
<1>3. p \in Indices(g) /\ p # None /\ 1 \in 1 .. n /\ 0 = 1 - 1
  BY <1>1, <1>2 DEF None
<1>4. up[0] = i /\ up[1] = p
  <2>1. up[0] = i /\ \A k \in 1 .. n : up[k] = ParentOf(g, up[k - 1])
    BY <1>1, ClimbSteps
  <2>2. QED
    BY <1>3, <2>1
<1>5. p \in Visited(g, i) /\ PathLength(g, p, i) = 1
  BY <1>1, <1>3, <1>4, PathIsUnique
<1>6. AlongPath(g, p, i, t) = Edge(g, i, t)
  <2>1. PICK f : IsPathProduct(g, i, t, f)
    BY <1>1, ProductSteps
  <2>2. f[0] = Identity /\ f[1] = Compose(Edge(g, i, t), f[0]) /\ AlongPath(g, p, i, t) = f[1]
    BY <1>3, <1>4, <1>5, <2>1 DEF IsPathProduct
  <2>3. Edge(g, i, t) \in Poses
    BY EdgeIsPose
  <2>4. QED
    BY <2>2, <2>3 DEF Composable
<1> HIDE DEF p, n, up
<1>7. RootIndex \in Visited(g, p) /\ RootIndex \in Visited(g, RootIndex)
  BY <1>1, <1>3, VisitedProperties
<1>8. AlongPath(g, RootIndex, i, t) = Compose(AlongPath(g, RootIndex, p, t), Edge(g, i, t))
  BY <1>5, <1>6, <1>7, PathsCompose
<1>9. AlongPath(g, RootIndex, RootIndex, t) = Identity
  BY <1>1, <1>7, PathsCompose
<1>10. QED
  BY <1>8, <1>9 DEF p

(* Along one branch the nearest common ancestor is the upper frame.        *)
LEMMA NearestOnBranch ==
    ASSUME NEW g, WellFormed(g), NEW i \in Indices(g), NEW a \in Visited(g, i)
    PROVE  NearestAncestor(g, i, a) = a /\ NearestAncestor(g, a, i) = a
<1>1. a \in Indices(g)
  BY VisitedProperties
<1>2. Visited(g, a) \cap Visited(g, i) = Visited(g, i) \cap Visited(g, a)
  OBVIOUS
<1>3. a \in Visited(g, a) \cap Visited(g, i)
  BY <1>1, VisitedProperties
<1>4. ASSUME NEW x \in Indices(g), NEW y \in Visited(g, x) PROVE y <= x
  <2>1. PICK k \in 0 .. Len(g.frames) : y = Climb(g, x)[k] /\ y # None
    BY DEF Visited
  <2>2. y <= x - k
    BY <2>1, ClimbDescends
  <2>3. Len(g.frames) \in Nat /\ x \in Nat /\ y \in Nat
    <3>1. y \in Indices(g)
      BY VisitedProperties
    <3>2. QED
      BY <3>1, GraphMembers DEF WellFormed
  <2>4. QED
    BY <2>2, <2>3
<1>5. ASSUME NEW nearest, nearest \in Visited(g, a) \cap Visited(g, i),
             \A S : nearest \in S /\ (\A j \in S : ParentOf(g, j) \in S \cup {None})
                      => Visited(g, a) \cap Visited(g, i) \subseteq S
      PROVE  nearest = a
  <2>1. nearest \in Indices(g)
    BY <1>5, VisitedProperties
  <2>2. /\ nearest \in Visited(g, nearest)
        /\ \A j \in Visited(g, nearest) : ParentOf(g, j) \in Visited(g, nearest) \cup {None}
    BY <2>1, VisitedProperties
  <2>3. a \in Visited(g, nearest)
    BY <1>3, <1>5, <2>2
  <2>4. a <= nearest /\ nearest <= a
    BY <1>1, <1>4, <1>5, <2>1, <2>3
  <2>5. a \in Nat /\ nearest \in Nat
    BY <1>1, <2>1, GraphMembers DEF WellFormed
  <2>6. QED
    BY <2>4, <2>5
<1>6. NearestAncestor(g, a, i) = a
  BY <1>1, <1>5, NearestProperties
<1>7. NearestAncestor(g, i, a) = a
  BY <1>1, <1>2, <1>5, NearestProperties
<1>8. QED
  BY <1>6, <1>7

(* Between a frame and one above it get_transform answers with the product *)
(* along the path, or with its inverse.                                    *)
LEMMA PoseOnBranch ==
    ASSUME NEW Poses, Composable(Poses), NEW g, WellFormed(g), NEW t \in Int,
           NEW low, NEW high, Exists(g, low), Exists(g, high),
           g.name_to_index[high] \in Visited(g, g.name_to_index[low])
    PROVE  LET path == AlongPath(g, g.name_to_index[high], g.name_to_index[low], t)
           IN  /\ GetTransform(g, low, high, t).transform = path
               /\ GetTransform(g, high, low, t).transform = Invert(path)
<1> DEFINE i == g.name_to_index[low]
           a == g.name_to_index[high]
           path == AlongPath(g, a, i, t)
<1>1. i \in Indices(g) /\ a \in Indices(g) /\ a \in Visited(g, i)
  BY DEF WellFormed, Typed, Exists
<1>2. i \in Visited(g, i) /\ a \in Visited(g, a)
  BY <1>1, VisitedProperties
<1>3. /\ path \in Poses
      /\ AlongPath(g, i, i, t) = Identity
      /\ AlongPath(g, a, a, t) = Identity
  BY <1>1, <1>2, PathsCompose
<1>4. NearestAncestor(g, i, a) = a /\ NearestAncestor(g, a, i) = a
  BY <1>1, NearestOnBranch
<1>5. Readable(g, a, i) /\ Readable(g, a, a)
  BY <1>1, <1>2, PathReadable
<1>6. /\ Invert(path) \in Poses /\ Identity \in Poses /\ Invert(Identity) = Identity
      /\ Compose(path, Identity) = path /\ Compose(Identity, Invert(path)) = Invert(path)
  BY <1>3 DEF Composable
<1>7. a # None
  BY <1>1, GraphMembers DEF WellFormed, None
<1>8. CASE low = high
  BY <1>3, <1>6, <1>8 DEF GetTransform, Answer
<1>9. CASE low # high
  <2>1. GetTransform(g, low, high, t) =
           Answer(high, low, t, Compose(path, Invert(AlongPath(g, a, a, t))))
    BY <1>4, <1>5, <1>7, <1>9 DEF GetTransform
  <2>2. GetTransform(g, high, low, t) =
           Answer(low, high, t, Compose(AlongPath(g, a, a, t), Invert(path)))
    BY <1>4, <1>5, <1>7, <1>9 DEF GetTransform
  <2> HIDE DEF path
  <2>3. QED
    BY <1>3, <1>6, <2>1, <2>2 DEF Answer, path
<1>10. QED
  BY <1>8, <1>9

=============================================================================
