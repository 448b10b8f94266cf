------------------------- MODULE StateStream_proofs -------------------------
(***************************************************************************)
(* What RobotStatePublisher guarantees for every robot, period and stream  *)
(* of joint states.  No property is inductive: they speak of what was      *)
(* published and heard, while the callback looks only at last_publish_time *)
(* and the joint states, which must be shown to be the stamp of the last   *)
(* TF and what was last said of each joint.                                *)
(***************************************************************************)
EXTENDS StateStream, SequenceTheorems, FiniteSetTheorems, WellFoundedInduction, TLAPS

IsList(s) == s \in Seq({s[k] : k \in DOMAIN s})

Entries == [joint_states : JointStateLists, stamp : Nat, shown : BOOLEAN]

StampOf(queue, k) == queue[k][1].stamp

(* Types, and the topic never runs out of room.                            *)
Typed ==
    /\ states \in [DOMAIN Robot.joints -> Int]
    /\ last_publish_time \in Instants
    /\ ignore_timestamps \in BOOLEAN
    /\ tf.status \in {"waiting", "up"}
    /\ tf = [status |-> tf.status, queue |-> tf.queue]
    /\ IsList(tf.queue)
    /\ heard \in Seq(Entries)
    /\ Len(tf.queue) <= Len(heard)
    /\ \A k \in DOMAIN tf.queue : StampOf(tf.queue, k) \in Nat

(* last_publish_time is the stamp of the last TF, zero if there is none.   *)
LastIsNewest ==
    last_publish_time = IF tf.queue = <<>> THEN 0 ELSE StampOf(tf.queue, Len(tf.queue))

(* Unless it is zero, it is the stamp of a message a TF followed.          *)
LastWasHeard ==
    last_publish_time # 0 =>
        \E j \in DOMAIN heard : heard[j].shown /\ heard[j].stamp = last_publish_time

(* A joint that does not mimic is in the state last said of it.            *)
Follows(n) == ~IsMimic(Robot.joints[n]) => states[n] = LastSaid(n, Len(heard))

Current == \A n \in DOMAIN Robot.joints : Follows(n)

(* A TF with one stamp that shows the joints that do not mimic in a state. *)
Shows(transforms, stamp, st) ==
    \A i \in DOMAIN transforms :
        /\ transforms[i].stamp = stamp
        /\ \A n \in DOMAIN Robot.joints :
              Robot.joints[n].child = transforms[i].child_frame_id
                /\ ~IsMimic(Robot.joints[n]) =>
                    transforms[i].transform = JointTransform(n, st[n])

(* What ShowsAllThatWasHeard says of one message.                          *)
ShowsAt(k) ==
    heard[k].shown =>
        LET answer == tf.queue[ShownUpTo(k)]
        IN  \A i \in DOMAIN answer :
              /\ answer[i].stamp = heard[k].stamp
              /\ \A n \in DOMAIN Robot.joints :
                    Robot.joints[n].child = answer[i].child_frame_id
                      /\ ~IsMimic(Robot.joints[n]) =>
                          answer[i].transform = JointTransform(n, LastSaid(n, k))

IInv ==
    /\ Typed /\ LastIsNewest /\ LastWasHeard /\ Current
    /\ StampsSpaced /\ SuppressedForAReason /\ ShowsAllThatWasHeard

-----------------------------------------------------------------------------
LEMMA ListAppend ==
    ASSUME NEW s, NEW x, IsList(s)
    PROVE  /\ IsList(Append(s, x))
           /\ Len(s) \in Nat
           /\ DOMAIN s = 1 .. Len(s)
           /\ Len(Append(s, x)) = Len(s) + 1
           /\ DOMAIN Append(s, x) = 1 .. Len(s) + 1
           /\ Append(s, x)[Len(s) + 1] = x
           /\ \A k \in 1 .. Len(s) : Append(s, x)[k] = s[k]
<1> DEFINE S == {s[k] : k \in DOMAIN s} \cup {x}
<1> DEFINE t == Append(s, x)
<1>1. s \in Seq(S)
  BY SeqMonotonic, {s[k] : k \in DOMAIN s} \subseteq S DEF IsList
<1>2. x \in S
  OBVIOUS
<1> HIDE DEF S
<1>3. /\ t \in Seq(S)
      /\ Len(s) \in Nat
      /\ DOMAIN s = 1 .. Len(s)
      /\ Len(t) = Len(s) + 1
      /\ DOMAIN t = 1 .. Len(s) + 1
      /\ t[Len(s) + 1] = x
      /\ \A k \in 1 .. Len(s) : t[k] = s[k]
  BY <1>1, <1>2
<1> HIDE DEF t
<1>4. t \in Seq({t[k] : k \in DOMAIN t})
  BY <1>3
<1>5. QED
  BY <1>3, <1>4 DEF IsList, t

(* A set of naturals with a bound has a greatest element.                  *)
LEMMA MaxOfBounded ==
    ASSUME NEW n \in Nat, NEW S \in SUBSET (1 .. n), S # {}
    PROVE  Max(S) \in S /\ \A y \in S : Max(S) >= y
<1> DEFINE T == {m \in Nat : \E y \in S : m = n - y}
<1>1. T \subseteq Nat /\ T # {}
  <2>1. PICK y \in S : TRUE
    OBVIOUS
  <2>2. n - y \in Nat
    OBVIOUS
  <2>3. n - y \in T
    BY <2>2
  <2>4. QED
    BY <2>3
<1>2. \A y \in S : n - y \in T
  OBVIOUS
<1>3. \A m \in T : \E y \in S : m = n - y
  OBVIOUS
<1> HIDE DEF T
<1>4. PICK m \in T : \A k \in T : ~(<<k, m>> \in OpToRel(<, Nat))
  BY <1>1, NatLessThanWellFounded, WFMin
<1>5. ASSUME NEW k \in T PROVE m <= k
  <2>1. <<k, m>> \notin {ss \in Nat \X Nat : ss[1] < ss[2]}
    BY <1>4 DEF OpToRel
  <2>2. <<k, m>> \in Nat \X Nat
    BY <1>1
  <2>3. ~(k < m) /\ k \in Nat /\ m \in Nat
    BY <1>1, <2>1, <2>2
  <2>4. QED
    BY <2>3
<1>6. PICK x \in S : m = n - x
  BY <1>3
<1>7. \A y \in S : x >= y
  <2> TAKE y \in S
  <2>1. m <= n - y
    BY <1>2, <1>5
  <2>2. QED
    BY <1>6, <2>1
<1>8. QED
  BY <1>7 DEF Max

(* The transforms of get_transforms.                                       *)
LEMMA TransformsAre ==
    ASSUME NEW st, NEW now
    PROVE  LET all == GetTransforms(Robot, st, now)
           IN  /\ 1 \in DOMAIN all
               /\ \A i \in DOMAIN all :
                     \/ all[i] = TransformStamped(World, Robot.root, now, WorldToRoot)
                     \/ \E n \in DOMAIN Robot.joints :
                           LET joint == Robot.joints[n]
                           IN  all[i] = TransformStamped(joint.parent, joint.child, now,
                                                         SentTransform(joint, st))
<1> DEFINE sent == Sent(Robot)
           first == TransformStamped(World, Robot.root, now, WorldToRoot)
           rest == [k \in DOMAIN sent |-> TransformStamped(sent[k].parent, sent[k].child, now,
                                              SentTransform(sent[k], st))]
           all == <<first>> \o rest
<1>1. GetTransforms(Robot, st, now) = all
  BY RobotIsValid DEF GetTransforms
<1>2. sent \in Seq(Joints) /\ \A k \in DOMAIN sent :
          \E n \in DOMAIN Robot.joints : sent[k] = Robot.joints[n]
  BY RobotIsWalked, RobotIsParsed
<1> HIDE DEF sent
<1>3. DOMAIN sent = 1 .. Len(sent) /\ Len(sent) \in Nat
  BY <1>2
<1> DEFINE T == {first} \cup {rest[k] : k \in DOMAIN sent}
<1>4. rest \in [1 .. Len(sent) -> T]
  BY <1>3
<1>5. first \in T
  OBVIOUS
<1>6. \A k \in DOMAIN sent : \E n \in DOMAIN Robot.joints :
          rest[k] = TransformStamped(Robot.joints[n].parent, Robot.joints[n].child, now,
                                     SentTransform(Robot.joints[n], st))
  BY <1>2
<1> HIDE DEF rest, T, first
<1>7. rest \in Seq(T) /\ <<first>> \in Seq(T) /\ DOMAIN rest = 1 .. Len(sent)
  BY <1>3, <1>4, <1>5, IsASeq
<1>8. /\ 1 \in DOMAIN all
      /\ \A i \in DOMAIN all : all[i] = first \/ \E k \in DOMAIN rest : all[i] = rest[k]
  BY <1>7
<1> HIDE DEF all
<1>9. \A i \in DOMAIN all : all[i] = first \/ \E k \in DOMAIN sent : all[i] = rest[k]
  BY <1>3, <1>7, <1>8
<1>10. \A i \in DOMAIN all :
          \/ all[i] = first
          \/ \E n \in DOMAIN Robot.joints :
                all[i] = TransformStamped(Robot.joints[n].parent, Robot.joints[n].child, now,
                                          SentTransform(Robot.joints[n], st))
  BY <1>6, <1>9
<1>11. QED
  BY <1>1, <1>8, <1>10 DEF first

(* All transforms of a TF bear the stamp of the message, and show the      *)
(* states they are made from.                                              *)
LEMMA TransformsShow ==
    ASSUME NEW st, NEW now, NEW stamp
    PROVE  LET x == Restamped(GetTransforms(Robot, st, now), stamp)
           IN  x[1].stamp = stamp /\ Shows(x, stamp, st)
<1> DEFINE all == GetTransforms(Robot, st, now)
           x == Restamped(all, stamp)
<1>1. 1 \in DOMAIN all
  BY TransformsAre
<1>2. DOMAIN x = DOMAIN all /\ \A i \in DOMAIN all : x[i] = [all[i] EXCEPT !.stamp = stamp]
  BY DEF Restamped
<1>3. ASSUME NEW i \in DOMAIN all,
             NEW parent, NEW child, NEW transform,
             all[i] = TransformStamped(parent, child, now, transform)
      PROVE  x[i].stamp = stamp /\ x[i].child_frame_id = child /\ x[i].transform = transform
  <2> DEFINE t == TransformStamped(parent, child, now, transform)
  <2>1. x[i] = [t EXCEPT !.stamp = stamp]
    BY <1>2, <1>3
  <2>2. [t EXCEPT !.stamp = stamp] = [frame_id |-> parent, child_frame_id |-> child,
                                     stamp |-> stamp, transform |-> transform]
    BY DEF TransformStamped
  <2>3. QED
    BY <2>1, <2>2
<1> HIDE DEF all, x
<1>4. ASSUME NEW i \in DOMAIN x
      PROVE  /\ x[i].stamp = stamp
             /\ \A n \in DOMAIN Robot.joints :
                   Robot.joints[n].child = x[i].child_frame_id
                     /\ ~IsMimic(Robot.joints[n]) => x[i].transform = JointTransform(n, st[n])
  <2>1. CASE all[i] = TransformStamped(World, Robot.root, now, WorldToRoot)
    <3>1. x[i].stamp = stamp /\ x[i].child_frame_id = Robot.root
      BY <1>2, <1>3, <1>4, <2>1
    <3>2. QED
      BY <3>1, RobotIsParsed
  <2>2. ASSUME NEW m \in DOMAIN Robot.joints,
               all[i] = TransformStamped(Robot.joints[m].parent, Robot.joints[m].child, now,
                                         SentTransform(Robot.joints[m], st))
        PROVE  /\ x[i].stamp = stamp
               /\ \A n \in DOMAIN Robot.joints :
                     Robot.joints[n].child = x[i].child_frame_id
                       /\ ~IsMimic(Robot.joints[n]) => x[i].transform = JointTransform(n, st[n])
    <3>1. /\ x[i].stamp = stamp /\ x[i].child_frame_id = Robot.joints[m].child
          /\ x[i].transform = SentTransform(Robot.joints[m], st)
      BY <1>2, <1>3, <1>4, <2>2
    <3>2. ASSUME NEW n \in DOMAIN Robot.joints, Robot.joints[n].child = x[i].child_frame_id,
                 ~IsMimic(Robot.joints[n])
          PROVE  x[i].transform = JointTransform(n, st[n])
      <4>1. m = n /\ Robot.joints[n].name = n
        BY <3>1, <3>2, RobotIsParsed
      <4>2. QED
        BY <3>1, <3>2, <4>1 DEF SentTransform
    <3>3. QED
      BY <3>1, <3>2
  <2>3. QED
    BY <1>2, <1>4, <2>1, <2>2, TransformsAre DEF all
<1>5. x[1].stamp = stamp
  BY <1>1, <1>2, <1>4
<1>6. QED
  BY <1>4, <1>5 DEF Shows, x, all

-----------------------------------------------------------------------------
(***************************************************************************)
(* What a history says of its first messages stays when it grows, and the  *)
(* new message counts and speaks last.                                     *)
(***************************************************************************)
Said(list, name, before) ==
    IF Naming(list, name) = {} THEN before ELSE list[Max(Naming(list, name))].value

LEMMA LastSaidStays ==
    ASSUME NEW n \in Nat, \A i \in 1 .. n : heard'[i] = heard[i], NEW name
    PROVE  LastSaid(name, n)' = LastSaid(name, n)
<1> DEFINE naming == {i \in 1 .. n : Naming(heard[i].joint_states, name) # {}}
<1>1. {i \in 1 .. n : Naming(heard'[i].joint_states, name) # {}} = naming
  BY DEF Naming
<1>2. CASE naming = {}
  BY <1>1, <1>2 DEF LastSaid
<1>3. CASE naming # {}
  <2>1. Max(naming) \in 1 .. n
    BY <1>3, MaxOfBounded
  <2>2. heard'[Max(naming)] = heard[Max(naming)]
    BY <2>1
  <2> HIDE DEF naming
  <2>3. LastSaid(name, n)' = LET list == heard'[Max(naming)].joint_states
                            IN  list[Max(Naming(list, name))].value
    BY <1>1, <1>3 DEF LastSaid, naming, Naming
  <2>4. LastSaid(name, n) = LET list == heard[Max(naming)].joint_states
                           IN  list[Max(Naming(list, name))].value
    BY <1>3 DEF LastSaid, naming
  <2>5. QED
    BY <2>2, <2>3, <2>4
<1>4. QED
  BY <1>2, <1>3

LEMMA LastSaidGrows ==
    ASSUME NEW n \in Nat, \A i \in 1 .. n : heard'[i] = heard[i], NEW name
    PROVE  LastSaid(name, n + 1)' = Said(heard'[n + 1].joint_states, name, LastSaid(name, n))
<1> DEFINE naming == {i \in 1 .. n : Naming(heard'[i].joint_states, name) # {}}
           longer == {i \in 1 .. n + 1 : Naming(heard'[i].joint_states, name) # {}}
           list == heard'[n + 1].joint_states
<1>1. LastSaid(name, n)' = LastSaid(name, n)
  BY LastSaidStays
<1>2. CASE Naming(list, name) = {}
  <2>1. longer = naming
    BY <1>2
  <2>2. LastSaid(name, n + 1)' = LastSaid(name, n)'
    BY <2>1 DEF LastSaid, Naming
  <2>3. QED
    BY <1>1, <1>2, <2>2 DEF Said
<1>3. CASE Naming(list, name) # {}
  <2>1. n + 1 \in longer /\ longer \in SUBSET (1 .. n + 1) /\ n + 1 \in Nat
    BY <1>3
  <2>2. Max(longer) \in longer /\ Max(longer) >= n + 1
    <3> HIDE DEF longer
    <3>1. longer # {}
      BY <2>1
    <3>2. QED
      BY <2>1, <3>1, MaxOfBounded
  <2>3. Max(longer) = n + 1
    <3> DEFINE top == Max(longer)
    <3> HIDE DEF longer
    <3>1. top \in 1 .. n + 1 /\ top >= n + 1
      BY <2>1, <2>2
    <3> HIDE DEF top
    <3>2. top = n + 1
      BY <3>1
    <3>3. QED
      BY <3>2 DEF top
  <2>4. longer # {}
    BY <2>1
  <2>5. LastSaid(name, n + 1)' = LET l == heard'[Max(longer)].joint_states
                                IN  l[Max(Naming(l, name))].value
    <3>1. LastSaid(name, n + 1)' =
             IF longer = {} THEN AtRest
             ELSE LET l == heard'[Max(longer)].joint_states
                  IN  l[Max(Naming(l, name))].value
      BY DEF LastSaid, Naming
    <3>2. QED
      BY <2>4, <3>1
  <2>6. QED
    BY <1>3, <2>3, <2>5 DEF Said
<1>4. QED
  BY <1>2, <1>3

LEMMA ShownUpToStays ==
    ASSUME NEW n \in Nat, NEW m \in Nat, m <= n, \A i \in 1 .. n : heard'[i] = heard[i]
    PROVE  /\ ShownUpTo(m)' = ShownUpTo(m)
           /\ ShownUpTo(m) \in Nat /\ ShownUpTo(m) <= ShownUpTo(n)
           /\ m \in 1 .. n /\ heard[m].shown => ShownUpTo(m) \in Nat \ {0}
<1> DEFINE A == {i \in 1 .. m : heard[i].shown}
           B == {i \in 1 .. n : heard[i].shown}
<1>1. IsFiniteSet(1 .. m) /\ IsFiniteSet(1 .. n)
  BY FS_Interval
<1>2. IsFiniteSet(A) /\ IsFiniteSet(B)
  BY <1>1, FS_Subset
<1>3. A \subseteq B
  OBVIOUS
<1>4. Cardinality(A) \in Nat /\ Cardinality(A) <= Cardinality(B)
  <2> HIDE DEF A, B
  <2>1. QED
    BY <1>2, <1>3, FS_Subset, FS_CardinalityType
<1>5. {i \in 1 .. m : heard'[i].shown} = A
  OBVIOUS
<1>6. m \in 1 .. n /\ heard[m].shown => Cardinality(A) # 0
  <2>1. m \in 1 .. n /\ heard[m].shown => m \in A
    OBVIOUS
  <2> HIDE DEF A
  <2>2. QED
    BY <1>2, <2>1, FS_EmptySet
<1>7. QED
  BY <1>4, <1>5, <1>6 DEF ShownUpTo

LEMMA ShownUpToGrows ==
    ASSUME NEW n \in Nat, \A i \in 1 .. n : heard'[i] = heard[i]
    PROVE  ShownUpTo(n + 1)' = IF heard'[n + 1].shown THEN ShownUpTo(n) + 1 ELSE ShownUpTo(n)
<1> DEFINE A == {i \in 1 .. n : heard[i].shown}
           B == {i \in 1 .. n + 1 : heard'[i].shown}
<1>1. IsFiniteSet(A)
  <2>1. IsFiniteSet(1 .. n)
    BY FS_Interval
  <2>2. QED
    BY <2>1, FS_Subset
<1>2. n + 1 \notin A
  OBVIOUS
<1>3. B = IF heard'[n + 1].shown THEN A \cup {n + 1} ELSE A
  OBVIOUS
<1>4. Cardinality(A \cup {n + 1}) = Cardinality(A) + 1
  <2> HIDE DEF A
  <2>1. QED
    BY <1>1, <1>2, FS_AddElement
<1>5. ShownUpTo(n + 1)' = Cardinality(B) /\ ShownUpTo(n) = Cardinality(A)
  BY DEF ShownUpTo
<1> HIDE DEF A, B
<1>6. QED
  BY <1>3, <1>4, <1>5

-----------------------------------------------------------------------------
(***************************************************************************)
(* A message is suppressed, or followed by a TF with its stamp.            *)
(***************************************************************************)
Entry(list, stamp, shown) == [joint_states |-> list, stamp |-> stamp, shown |-> shown]

(* set_state, joint by joint.                                              *)
Merged(list) ==
    /\ states' \in [DOMAIN Robot.joints -> Int]
    /\ \A n \in DOMAIN Robot.joints :
          ~IsMimic(Robot.joints[n]) => states'[n] = Said(list, n, states[n])

Suppressed(list, stamp) ==
    /\ Merged(list) /\ UNCHANGED ignore_timestamps
    /\ TooSoon(stamp)
    /\ heard' = Append(heard, Entry(list, stamp, FALSE))
    /\ UNCHANGED <<last_publish_time, tf>>

Followed(list, stamp) ==
    /\ Merged(list) /\ UNCHANGED ignore_timestamps
    /\ ~TooSoon(stamp)
    /\ heard' = Append(heard, Entry(list, stamp, TRUE))
    /\ last_publish_time' = stamp
    /\ \E x : /\ x[1].stamp = stamp /\ Shows(x, stamp, states')
              /\ tf' = [status |-> tf.status, queue |-> Append(tf.queue, x)]

LEMMA StatesMerge ==
    ASSUME Typed, NEW sent_at, NEW list \in JointStateLists,
           states' = SetState(Robot, states, JS(sent_at, list))
    PROVE  Merged(list)
<1>1. list \in Seq([name : JointNames, value : Int])
  BY ListsAreJointStates
<1>2. \A k \in 1 .. Len(list) : list[k].value \in Int
  <2> DEFINE R == [name : JointNames, value : Int]
  <2>1. \A r \in R : r.value \in Int
    OBVIOUS
  <2>2. list \in Seq(R)
    BY <1>1
  <2> HIDE DEF R
  <2>3. \A k \in 1 .. Len(list) : list[k] \in R
    BY <2>2
  <2>4. QED
    BY <2>1, <2>3
<1>3. states \in [DOMAIN Robot.joints -> Int]
  BY DEF Typed
<1>4. states' = [n \in DOMAIN states |->
                    IF Naming(list, n) = {} \/ IsMimic(Robot.joints[n]) THEN states[n]
                    ELSE list[Max(Naming(list, n))].value]
  BY DEF SetState, JS, Naming
<1>5. ASSUME NEW n, Naming(list, n) # {} PROVE list[Max(Naming(list, n))].value \in Int
  <2>1. Naming(list, n) \in SUBSET (1 .. Len(list)) /\ Len(list) \in Nat
    BY <1>1 DEF Naming
  <2>2. Max(Naming(list, n)) \in 1 .. Len(list)
    BY <1>5, <2>1, MaxOfBounded
  <2>3. QED
    BY <1>2, <2>2
<1>6. ASSUME NEW n \in DOMAIN Robot.joints
      PROVE  /\ states'[n] \in Int
             /\ ~IsMimic(Robot.joints[n]) => states'[n] = Said(list, n, states[n])
  BY <1>3, <1>4, <1>5 DEF Said
<1>7. states' \in [DOMAIN Robot.joints -> Int]
  BY <1>3, <1>4, <1>6
<1>8. QED
  BY <1>6, <1>7 DEF Merged

LEMMA HearDoes ==
    ASSUME Typed, NEW sent_at \in Instants, NEW now \in Instants, NEW list \in JointStateLists,
           Hear(JS(sent_at, list), now)
    PROVE  \E stamp \in Instants : Suppressed(list, stamp) \/ Followed(list, stamp)
<1> DEFINE stamp == IF ignore_timestamps THEN now ELSE JS(sent_at, list).stamp
<1> DEFINE x == Restamped(GetTransforms(Robot, states', now), stamp)
<1>1. stamp \in Instants
  BY DEF JS
<1>2. heard' = Append(heard, Entry(list, stamp, tf' # tf))
  BY DEF Hear, JS, Entry
<1>3. x[1].stamp = stamp /\ Shows(x, stamp, states')
  BY TransformsShow
<1>4. Merged(list) /\ UNCHANGED ignore_timestamps
  BY StatesMerge DEF Hear, JointStateCallback
<1>5. IF TooSoon(stamp) THEN UNCHANGED <<last_publish_time, tf>>
      ELSE last_publish_time' = stamp /\ tf' = Publish(tf, x)
  BY DEF Hear, JointStateCallback
<1>6. tf.status = "up" /\ Len(tf.queue) # Capacity
  <2>1. Len(heard) < MaxHeard /\ tf.status = "up"
    BY DEF Hear
  <2>2. Len(tf.queue) \in Nat /\ Len(heard) \in Nat
    BY ListAppend DEF Typed
  <2>3. QED
    BY <2>1, <2>2, NothingIsLost, CapacityIsNatural DEF Typed
<1> HIDE DEF stamp, x
<1>7. Publish(tf, x) = [tf EXCEPT !.queue = Append(tf.queue, x)]
  BY <1>6, Zenon DEF Publish
<1>8. Publish(tf, x) = [status |-> tf.status, queue |-> Append(tf.queue, x)]
  <2> DEFINE q == Append(tf.queue, x)
  <2> HIDE DEF q
  <2>1. [tf EXCEPT !.queue = q] = [status |-> tf.status, queue |-> q]
    <3>1. tf = [status |-> tf.status, queue |-> tf.queue]
      BY DEF Typed
    <3> DEFINE st == tf.status
    <3> DEFINE qu == tf.queue
    <3> HIDE DEF st, qu
    <3>2. [[status |-> st, queue |-> qu] EXCEPT !.queue = q] = [status |-> st, queue |-> q]
      OBVIOUS
    <3>3. QED
      BY <3>1, <3>2 DEF st, qu
  <2>2. QED
    BY <1>7, <2>1 DEF q
<1>9. Publish(tf, x) # tf
  <2> DEFINE q == Append(tf.queue, x)
  <2>1. Len(q) = Len(tf.queue) + 1 /\ Len(tf.queue) \in Nat
    BY ListAppend DEF Typed
  <2> HIDE DEF q
  <2>2. q # tf.queue
    BY <2>1
  <2>3. Publish(tf, x).queue = q
    BY <1>8 DEF q
  <2>4. QED
    BY <2>2, <2>3
<1>10. CASE TooSoon(stamp)
  <2>1. tf' = tf /\ last_publish_time' = last_publish_time
    BY <1>5, <1>10
  <2>2. heard' = Append(heard, Entry(list, stamp, FALSE))
    <3>1. (tf' # tf) = FALSE
      BY <2>1
    <3>2. QED
      BY <1>2, <3>1
  <2>3. QED
    BY <1>4, <1>1, <1>10, <2>1, <2>2 DEF Suppressed
<1>11. CASE ~TooSoon(stamp)
  <2>1. tf' = Publish(tf, x) /\ last_publish_time' = stamp
    BY <1>5, <1>11
  <2>2. heard' = Append(heard, Entry(list, stamp, TRUE))
    <3>1. (tf' # tf) = TRUE
      BY <2>1, <1>9
    <3>2. QED
      BY <1>2, <3>1
  <2>3. QED
    BY <1>4, <1>1, <1>3, <1>8, <1>11, <2>1, <2>2 DEF Followed
<1>12. QED
  BY <1>10, <1>11

(* What is appended to the history leaves what was there.                  *)
LEMMA HeardAppend ==
    ASSUME Typed, NEW list \in JointStateLists, NEW stamp \in Nat, NEW shown \in BOOLEAN,
           heard' = Append(heard, Entry(list, stamp, shown))
    PROVE  /\ heard' \in Seq(Entries)
           /\ Len(heard) \in Nat
           /\ Len(heard') = Len(heard) + 1
           /\ DOMAIN heard = 1 .. Len(heard)
           /\ DOMAIN heard' = 1 .. Len(heard) + 1
           /\ \A k \in 1 .. Len(heard) : heard'[k] = heard[k]
           /\ heard'[Len(heard) + 1].stamp = stamp
           /\ heard'[Len(heard) + 1].shown = shown
           /\ heard'[Len(heard) + 1].joint_states = list
<1> DEFINE e == Entry(list, stamp, shown)
<1>1. e \in Entries /\ e.stamp = stamp /\ e.shown = shown /\ e.joint_states = list
  BY DEF Entry, Entries
<1>2. heard \in Seq(Entries)
  BY DEF Typed
<1> HIDE DEF e
<1>3. heard' = Append(heard, e)
  BY DEF e
<1>4. QED
  BY <1>1, <1>2, <1>3

(* What was said last goes on to be the state of each joint, and what the  *)
(* answers to earlier messages show does not change.                       *)
LEMMA CurrentKeeps ==
    ASSUME Typed, Current, NEW list \in JointStateLists, NEW stamp \in Nat, NEW shown \in BOOLEAN,
           Merged(list), heard' = Append(heard, Entry(list, stamp, shown))
    PROVE  Current'
<1>1. /\ Len(heard) \in Nat /\ Len(heard') = Len(heard) + 1
      /\ \A k \in 1 .. Len(heard) : heard'[k] = heard[k]
      /\ heard'[Len(heard) + 1].joint_states = list
  BY HeardAppend
<1>2. PICK h \in Nat : h = Len(heard)
  BY <1>1
<1>3. ASSUME NEW n \in DOMAIN Robot.joints, ~IsMimic(Robot.joints[n])
      PROVE  states'[n] = LastSaid(n, h + 1)'
  <2>1. states'[n] = Said(list, n, states[n]) /\ states[n] = LastSaid(n, h)
    BY <1>2, <1>3 DEF Merged, Current, Follows
  <2>2. LastSaid(n, h + 1)' = Said(heard'[h + 1].joint_states, n, LastSaid(n, h))
    BY <1>1, <1>2, LastSaidGrows
  <2>3. QED
    BY <1>1, <1>2, <2>1, <2>2
<1>4. \A n \in DOMAIN Robot.joints :
          ~IsMimic(Robot.joints[n]) => states'[n] = LastSaid(n, Len(heard))'
  <2>1. Len(heard') = h + 1
    BY <1>1, <1>2
  <2>2. QED
    BY <1>3, <2>1
<1>5. QED
  BY <1>4 DEF Current, Follows

LEMMA EarlierAnswers ==
    ASSUME Typed, ShowsAllThatWasHeard, NEW k \in 1 .. Len(heard),
           \A j \in 1 .. Len(heard) : heard'[j] = heard[j],
           \A j \in 1 .. Len(tf.queue) : tf'.queue[j] = tf.queue[j]
    PROVE  ShowsAt(k)'
<1>1. Len(heard) \in Nat /\ DOMAIN heard = 1 .. Len(heard)
  BY DEF Typed
<1>2. k \in Nat /\ k <= Len(heard) /\ heard'[k] = heard[k]
      /\ \A j \in 1 .. k : heard'[j] = heard[j]
  BY <1>1
<1>3. \A n \in DOMAIN Robot.joints : LastSaid(n, k)' = LastSaid(n, k)
  BY <1>2, LastSaidStays
<1>4. /\ ShownUpTo(k)' = ShownUpTo(k) /\ ShownUpTo(k) \in Nat
      /\ ShownUpTo(k) <= ShownUpTo(Len(heard))
      /\ heard[k].shown => ShownUpTo(k) # 0
  BY <1>1, <1>2, ShownUpToStays
<1>5. ShowsAt(k) /\ Len(tf.queue) = ShownUpTo(Len(heard))
  BY <1>1 DEF ShowsAllThatWasHeard, ShowsAt
<1>6. Len(tf.queue) \in Nat
  BY ListAppend DEF Typed
<1> SUFFICES ASSUME heard[k].shown PROVE ShowsAt(k)'
  BY <1>2 DEF ShowsAt
<1>7. tf'.queue[ShownUpTo(k)'] = tf.queue[ShownUpTo(k)]
  <2> DEFINE m == ShownUpTo(k)
  <2> HIDE DEF m
  <2>1. m \in 1 .. Len(tf.queue)
    BY <1>4, <1>5, <1>6 DEF m
  <2>2. QED
    BY <1>4, <2>1 DEF m
<1>8. QED
  BY <1>2, <1>3, <1>5, <1>7 DEF ShowsAt

-----------------------------------------------------------------------------
LEMMA SuppressedKeeps ==
    ASSUME IInv, NEW list \in JointStateLists, NEW stamp \in Instants, Suppressed(list, stamp)
    PROVE  IInv'
<1>1. /\ Typed /\ LastIsNewest /\ LastWasHeard /\ StampsSpaced /\ SuppressedForAReason
      /\ Current /\ ShowsAllThatWasHeard /\ stamp \in Nat
  BY InstantsAreTimes DEF IInv
<1>2. /\ heard' \in Seq(Entries)
      /\ Len(heard) \in Nat
      /\ Len(heard') = Len(heard) + 1
      /\ DOMAIN heard = 1 .. Len(heard)
      /\ DOMAIN heard' = 1 .. Len(heard) + 1
      /\ \A k \in 1 .. Len(heard) : heard'[k] = heard[k]
      /\ heard'[Len(heard) + 1].stamp = stamp
      /\ heard'[Len(heard) + 1].shown = FALSE
  BY <1>1, HeardAppend DEF Suppressed
<1>3. tf' = tf /\ last_publish_time' = last_publish_time
  BY DEF Suppressed
<1>4. Typed'
  <2>1. /\ states' \in [DOMAIN Robot.joints -> Int] /\ ignore_timestamps' = ignore_timestamps
        /\ Len(tf.queue) \in Nat
    BY <1>1, ListAppend DEF Suppressed, Merged, Typed
  <2>2. QED
    BY <1>1, <1>2, <1>3, <2>1 DEF Typed, IsList, StampOf
<1>5. LastIsNewest' /\ StampsSpaced'
  BY <1>1, <1>3 DEF LastIsNewest, StampsSpaced, StampOf
<1>6. LastWasHeard'
  BY <1>1, <1>2, <1>3 DEF LastWasHeard
<1>7. SuppressedForAReason'
  <2>1. PICK j \in 1 .. Len(heard) : heard[j].shown /\ heard[j].stamp = last_publish_time
    BY <1>1, <1>2 DEF Suppressed, TooSoon, LastWasHeard
  <2>2. stamp - heard[j].stamp < Period
    BY <2>1 DEF Suppressed, TooSoon
  <2> SUFFICES ASSUME NEW i \in DOMAIN heard', ~heard'[i].shown
               PROVE  \E k \in 1 .. i - 1 : heard'[k].shown /\ heard'[i].stamp - heard'[k].stamp < Period
    BY DEF SuppressedForAReason
  <2>3. CASE i = Len(heard) + 1
    BY <1>2, <2>1, <2>2, <2>3
  <2>4. CASE i \in 1 .. Len(heard)
    <3>1. PICK k \in 1 .. i - 1 : heard[k].shown /\ heard[i].stamp - heard[k].stamp < Period
      BY <1>1, <1>2, <2>4 DEF SuppressedForAReason
    <3>2. k \in 1 .. Len(heard)
      BY <1>2, <2>4
    <3>3. QED
      BY <1>2, <2>4, <3>1, <3>2
  <2>5. QED
    BY <1>2, <2>3, <2>4
<1>8. Current'
  BY <1>1, CurrentKeeps DEF Suppressed
<1>9. ShowsAllThatWasHeard'
  <2>1. PICK h \in Nat : h = Len(heard)
    BY <1>2
  <2>2. \A k \in 1 .. h : ShowsAt(k)'
    BY <1>1, <1>2, <1>3, <2>1, EarlierAnswers
  <2>3. ShowsAt(h + 1)'
    BY <1>2, <2>1 DEF ShowsAt
  <2>4. Len(tf'.queue) = ShownUpTo(h + 1)'
    <3>1. ShownUpTo(h + 1)' = ShownUpTo(h)
      BY <1>2, <2>1, ShownUpToGrows
    <3>2. QED
      BY <1>1, <1>3, <2>1, <3>1 DEF ShowsAllThatWasHeard
  <2>5. Len(heard)' = h + 1 /\ DOMAIN heard' = 1 .. h + 1
    BY <1>2, <2>1
  <2>6. \A k \in DOMAIN heard' : ShowsAt(k)'
    BY <2>2, <2>3, <2>5
  <2>7. Len(tf'.queue) = ShownUpTo(Len(heard))'
    BY <2>4, <2>5
  <2>8. QED
    BY <2>6, <2>7 DEF ShowsAllThatWasHeard, ShowsAt
<1>10. QED
  BY <1>4, <1>5, <1>6, <1>7, <1>8, <1>9 DEF IInv

LEMMA FollowedKeeps ==
    ASSUME IInv, NEW list \in JointStateLists, NEW stamp \in Instants, Followed(list, stamp)
    PROVE  IInv'
<1> DEFINE n == Len(tf.queue)
<1>1. /\ Typed /\ LastIsNewest /\ LastWasHeard /\ StampsSpaced /\ SuppressedForAReason
      /\ Current /\ ShowsAllThatWasHeard /\ stamp \in Nat
  BY InstantsAreTimes DEF IInv
<1>2. /\ heard' \in Seq(Entries)
      /\ Len(heard) \in Nat
      /\ Len(heard') = Len(heard) + 1
      /\ DOMAIN heard = 1 .. Len(heard)
      /\ DOMAIN heard' = 1 .. Len(heard) + 1
      /\ \A k \in 1 .. Len(heard) : heard'[k] = heard[k]
      /\ heard'[Len(heard) + 1].stamp = stamp
      /\ heard'[Len(heard) + 1].shown = TRUE
  BY <1>1, HeardAppend DEF Followed
<1>3. last_publish_time' = stamp /\ ~TooSoon(stamp)
  BY DEF Followed
<1>4. PICK x : x[1].stamp = stamp /\ Shows(x, stamp, states') /\ tf' = [status |-> tf.status, queue |-> Append(tf.queue, x)]
  BY DEF Followed
<1>5. /\ IsList(tf'.queue)
      /\ n \in Nat
      /\ DOMAIN tf.queue = 1 .. n
      /\ Len(tf'.queue) = n + 1
      /\ DOMAIN tf'.queue = 1 .. n + 1
      /\ tf'.queue[n + 1] = x
      /\ \A k \in 1 .. n : tf'.queue[k] = tf.queue[k]
  <2>1. tf'.queue = Append(tf.queue, x) /\ IsList(tf.queue)
    BY <1>1, <1>4 DEF Typed
  <2>2. QED
    BY <2>1, ListAppend
<1>6. /\ StampOf(tf'.queue, n + 1) = stamp
      /\ \A k \in 1 .. n : StampOf(tf'.queue, k) = StampOf(tf.queue, k)
  BY <1>4, <1>5 DEF StampOf
<1>7. tf' = [status |-> tf'.status, queue |-> tf'.queue]
  BY <1>4
<1> HIDE DEF n
<1>8. Typed'
  <2>1. \A k \in DOMAIN tf'.queue : StampOf(tf'.queue, k) \in Nat
    BY <1>1, <1>5, <1>6 DEF Typed
  <2>2. Len(tf'.queue) <= Len(heard')
    BY <1>1, <1>2, <1>5 DEF Typed, n
  <2>3. /\ states' \in [DOMAIN Robot.joints -> Int] /\ ignore_timestamps' \in BOOLEAN
        /\ tf'.status \in {"waiting", "up"}
    BY <1>1, <1>4 DEF Followed, Merged, Typed
  <2>4. QED
    BY <1>2, <1>3, <1>5, <1>7, <2>1, <2>2, <2>3 DEF Typed, IsList
<1>9. LastIsNewest'
  <2>1. tf'.queue # <<>>
    BY <1>5
  <2>2. QED
    BY <1>3, <1>5, <1>6, <2>1 DEF LastIsNewest
<1>10. LastWasHeard'
  BY <1>2, <1>3 DEF LastWasHeard
<1>11. StampsSpaced'
  <2>1. \A i, j \in 1 .. n : i < j /\ StampOf(tf.queue, i) # 0 =>
            StampOf(tf.queue, j) - StampOf(tf.queue, i) >= Period
    BY <1>1, <1>5 DEF StampsSpaced, StampOf
  <2>2. \A i \in 1 .. n : StampOf(tf.queue, i) \in Nat
    BY <1>1, <1>5 DEF Typed
  <2>3. n > 0 => StampOf(tf.queue, n) = 0 \/ stamp - StampOf(tf.queue, n) >= Period
    <3>1. n > 0 => last_publish_time = StampOf(tf.queue, n)
      BY <1>1, <1>5 DEF LastIsNewest, n
    <3>2. last_publish_time = 0 \/ ~(stamp - last_publish_time < Period)
      BY <1>3 DEF TooSoon
    <3>3. QED
      BY <1>1, <3>1, <3>2, PeriodIsPositive, InstantsAreTimes DEF Typed
  <2> SUFFICES ASSUME NEW i \in 1 .. n, StampOf(tf.queue, i) # 0
               PROVE  stamp - StampOf(tf.queue, i) >= Period
    <3>1. ASSUME NEW i \in 1 .. n + 1, NEW j \in 1 .. n + 1, i < j,
                 StampOf(tf'.queue, i) # 0,
                 \A k \in 1 .. n : StampOf(tf.queue, k) # 0 =>
                                      stamp - StampOf(tf.queue, k) >= Period
          PROVE  StampOf(tf'.queue, j) - StampOf(tf'.queue, i) >= Period
      <4>1. i \in 1 .. n /\ (j = n + 1 \/ j \in 1 .. n)
        BY <1>5, <3>1
      <4>2. StampOf(tf'.queue, i) = StampOf(tf.queue, i)
        BY <1>6, <4>1
      <4>3. CASE j = n + 1
        BY <1>6, <3>1, <4>1, <4>2, <4>3
      <4>4. CASE j \in 1 .. n
        <5>1. StampOf(tf'.queue, j) = StampOf(tf.queue, j)
          BY <1>6, <4>4
        <5>2. QED
          BY <2>1, <3>1, <4>1, <4>2, <4>4, <5>1
      <4>5. QED
        BY <4>1, <4>3, <4>4
    <3>2. QED
      BY <1>5, <3>1 DEF StampsSpaced, StampOf
  <2>4. CASE i = n
    BY <1>5, <2>3, <2>4
  <2>5. CASE i < n
    <3>1. StampOf(tf.queue, n) - StampOf(tf.queue, i) >= Period
      <4>1. n \in 1 .. n
        BY <1>5
      <4>2. QED
        BY <2>1, <2>5, <4>1
    <3>2. StampOf(tf.queue, n) # 0
      BY <1>5, <2>2, <2>5, <3>1, PeriodIsPositive
    <3>3. n \in 1 .. n /\ n > 0
      BY <1>5
    <3>4. StampOf(tf.queue, n) \in Nat /\ StampOf(tf.queue, i) \in Nat
      BY <2>2, <3>3
    <3>5. QED
      BY <1>1, <2>3, <3>1, <3>2, <3>3, <3>4, PeriodIsPositive
  <2>6. QED
    BY <1>5, <2>4, <2>5
<1>12. SuppressedForAReason'
  <2> SUFFICES ASSUME NEW i \in DOMAIN heard', ~heard'[i].shown
               PROVE  \E k \in 1 .. i - 1 : heard'[k].shown /\ heard'[i].stamp - heard'[k].stamp < Period
    BY DEF SuppressedForAReason
  <2>1. i \in 1 .. Len(heard)
    BY <1>2
  <2>2. PICK k \in 1 .. i - 1 : heard[k].shown /\ heard[i].stamp - heard[k].stamp < Period
    BY <1>1, <1>2, <2>1 DEF SuppressedForAReason
  <2>3. k \in 1 .. Len(heard)
    BY <1>2, <2>1
  <2>4. QED
    BY <1>2, <2>1, <2>2, <2>3
<1>13. Current'
  BY <1>1, CurrentKeeps DEF Followed
<1>14. ShowsAllThatWasHeard'
  <2>1. PICK h \in Nat : h = Len(heard)
    BY <1>2
  <2>2. \A k \in 1 .. h : ShowsAt(k)'
    BY <1>1, <1>2, <1>5, <2>1, EarlierAnswers DEF n
  <2>3. ShownUpTo(h + 1)' = ShownUpTo(h) + 1
    BY <1>2, <2>1, ShownUpToGrows
  <2>4. ShownUpTo(h + 1)' = n + 1
    BY <1>1, <2>1, <2>3 DEF ShowsAllThatWasHeard, n
  <2>5. Len(heard)' = h + 1 /\ DOMAIN heard' = 1 .. h + 1
    BY <1>2, <2>1
  <2>6. ShowsAt(h + 1)'
    <3>1. tf'.queue[ShownUpTo(h + 1)'] = x
      BY <1>5, <2>4
    <3>2. ASSUME NEW j \in DOMAIN Robot.joints, ~IsMimic(Robot.joints[j])
          PROVE  states'[j] = LastSaid(j, h + 1)'
      <4>1. states'[j] = LastSaid(j, Len(heard))'
        BY <1>13, <3>2 DEF Current, Follows
      <4>2. QED
        BY <2>5, <4>1
    <3>3. ASSUME NEW i \in DOMAIN x
          PROVE  /\ x[i].stamp = heard'[h + 1].stamp
                 /\ \A j \in DOMAIN Robot.joints :
                       Robot.joints[j].child = x[i].child_frame_id /\ ~IsMimic(Robot.joints[j])
                         => x[i].transform = JointTransform(j, LastSaid(j, h + 1)')
      BY <1>2, <1>4, <2>1, <3>2, <3>3 DEF Shows
    <3>4. QED
      BY <3>1, <3>3 DEF ShowsAt
  <2>7. \A k \in DOMAIN heard' : ShowsAt(k)'
    BY <2>2, <2>5, <2>6
  <2>8. Len(tf'.queue) = ShownUpTo(Len(heard))'
    BY <1>5, <2>4, <2>5
  <2>9. QED
    BY <2>7, <2>8 DEF ShowsAllThatWasHeard, ShowsAt
<1>15. QED
  BY <1>8, <1>9, <1>10, <1>11, <1>12, <1>13, <1>14 DEF IInv

-----------------------------------------------------------------------------
LEMMA Initially ==
    ASSUME StreamInit
    PROVE  IInv
<1>1. /\ last_publish_time = 0 /\ tf = [status |-> "waiting", queue |-> <<>>] /\ heard = <<>>
      /\ states = [n \in DOMAIN Robot.joints |-> AtRest] /\ ignore_timestamps \in BOOLEAN
  BY DEF StreamInit, Init, NoConnection
<1>2. IsList(tf.queue) /\ Len(tf.queue) = 0 /\ DOMAIN tf.queue = {} /\ DOMAIN heard = {}
  BY <1>1 DEF IsList
<1>3. Typed
  BY <1>1, <1>2, InstantsAreTimes DEF Typed, AtRest
<1>4. LastIsNewest /\ LastWasHeard
  BY <1>1 DEF LastIsNewest, LastWasHeard
<1>5. StampsSpaced /\ SuppressedForAReason
  BY <1>2 DEF StampsSpaced, SuppressedForAReason
<1>6. Len(heard) = 0 /\ 1 .. 0 = {}
  BY <1>1
<1>7. Current
  <2>1. \A n \in DOMAIN Robot.joints : LastSaid(n, 0) = AtRest
    BY <1>6 DEF LastSaid
  <2>2. QED
    BY <1>1, <1>6, <2>1 DEF Current, Follows
<1>8. ShowsAllThatWasHeard
  <2>1. {i \in 1 .. 0 : heard[i].shown} = {}
    BY <1>6
  <2>2. ShownUpTo(0) = 0
    BY <2>1, FS_EmptySet DEF ShownUpTo
  <2>3. QED
    BY <1>2, <1>6, <2>2 DEF ShowsAllThatWasHeard
<1>9. QED
  BY <1>3, <1>4, <1>5, <1>7, <1>8 DEF IInv

(* What was said and shown depends on the history and on the topic alone.  *)
LEMMA SaidUntouched ==
    ASSUME UNCHANGED <<states, heard>>, tf'.queue = tf.queue, Current, ShowsAllThatWasHeard
    PROVE  Current' /\ ShowsAllThatWasHeard'
<1>1. \A name, n : LastSaid(name, n)' = LastSaid(name, n)
  BY DEF LastSaid
<1>2. \A n : ShownUpTo(n)' = ShownUpTo(n)
  BY DEF ShownUpTo
<1>3. Len(heard)' = Len(heard)
  OBVIOUS
<1>4. Current'
  <2>1. \A n : LastSaid(n, Len(heard))' = LastSaid(n, Len(heard))
    BY DEF LastSaid
  <2>2. QED
    BY <2>1 DEF Current, Follows
<1>5. \A k \in DOMAIN heard : ShowsAt(k)'
  BY <1>1, <1>2 DEF ShowsAllThatWasHeard, ShowsAt
<1>6. ShownUpTo(Len(heard))' = ShownUpTo(Len(heard))
  BY DEF ShownUpTo
<1>7. QED
  BY <1>4, <1>5, <1>6 DEF ShowsAllThatWasHeard, ShowsAt

(* A connection changes the status of the topic and not what it holds.     *)
LEMMA ConnectingKeeps ==
    ASSUME IInv, ListenerConnects
    PROVE  IInv'
<1>1. tf' = [status |-> "up", queue |-> tf.queue]
  <2>1. tf = [status |-> tf.status, queue |-> tf.queue] /\ tf' = [tf EXCEPT !.status = "up"]
    BY DEF IInv, Typed, ListenerConnects, Connect
  <2> DEFINE st == tf.status
  <2> DEFINE qu == tf.queue
  <2> HIDE DEF st, qu
  <2>2. [[status |-> st, queue |-> qu] EXCEPT !.status = "up"] = [status |-> "up", queue |-> qu]
    OBVIOUS
  <2>3. QED
    BY <2>1, <2>2 DEF st, qu
<1>2. UNCHANGED <<states, last_publish_time, ignore_timestamps, heard>>
  BY DEF ListenerConnects
<1>3. tf'.queue = tf.queue /\ tf' = [status |-> tf'.status, queue |-> tf'.queue]
  BY <1>1
<1>4. Typed'
  BY <1>1, <1>2, <1>3 DEF IInv, Typed, IsList, StampOf
<1>5. LastIsNewest' /\ LastWasHeard' /\ StampsSpaced' /\ SuppressedForAReason'
  BY <1>2, <1>3 DEF IInv, LastIsNewest, LastWasHeard, StampsSpaced, SuppressedForAReason, StampOf
<1>6. Current' /\ ShowsAllThatWasHeard'
  BY <1>2, <1>3, SaidUntouched DEF IInv
<1>7. QED
  BY <1>4, <1>5, <1>6 DEF IInv

(* The throttle's member and the two histories agree at all times.         *)
THEOREM Invariant == Spec => []IInv
<1>1. IInv /\ [Next]_vars => IInv'
  <2> SUFFICES ASSUME IInv, [Next]_vars PROVE IInv'
    OBVIOUS
  <2>1. CASE ListenerConnects
    BY <2>1, ConnectingKeeps
  <2>2. ASSUME NEW stamp \in Instants, NEW now \in Instants, NEW list \in JointStateLists,
               Hear(JS(stamp, list), now)
        PROVE  IInv'
    <3>1. PICK given \in Instants : Suppressed(list, given) \/ Followed(list, given)
      BY <2>2, HearDoes DEF IInv
    <3>2. QED
      BY <3>1, SuppressedKeeps, FollowedKeeps
  <2>3. CASE UNCHANGED vars
    <3>1. Current' /\ ShowsAllThatWasHeard'
      BY <2>3, SaidUntouched DEF vars, IInv
    <3>2. Typed' /\ LastIsNewest' /\ LastWasHeard' /\ StampsSpaced' /\ SuppressedForAReason'
      BY <2>3 DEF vars, IInv, Typed, IsList, LastIsNewest, LastWasHeard, StampsSpaced,
                  SuppressedForAReason, StampOf
    <3>3. QED
      BY <3>1, <3>2 DEF IInv
  <2>4. QED
    BY <2>1, <2>2, <2>3 DEF Next
<1>2. QED
  BY <1>1, Initially, PTL DEF Spec

(* The members of the node keep their types, and its topic is never lost   *)
(* as long as it has room.                                                 *)
THEOREM TypeCorrect == Spec => []TypeOK
<1>1. IInv => TypeOK
  BY DEF IInv, Typed, TypeOK
<1>2. QED
  BY <1>1, Invariant, PTL

(* TF are spaced by the period, whatever the order of the stamps that      *)
(* joint_state_callback is given (robot_state_publisher.cpp:47-51).        *)
THEOREM Throttled == Spec => []StampsSpaced
<1>1. IInv => StampsSpaced
  BY DEF IInv
<1>2. QED
  BY <1>1, Invariant, PTL

(* joint_state_callback returns early only less than a period after the    *)
(* stamp of a message that it did answer, never because of one that it     *)
(* suppressed.                                                             *)
THEOREM SilenceIsJustified == Spec => []SuppressedForAReason
<1>1. IInv => SuppressedForAReason
  BY DEF IInv
<1>2. QED
  BY <1>1, Invariant, PTL

(* A TF shows what every joint was last said to be, also by the messages   *)
(* for which joint_state_callback published nothing, under one stamp.      *)
THEOREM NothingIsForgotten == Spec => []ShowsAllThatWasHeard
<1>1. IInv => ShowsAllThatWasHeard
  BY DEF IInv
<1>2. QED
  BY <1>1, Invariant, PTL

=============================================================================
