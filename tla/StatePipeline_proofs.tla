------------------------- MODULE StatePipeline_proofs -------------------------
(***************************************************************************)
(* What the three nodes guarantee together, for every robot the parser     *)
(* makes, any number of frames, and topics of any capacity that may be     *)
(* lost at any time.  Every TF lists the same edges in the same order, so  *)
(* the listener's tree has either none of them or all; and the edges hear  *)
(* the same stamps, so their buffers keep and lose the same moments.       *)
(***************************************************************************)
EXTENDS StatePipeline, FrameTree_proofs, FiniteSetTheorems

(* The edges of a TF: from the world to the root, then from joint to joint.*)
LastEdge == Len(Sent(Robot)) + 1

Edges == 1 .. LastEdge

Below(k) == IF k = 1 THEN Robot.root ELSE Sent(Robot)[k - 1].child

Above(k) == IF k = 1 THEN World ELSE Sent(Robot)[k - 1].parent

(* The transform of an edge in given joint states, and a TF of them all.   *)
ShownIn(st, k) ==
    IF k = 1 THEN WorldToRoot ELSE SentTransform(Sent(Robot)[k - 1], st)

TFOf(st, stamp) ==
    [k \in Edges |-> TransformStamped(Above(k), Below(k), stamp, ShownIn(st, k))]

(* The joint states a model can be in.                                     *)
States == [DOMAIN Robot.joints -> 0 .. MaxDrives]

-----------------------------------------------------------------------------
(***************************************************************************)
(* The edges of the robot.                                                 *)
(***************************************************************************)
LEMMA EdgesAre ==
    /\ Len(Sent(Robot)) \in Nat
    /\ DOMAIN Sent(Robot) = 1 .. Len(Sent(Robot))
    /\ \A k \in Edges : /\ Below(k) \in LinkNames
                        /\ Above(k) \in LinkNames \cup {World}
                        /\ k # 1 => k - 1 \in DOMAIN Sent(Robot)
    /\ \A j, k \in Edges : Below(j) = Below(k) => j = k
    /\ \A k \in Edges : Above(k) = World \/ \E j \in 1 .. k - 1 : Above(k) = Below(j)
<1> DEFINE sent == Sent(Robot)
           n == Len(sent)
<1>1. /\ sent \in Seq(Joints) /\ n \in Nat /\ DOMAIN sent = 1 .. n
      /\ \A k \in 1 .. n : sent[k] \in Joints
  BY RobotIsParsed, LenProperties, ElementOfSeq
<1>2. \A k \in DOMAIN sent :
          /\ sent[k].child # Robot.root
          /\ \A i \in DOMAIN sent : sent[i].child = sent[k].child => i = k
          /\ sent[k].parent = Robot.root \/ \E i \in 1 .. k - 1 : sent[i].child = sent[k].parent
  BY RobotIsParsed DEF Publishable
<1>3. /\ Edges = 1 .. n + 1
      /\ \A k \in Edges : /\ Below(k) = IF k = 1 THEN Robot.root ELSE sent[k - 1].child
                          /\ Above(k) = IF k = 1 THEN World ELSE sent[k - 1].parent
  BY DEF Edges, LastEdge, Below, Above
<1>4. \A k \in 1 .. n : sent[k].child \in LinkNames /\ sent[k].parent \in LinkNames
  BY <1>1 DEF Joints
<1> HIDE DEF sent, n
<1>5. \A k \in Edges : k # 1 => k - 1 \in 1 .. n
  BY <1>1, <1>3
<1>6. ASSUME NEW k \in Edges
      PROVE  /\ Below(k) \in LinkNames
             /\ Above(k) \in LinkNames \cup {World}
             /\ k # 1 => k - 1 \in DOMAIN sent
  BY <1>1, <1>3, <1>4, <1>5, RobotIsParsed
<1>7. ASSUME NEW j \in Edges, NEW k \in Edges, Below(j) = Below(k)
      PROVE  j = k
  <2>1. CASE j = 1 \/ k = 1
    BY <1>1, <1>2, <1>3, <1>5, <1>7, <2>1
  <2>2. CASE j # 1 /\ k # 1
    <3>1. j - 1 = k - 1
      <4> DEFINE a == j - 1
                 b == k - 1
      <4>1. a \in 1 .. n /\ b \in 1 .. n
        BY <1>5, <2>2
      <4>2. Below(j) = sent[a].child
        BY <1>3, <2>2
      <4>3. Below(k) = sent[b].child
        BY <1>3, <2>2
      <4>4. a \in DOMAIN sent /\ b \in DOMAIN sent
        BY <1>1, <4>1
      <4> HIDE DEF a, b
      <4>5. sent[a].child = sent[b].child
        BY <1>7, <4>2, <4>3
      <4>6. a = b
        BY <1>2, <4>4, <4>5
      <4>7. QED
        BY <4>6 DEF a, b
    <3>2. QED
      BY <1>1, <1>3, <3>1
  <2>3. QED
    BY <2>1, <2>2
<1>8. ASSUME NEW k \in Edges
      PROVE  Above(k) = World \/ \E j \in 1 .. k - 1 : Above(k) = Below(j)
  <2>1. CASE k = 1
    BY <1>3, <2>1
  <2>2. CASE k # 1
    <3>1. k - 1 \in 1 .. n /\ k \in 2 .. n + 1
      BY <1>1, <1>3, <1>5, <2>2
    <3>2. CASE sent[k - 1].parent = Robot.root
      <4>1. 1 \in Edges /\ 1 \in 1 .. k - 1
        BY <1>1, <1>3, <3>1
      <4>2. QED
        BY <1>3, <2>2, <3>2, <4>1
    <3>3. ASSUME NEW i \in 1 .. (k - 1) - 1, sent[i].child = sent[k - 1].parent
          PROVE  \E j \in 1 .. k - 1 : Above(k) = Below(j)
      <4>1. i + 1 \in Edges /\ i + 1 # 1 /\ (i + 1) - 1 = i /\ i + 1 \in 1 .. k - 1
        BY <1>1, <1>3, <3>1
      <4>2. Below(i + 1) = sent[i].child
        BY <1>3, <4>1
      <4>3. QED
        BY <1>3, <2>2, <3>3, <4>1, <4>2
    <3>4. QED
      BY <1>1, <1>2, <3>1, <3>2, <3>3
  <2>3. QED
    BY <2>1, <2>2
<1>9. QED
  BY <1>1, <1>6, <1>7, <1>8 DEF sent, n

(* Each joint that is sent can be shown in every state.                    *)
LEMMA ShownIsTransform ==
    ASSUME NEW st \in States, NEW k \in Edges
    PROVE  ShownIn(st, k) \in Transforms
<1>1. CASE k = 1
  BY <1>1, JointsTransform DEF ShownIn
<1>2. CASE k # 1
  <2>1. k - 1 \in DOMAIN Sent(Robot)
    BY <1>2, EdgesAre
  <2>2. PICK n \in DOMAIN Robot.joints : Sent(Robot)[k - 1] = Robot.joints[n]
    BY <2>1, RobotIsParsed
  <2>3. Robot.joints[n].name = n /\ n \in JointNames
    BY RobotIsParsed DEF Joints
  <2>4. st[n] \in 0 .. MaxDrives /\ 0 \in 0 .. MaxDrives
    BY ClockBounds DEF States
  <2>5. JointTransform(n, st[n]) \in Transforms /\ JointTransform(n, AtRest) \in Transforms
    BY <2>3, <2>4, JointsTransform DEF AtRest
  <2>6. SentTransform(Sent(Robot)[k - 1], st) \in Transforms
    BY <2>2, <2>3, <2>5 DEF SentTransform, Origin
  <2>7. QED
    BY <1>2, <2>6 DEF ShownIn
<1>3. QED
  BY <1>1, <1>2

LEMMA StampedIs ==
    ASSUME NEW parent, NEW child, NEW stamp, NEW x
    PROVE  LET m == TransformStamped(parent, child, stamp, x)
           IN  /\ m.frame_id = parent /\ m.child_frame_id = child
               /\ m.stamp = stamp /\ m.transform = x
               /\ parent \in Names /\ child \in Names /\ stamp \in Instants /\ x \in Transforms
                    => m \in Messages
BY DEF TransformStamped, Messages

LEMMA TFIsTyped ==
    ASSUME NEW st \in States, NEW t \in 0 .. MaxClock
    PROVE  /\ TFOf(st, t) \in Seq(Messages)
           /\ Len(TFOf(st, t)) = Len(Sent(Robot)) + 1
           /\ \A k \in Edges :
                 /\ TFOf(st, t)[k] \in Messages
                 /\ TFOf(st, t)[k].frame_id = Above(k)
                 /\ TFOf(st, t)[k].child_frame_id = Below(k)
                 /\ TFOf(st, t)[k].stamp = t
                 /\ TFOf(st, t)[k].transform = ShownIn(st, k)
<1> DEFINE f == TFOf(st, t)
           n == Len(Sent(Robot)) + 1
<1>1. n \in Nat /\ Edges = 1 .. n
  BY EdgesAre DEF Edges, LastEdge
<1>2. f = [k \in 1 .. n |-> TransformStamped(Above(k), Below(k), t, ShownIn(st, k))]
  BY <1>1 DEF TFOf
<1> HIDE DEF f
<1>3. \A k \in Edges : f[k] = TransformStamped(Above(k), Below(k), t, ShownIn(st, k))
  BY <1>1, <1>2
<1>4. t \in Instants
  BY TimesAreStamps
<1>5. ASSUME NEW k \in Edges PROVE f[k] \in Messages
  <2>1. Above(k) \in Names /\ Below(k) \in Names
    BY EdgesAre, LinksAreFrames
  <2>2. ShownIn(st, k) \in Transforms
    BY ShownIsTransform
  <2>3. QED
    BY <1>3, <1>4, <2>1, <2>2, StampedIs
<1>6. f \in [1 .. n -> Messages]
  BY <1>1, <1>2, <1>5
<1>7. f \in Seq(Messages) /\ Len(f) = n
  BY <1>1, <1>6, IsASeq, LenProperties
<1>8. \A k \in Edges : /\ f[k].frame_id = Above(k) /\ f[k].child_frame_id = Below(k)
                       /\ f[k].stamp = t /\ f[k].transform = ShownIn(st, k)
  BY <1>3, StampedIs
<1>9. QED
  BY <1>5, <1>7, <1>8 DEF f, n

(* What get_transforms lists is such a TF, whatever the states of mimics.  *)
LEMMA PublishedAre ==
    ASSUME NEW st, NEW shown, NEW now, NEW stamp,
           \A n \in DOMAIN Robot.joints : ~IsMimic(Robot.joints[n]) => st[n] = shown[n]
    PROVE  RSP!Restamped(GetTransforms(Robot, st, now), stamp) = TFOf(shown, stamp)
<1> DEFINE sent == Sent(Robot)
           n == Len(sent)
           first == TransformStamped(World, Robot.root, now, WorldToRoot)
           rest == [k \in DOMAIN sent |-> TransformStamped(sent[k].parent, sent[k].child, now,
                                              SentTransform(sent[k], st))]
           all == <<first>> \o rest
<1>1. GetTransforms(Robot, st, now) = all
  BY RobotIsParsed DEF GetTransforms
<1>2. n \in Nat /\ DOMAIN sent = 1 .. n /\ Edges = 1 .. n + 1
  BY EdgesAre DEF Edges, LastEdge
<1>3. \A k \in 1 .. n : SentTransform(sent[k], st) = SentTransform(sent[k], shown)
  <2> TAKE k \in 1 .. n
  <2>1. PICK j \in DOMAIN Robot.joints : sent[k] = Robot.joints[j]
    BY <1>2, RobotIsParsed
  <2>2. Robot.joints[j].name = j
    BY RobotIsParsed
  <2>3. QED
    BY <2>1, <2>2 DEF SentTransform
<1>4. \A k \in Edges : TFOf(shown, stamp)[k] =
                          TransformStamped(Above(k), Below(k), stamp, ShownIn(shown, k))
  BY DEF TFOf
<1>5. \A k \in Edges : IF k = 1
                       THEN Above(k) = World /\ Below(k) = Robot.root /\ ShownIn(shown, k) = WorldToRoot
                       ELSE /\ Above(k) = sent[k - 1].parent
                            /\ Below(k) = sent[k - 1].child
                            /\ ShownIn(shown, k) = SentTransform(sent[k - 1], shown)
  BY DEF Above, Below, ShownIn
<1> HIDE DEF sent
<1> DEFINE T == {first} \cup {rest[k] : k \in DOMAIN sent}
<1>6. rest \in [1 .. n -> T] /\ first \in T
  BY <1>2
<1>7. \A k \in 1 .. n : rest[k] = TransformStamped(sent[k].parent, sent[k].child, now,
                                                  SentTransform(sent[k], st))
  BY <1>2
<1> HIDE DEF rest, T, first, n
<1>8. rest \in Seq(T) /\ <<first>> \in Seq(T) /\ Len(rest) = n /\ Len(<<first>>) = 1
      /\ <<first>>[1] = first
  BY <1>2, <1>6, IsASeq, LenProperties
<1>9. /\ DOMAIN all = 1 .. n + 1
      /\ all[1] = first
      /\ \A k \in 2 .. n + 1 : all[k] = rest[k - 1]
  BY <1>2, <1>8
<1> HIDE DEF all
<1> DEFINE f == RSP!Restamped(all, stamp)
<1>10. f = [k \in 1 .. n + 1 |-> [all[k] EXCEPT !.stamp = stamp]]
  BY <1>9 DEF RSP!Restamped
<1>11. ASSUME NEW parent, NEW child, NEW x
       PROVE  [TransformStamped(parent, child, now, x) EXCEPT !.stamp = stamp]
                = TransformStamped(parent, child, stamp, x)
  BY DEF TransformStamped
<1>12. ASSUME NEW k \in 1 .. n + 1 PROVE f[k] = TFOf(shown, stamp)[k]
  <2>1. f[k] = [all[k] EXCEPT !.stamp = stamp] /\ k \in Edges
    BY <1>2, <1>10
  <2>2. CASE k = 1
    <3>1. f[k] = TransformStamped(World, Robot.root, stamp, WorldToRoot)
      BY <1>9, <1>11, <2>1, <2>2 DEF first
    <3>2. QED
      BY <1>4, <1>5, <2>1, <2>2, <3>1
  <2>3. CASE k # 1
    <3>1. k \in 2 .. n + 1 /\ k - 1 \in 1 .. n
      BY <1>2, <2>3
    <3>2. all[k] = TransformStamped(sent[k - 1].parent, sent[k - 1].child, now,
                                    SentTransform(sent[k - 1], st))
      BY <1>7, <1>9, <3>1
    <3>3. f[k] = TransformStamped(sent[k - 1].parent, sent[k - 1].child, stamp,
                                  SentTransform(sent[k - 1], shown))
      BY <1>3, <1>11, <2>1, <3>1, <3>2
    <3>4. QED
      BY <1>4, <1>5, <2>1, <2>3, <3>3
  <2>4. QED
    BY <2>2, <2>3
<1>13. f = [k \in 1 .. n + 1 |-> f[k]]
  BY <1>10
<1> HIDE DEF f
<1>14. TFOf(shown, stamp) = [k \in 1 .. n + 1 |-> TFOf(shown, stamp)[k]]
  BY <1>2 DEF TFOf
<1>15. f = TFOf(shown, stamp)
  BY <1>12, <1>13, <1>14
<1>16. QED
  BY <1>1, <1>15 DEF f

-----------------------------------------------------------------------------
(***************************************************************************)
(* What a message of the JointStatePublisher carries to another model of   *)
(* the same robot: the states of the joints that do not mimic, as they are.*)
(***************************************************************************)
IsReading(st, m, f) ==
    f = [depth \in 0 .. m |->
            [n \in DOMAIN st |->
                IF depth = 0 \/ ~IsMimic(Robot.joints[n]) THEN st[n]
                ELSE f[depth - 1][Robot.joints[n].mimic] * Multiplier[n] + Offset[n]]]

LEMMA ReadingExists ==
    ASSUME NEW st
    PROVE  \A m \in Nat : \E f : IsReading(st, m, f)
<1> DEFINE Row(depth, before) ==
               [n \in DOMAIN st |->
                   IF depth = 0 \/ ~IsMimic(Robot.joints[n]) THEN st[n]
                   ELSE before[Robot.joints[n].mimic] * Multiplier[n] + Offset[n]]
           S == {m \in Nat : \E f : f = [depth \in 0 .. m |-> Row(depth, f[depth - 1])]}
<1> HIDE DEF Row
<1>1. 0 \in S
  <2> DEFINE f == [depth \in 0 .. 0 |-> Row(0, st)]
             zeroth == [depth \in 0 .. 0 |-> Row(depth, f[depth - 1])]
  <2>1. Row(0, st) = Row(0, f[0 - 1])
    BY DEF Row
  <2>2. f[0] = zeroth[0]
    BY <2>1
  <2>3. f = zeroth
    BY <2>2
  <2>4. QED
    BY <2>3
<1>2. ASSUME NEW m \in Nat, m \in S PROVE m + 1 \in S
  <2>1. PICK f : f = [depth \in 0 .. m |-> Row(depth, f[depth - 1])]
    BY <1>2
  <2> DEFINE h == [k \in 0 .. m + 1 |-> IF k = m + 1 THEN Row(m + 1, f[m]) ELSE f[k]]
  <2>2. ASSUME NEW k \in 0 .. m + 1 PROVE h[k] = Row(k, h[k - 1])
    <3>1. CASE k = m + 1
      <4>1. m \in 0 .. m + 1 /\ k - 1 = m /\ m # m + 1
        BY <3>1
      <4>2. h[k] = Row(m + 1, f[m]) /\ h[m] = f[m]
        BY <3>1, <4>1
      <4> HIDE DEF h
      <4>3. QED
        BY <3>1, <4>1, <4>2
    <3>2. CASE k = 0
      <4>1. h[k] = f[k] /\ k \in 0 .. m /\ k # m + 1
        BY <3>2
      <4>2. f[k] = Row(k, f[k - 1])
        BY <2>1, <4>1
      <4> HIDE DEF h
      <4>3. Row(k, f[k - 1]) = Row(k, h[k - 1])
        BY <3>2 DEF Row
      <4>4. QED
        BY <4>1, <4>2, <4>3
    <3>3. CASE k # m + 1 /\ k # 0
      <4>1. k \in 0 .. m /\ h[k] = f[k] /\ k - 1 \in 0 .. m + 1 /\ k - 1 # m + 1
        BY <3>3
      <4>2. h[k - 1] = f[k - 1]
        BY <4>1
      <4>3. f[k] = Row(k, f[k - 1])
        BY <2>1, <4>1
      <4> HIDE DEF h
      <4>4. QED
        BY <4>1, <4>2, <4>3
    <3>4. QED
      BY <3>1, <3>2, <3>3
  <2>3. h = [k \in 0 .. m + 1 |-> h[k]]
    OBVIOUS
  <2> HIDE DEF h
  <2>4. h = [depth \in 0 .. m + 1 |-> Row(depth, h[depth - 1])]
    BY <2>2, <2>3
  <2>5. QED
    BY <2>4
<1> HIDE DEF S
<1>3. Nat \subseteq S
  BY <1>1, <1>2, SetInduction
<1>4. QED
  BY <1>3 DEF S, IsReading, Row

LEMMA ReadsItsOwn ==
    ASSUME NEW st, DOMAIN st = DOMAIN Robot.joints, NEW n \in DOMAIN Robot.joints,
           ~IsMimic(Robot.joints[n])
    PROVE  ReadStates(Robot, st)[n] = st[n]
<1> DEFINE m == Cardinality(DOMAIN st)
           f == CHOOSE h : IsReading(st, m, h)
<1>1. m \in Nat
  BY RobotIsParsed, FS_CardinalityType
<1>2. ReadStates(Robot, st) = f[m]
  BY DEF ReadStates, IsReading
<1> HIDE DEF m
<1>3. IsReading(st, m, f)
  BY <1>1, ReadingExists
<1> HIDE DEF f
<1>4. m \in 0 .. m
  BY <1>1
<1> DEFINE row == [k \in DOMAIN st |->
                      IF m = 0 \/ ~IsMimic(Robot.joints[k]) THEN st[k]
                      ELSE f[m - 1][Robot.joints[k].mimic] * Multiplier[k] + Offset[k]]
<1>5. f[m] = row
  BY <1>3, <1>4 DEF IsReading
<1>6. row[n] = st[n]
  OBVIOUS
<1>7. QED
  BY <1>2, <1>5, <1>6

(* The joints in the order of a message: each once.                        *)
LEMMA AllAreNamed ==
    LET names == SetToSeq(DOMAIN Robot.joints)
    IN  /\ DOMAIN names \subseteq Nat
        /\ \A k \in DOMAIN names : names[k] \in DOMAIN Robot.joints
        /\ \A n \in DOMAIN Robot.joints :
              \E k \in DOMAIN names :
                  names[k] = n /\ \A j \in DOMAIN names : names[j] = n => j = k
<1> DEFINE S == DOMAIN Robot.joints
           names == SetToSeq(S)
           m == Cardinality(S)
<1>1. IsFiniteSet(S) /\ m \in Nat /\ ExistsBijection(1 .. m, S)
  BY RobotIsParsed, FS_CardinalityType
<1>2. \E f \in [1 .. m -> S] : IsInjective(f)
  BY <1>1 DEF ExistsBijection, Bijection, Injection
<1> HIDE DEF S
<1>3. names \in [1 .. m -> S] /\ IsInjective(names)
  BY <1>2 DEF SetToSeq
<1>4. IsFiniteSet(1 .. m) /\ Cardinality(1 .. m) = m
  BY <1>1, FS_Interval
<1> HIDE DEF names
<1>5. names \in Surjection(1 .. m, S)
  <2>1. names \in Injection(1 .. m, S)
    BY <1>3 DEF Injection
  <2>2. QED
    BY <1>1, <1>4, <2>1, FS_Injection
<1>6. \A n \in S : \E k \in 1 .. m : names[k] = n
  BY <1>5 DEF Surjection
<1>7. DOMAIN names = 1 .. m /\ \A k \in 1 .. m : names[k] \in S
  BY <1>3
<1>8. \A j, k \in 1 .. m : names[j] = names[k] => j = k
  BY <1>3, <1>7 DEF IsInjective
<1>9. 1 .. m \subseteq Nat
  BY <1>1
<1>10. ASSUME NEW n \in S
       PROVE  \E k \in DOMAIN names :
                  names[k] = n /\ \A j \in DOMAIN names : names[j] = n => j = k
  <2>1. PICK k \in 1 .. m : names[k] = n
    BY <1>6
  <2>2. k \in DOMAIN names /\ \A j \in DOMAIN names : names[j] = n => j = k
    BY <1>7, <1>8, <2>1
  <2>3. QED
    BY <2>1, <2>2
<1>11. DOMAIN names \subseteq Nat /\ \A k \in DOMAIN names : names[k] \in S
  BY <1>7, <1>9
<1>12. QED
  BY <1>10, <1>11 DEF names, S

LEMMA StatesCarried ==
    ASSUME NEW st \in States, NEW told \in States, NEW now
    PROVE  LET h == SetState(Robot, st, GetJointStates(Robot, told, now))
           IN  /\ h \in States
               /\ \A n \in DOMAIN Robot.joints :
                     ~IsMimic(Robot.joints[n]) => h[n] = told[n]
<1> DEFINE D == DOMAIN Robot.joints
           names == SetToSeq(D)
           list == [k \in DOMAIN names |->
                       JointState(names[k], ReadStates(Robot, told)[names[k]])]
           js == GetJointStates(Robot, told, now)
           h == SetState(Robot, st, js)
           Named(n) == {i \in DOMAIN list : list[i].name = n}
<1>1. DOMAIN told = D /\ DOMAIN st = D
  BY DEF States
<1>2. js.joint_states = list
  BY <1>1 DEF GetJointStates, JS
<1>3. h = [n \in D |-> IF Named(n) = {} \/ IsMimic(Robot.joints[n]) THEN st[n]
                        ELSE list[Max(Named(n))].value]
  BY <1>1, <1>2 DEF SetState
<1>4. /\ DOMAIN names \subseteq Nat
      /\ \A n \in D : \E k \in DOMAIN names :
             names[k] = n /\ \A j \in DOMAIN names : names[j] = n => j = k
  BY AllAreNamed
<1>5. /\ DOMAIN list = DOMAIN names
      /\ \A k \in DOMAIN names : /\ list[k].name = names[k]
                                 /\ list[k].value = ReadStates(Robot, told)[names[k]]
  BY DEF JointState
<1> HIDE DEF list, names
<1>6. ASSUME NEW n \in D
      PROVE  /\ Named(n) # {}
             /\ list[Max(Named(n))].value = ReadStates(Robot, told)[n]
  <2>1. PICK k \in DOMAIN names : names[k] = n /\ \A j \in DOMAIN names : names[j] = n => j = k
    BY <1>4
  <2>2. Named(n) = {k}
    BY <1>5, <2>1
  <2>3. k \in Int
    BY <1>4, <2>1
  <2> HIDE DEF Named
  <2>4. Max(Named(n)) = k
    <3>1. {k} \in SUBSET Int /\ k \in {k} /\ \A y \in {k} : y <= k
      BY <2>3
    <3>2. Max({k}) = k
      BY <3>1, MaxIs
    <3>3. QED
      BY <2>2, <3>2
  <2>5. QED
    BY <1>5, <2>1, <2>2, <2>4
<1> HIDE DEF Named, h
<1>7. \A n \in D : h[n] = IF IsMimic(Robot.joints[n]) THEN st[n] ELSE told[n]
  BY <1>1, <1>3, <1>6, ReadsItsOwn
<1>8. h \in States
  BY <1>1, <1>3, <1>7 DEF States
<1>9. QED
  BY <1>7, <1>8 DEF h

-----------------------------------------------------------------------------
(***************************************************************************)
(* A topic delivers what was published, or less.                           *)
(***************************************************************************)
LEMMA TopicKeeps ==
    ASSUME NEW M, NEW topic \in TopicsOf(M)
    PROVE  /\ Connect(topic) \in TopicsOf(M)
           /\ \A m \in M : Publish(topic, m) \in TopicsOf(M)
           /\ topic.queue # <<>> =>
                 Received(topic) \in TopicsOf(M) /\ Head(topic.queue) \in M
<1>1. /\ topic = [status |-> topic.status, queue |-> topic.queue]
      /\ topic.status \in {"waiting", "up", "lost"}
      /\ topic.queue \in Seq(M)
  BY DEF TopicsOf
<1>2. ASSUME NEW s, NEW q, topic = [status |-> s, queue |-> q]
      PROVE  /\ Connect(topic) = [status |-> "up", queue |-> q]
             /\ Received(topic) = [status |-> s, queue |-> Tail(q)]
             /\ \A m : \/ Publish(topic, m) = topic
                      \/ Publish(topic, m) = [status |-> "lost", queue |-> q]
                      \/ Publish(topic, m) = [status |-> s, queue |-> Append(q, m)]
  <2>1. Connect(topic) = [status |-> "up", queue |-> q]
    BY <1>2 DEF Connect
  <2>2. Received(topic) = [status |-> s, queue |-> Tail(q)]
    <3>1. topic.queue = q
      BY <1>2
    <3>2. ASSUME NEW x PROVE [topic EXCEPT !.queue = x] = [status |-> s, queue |-> x]
      BY <1>2
    <3>3. Received(topic) = [topic EXCEPT !.queue = Tail(topic.queue)]
      BY DEF Received
    <3>4. QED
      BY <3>1, <3>2, <3>3
  <2>3. ASSUME NEW m
        PROVE  /\ [topic EXCEPT !.status = "lost"] = [status |-> "lost", queue |-> q]
               /\ [topic EXCEPT !.queue = Append(@, m)] = [status |-> s, queue |-> Append(q, m)]
    BY <1>2
  <2>4. ASSUME NEW m
        PROVE  \/ Publish(topic, m) = topic
               \/ Publish(topic, m) = [status |-> "lost", queue |-> q]
               \/ Publish(topic, m) = [status |-> s, queue |-> Append(q, m)]
    BY <2>3 DEF Publish
  <2>5. QED
    BY <2>1, <2>2, <2>4
<1> DEFINE s == topic.status
           q == topic.queue
<1>3. /\ Connect(topic) = [status |-> "up", queue |-> q]
      /\ Received(topic) = [status |-> s, queue |-> Tail(q)]
      /\ \A m : \/ Publish(topic, m) = topic
               \/ Publish(topic, m) = [status |-> "lost", queue |-> q]
               \/ Publish(topic, m) = [status |-> s, queue |-> Append(q, m)]
  BY <1>1, <1>2
<1> HIDE DEF s, q
<1>4. s \in {"waiting", "up", "lost"} /\ q \in Seq(M)
  BY <1>1 DEF s, q
<1>5. Connect(topic) \in TopicsOf(M)
  BY <1>3, <1>4 DEF TopicsOf
<1>6. ASSUME NEW m \in M PROVE Publish(topic, m) \in TopicsOf(M)
  <2>1. Append(q, m) \in Seq(M)
    BY <1>4
  <2>2. /\ [status |-> "lost", queue |-> q] \in TopicsOf(M)
        /\ [status |-> s, queue |-> Append(q, m)] \in TopicsOf(M)
    BY <1>4, <2>1 DEF TopicsOf
  <2>3. QED
    BY <1>3, <2>2
<1>7. ASSUME q # <<>> PROVE Received(topic) \in TopicsOf(M) /\ Head(q) \in M
  <2>1. Tail(q) \in Seq(M) /\ Head(q) \in M
    BY <1>4, <1>7
  <2>2. QED
    BY <1>3, <1>4, <2>1 DEF TopicsOf
<1>8. QED
  BY <1>5, <1>6, <1>7 DEF q

LEMMA TopicWidens ==
    ASSUME NEW M, NEW W, M \subseteq W, NEW topic \in TopicsOf(M)
    PROVE  topic \in TopicsOf(W)
<1>1. Seq(M) \subseteq Seq(W)
  BY SeqMonotonic
<1>2. QED
  BY <1>1 DEF TopicsOf

-----------------------------------------------------------------------------
(***************************************************************************)
(* The graph of the listener.  Of a TF it has the first m edges; the first *)
(* k of them have heard the moments U, the others the moments T.           *)
(***************************************************************************)
Holds(g, m) ==
    /\ DOMAIN g.name_to_index = {World} \cup {Below(j) : j \in 1 .. m}
    /\ \A j \in 1 .. m :
          ParentOf(g, g.name_to_index[Below(j)]) = g.name_to_index[Above(j)]

BufferOf(g, j) == g.frames[g.name_to_index[Below(j)]].buffer

Moments(A, j, T) == [s \in T |-> ShownIn(A[s], j)]

Heeds(g, A, m, k, T, U) ==
    \A j \in 1 .. m : AsMap(BufferOf(g, j)) = Moments(A, j, IF j <= k THEN U ELSE T)

OneDuration(g) == \A i \in Indices(g) : g.frames[i].duration = g.duration

(* What one insertion leaves of the moments of an edge.                    *)
Left(T, t, d) == {v \in T \cup {t} : d <= 0 \/ \A u \in T \cup {t} : v >= u - d}

LEMMA MomentsInserted ==
    ASSUME NEW A, NEW j, NEW T, NEW deque \in Seq(Entries), StrictlySorted(deque),
           AsMap(deque) = Moments(A, j, T),
           NEW d \in Int, NEW t \in Instants, ShownIn(A[t], j) \in Transforms
    PROVE  AsMap(InsertInto(deque, d, t, ShownIn(A[t], j))) = Moments(A, j, Left(T, t, d))
<1> DEFINE x == ShownIn(A[t], j)
           map == MapWith(AsMap(deque), t, x)
<1>1. deque \in Seq(StampedBy(Transforms)) /\ t \in Int
  <2>1. Entries \subseteq StampedBy(Transforms)
    BY InstantsAreIntegers DEF Entries, StampedBy
  <2>2. QED
    BY <2>1, SeqMonotonic, InstantsAreIntegers
<1>2. AsMap(InsertInto(deque, d, t, x)) = MapWithin(map, d)
  BY <1>1, InsertIntoMap
<1>3. map = Moments(A, j, T \cup {t})
  BY DEF MapWith, Moments
<1> HIDE DEF map
<1>4. MapWithin(Moments(A, j, T \cup {t}), d) = Moments(A, j, Left(T, t, d))
  BY DEF MapWithin, Moments, Left
<1>5. QED
  BY <1>2, <1>3, <1>4

LEMMA HeldNames ==
    ASSUME NEW g, NEW m \in Nat, m <= LastEdge, Holds(g, m), NEW e \in Edges
    PROVE  /\ e - 1 <= m => Exists(g, Above(e))
           /\ e <= m <=> Exists(g, Below(e))
<1>1. /\ Len(Sent(Robot)) \in Nat /\ LastEdge \in Nat /\ Edges = 1 .. LastEdge
      /\ Below(e) # World
      /\ Above(e) = World \/ \E j \in 1 .. e - 1 : Above(e) = Below(j)
      /\ \A j \in Edges : Below(j) = Below(e) => j = e
  BY EdgesAre, LinksAreFrames DEF Edges, LastEdge
<1>2. DOMAIN g.name_to_index = {World} \cup {Below(j) : j \in 1 .. m}
  BY DEF Holds
<1>3. ASSUME e - 1 <= m PROVE Exists(g, Above(e))
  <2>1. CASE Above(e) = World
    BY <1>2, <2>1 DEF Exists
  <2>2. ASSUME NEW j \in 1 .. e - 1, Above(e) = Below(j) PROVE Exists(g, Above(e))
    <3>1. j \in 1 .. m
      BY <1>1, <1>3
    <3>2. QED
      BY <1>2, <2>2, <3>1 DEF Exists
  <2>3. QED
    BY <1>1, <2>1, <2>2
<1>4. ASSUME e <= m PROVE Exists(g, Below(e))
  <2>1. e \in 1 .. m
    BY <1>1, <1>4
  <2>2. QED
    BY <1>2, <2>1 DEF Exists
<1>5. ASSUME Exists(g, Below(e)) PROVE e <= m
  <2>1. PICK j \in 1 .. m : Below(e) = Below(j)
    BY <1>1, <1>2, <1>5 DEF Exists
  <2>2. j \in Edges
    BY <1>1
  <2>3. j = e
    BY <1>1, <2>1, <2>2
  <2>4. QED
    BY <2>1, <2>3
<1>6. QED
  BY <1>3, <1>4, <1>5

(* Two names are two frames.                                               *)
LEMMA FramesDiffer ==
    ASSUME NEW g, WellFormed(g), NEW a, NEW b, Exists(g, a), Exists(g, b),
           g.name_to_index[a] = g.name_to_index[b]
    PROVE  a = b
BY DEF WellFormed, NamesInverse, Exists

(* A TF again: the edge it repeats hears one more moment.                  *)
LEMMA EdgeIsHeard ==
    ASSUME NEW g, WellFormed(g), OneDuration(g), NEW A, NEW t \in 0 .. MaxClock,
           A[t] \in States, NEW T, NEW U, U = Left(T, t, g.duration),
           NEW e \in Edges, Holds(g, LastEdge), Heeds(g, A, LastEdge, e - 1, T, U)
    PROVE  LET u == Update(g, TFOf(A[t], t)[e])
           IN  /\ u.ok /\ WellFormed(u.graph) /\ OneDuration(u.graph)
               /\ u.graph.duration = g.duration
               /\ Holds(u.graph, LastEdge) /\ Heeds(u.graph, A, LastEdge, e, T, U)
<1> DEFINE msg == TFOf(A[t], t)[e]
           u == Update(g, msg)
           h == u.graph
           x == ShownIn(A[t], e)
           c == g.name_to_index[Below(e)]
<1>1. /\ msg \in Messages /\ msg.frame_id = Above(e) /\ msg.child_frame_id = Below(e)
      /\ msg.stamp = t /\ msg.transform = x
      /\ x \in Transforms /\ t \in Instants
  BY TFIsTyped, ShownIsTransform, TimesAreStamps
<1>2. LastEdge \in Nat /\ Edges = 1 .. LastEdge /\ e <= LastEdge /\ e - 1 <= LastEdge
  BY EdgesAre DEF Edges, LastEdge
<1> HIDE DEF msg
<1>3. Exists(g, Above(e)) /\ Exists(g, Below(e))
  BY <1>2, HeldNames
<1>4. ParentOf(g, c) = g.name_to_index[Above(e)]
  BY <1>2 DEF Holds
<1>5. u.ok = TRUE /\ WellFormed(h)
  BY <1>1, <1>3, <1>4, UpdateAccepts, UpdateKeeps
<1>6. /\ h.duration = g.duration
      /\ \A i \in Indices(g) : ParentOf(h, i) = ParentOf(g, i)
      /\ c \in Indices(g) \ {RootIndex}
      /\ Heard(g, h, c, t, x)
  BY <1>1, <1>3, <1>5, UpdateShape
<1> HIDE DEF u, h, x
<1>7. /\ h.name_to_index = g.name_to_index
      /\ Len(h.frames) = Len(g.frames) /\ Indices(h) = Indices(g)
      /\ \A i \in Indices(g) : /\ h.frames[i].duration = g.frames[i].duration
                               /\ i # c => h.frames[i] = g.frames[i]
      /\ h.frames[c].buffer = InsertInto(g.frames[c].buffer, g.frames[c].duration, t, x)
  BY <1>6 DEF Heard, Indices
<1>8. \A a \in DOMAIN g.name_to_index : g.name_to_index[a] \in Indices(g)
  BY DEF WellFormed, Typed
<1>9. \A j \in Edges : Exists(g, Below(j)) /\ Exists(g, Above(j))
  <2> TAKE j \in Edges
  <2>1. j <= LastEdge /\ j - 1 <= LastEdge
    BY <1>2
  <2>2. QED
    BY <1>2, <2>1, HeldNames
<1>10. OneDuration(h)
  BY <1>6, <1>7 DEF OneDuration
<1>11. Holds(h, LastEdge)
  <2>1. DOMAIN g.name_to_index = {World} \cup {Below(j) : j \in 1 .. LastEdge}
    BY DEF Holds
  <2>2. ASSUME NEW j \in 1 .. LastEdge
        PROVE  ParentOf(h, h.name_to_index[Below(j)]) = h.name_to_index[Above(j)]
    <3>1. ParentOf(g, g.name_to_index[Below(j)]) = g.name_to_index[Above(j)]
      BY <1>2 DEF Holds
    <3>2. g.name_to_index[Below(j)] \in Indices(g)
      BY <1>2, <1>8, <1>9 DEF Exists
    <3>3. QED
      BY <1>6, <1>7, <3>1, <3>2
  <2>3. QED
    BY <1>7, <2>1, <2>2 DEF Holds
<1>12. Heeds(h, A, LastEdge, e, T, U)
  <2> SUFFICES ASSUME NEW j \in 1 .. LastEdge
               PROVE  AsMap(BufferOf(h, j)) = Moments(A, j, IF j <= e THEN U ELSE T)
    BY DEF Heeds
  <2>1. AsMap(BufferOf(g, j)) = Moments(A, j, IF j <= e - 1 THEN U ELSE T)
    BY DEF Heeds
  <2>2. CASE j = e
    <3>1. AsMap(g.frames[c].buffer) = Moments(A, e, T)
      BY <1>2, <2>1, <2>2 DEF BufferOf
    <3>2. /\ g.frames[c].buffer \in Seq(Entries) /\ StrictlySorted(g.frames[c].buffer)
          /\ g.frames[c].duration = g.duration /\ g.duration \in Int
      BY <1>6, FrameAndList, GraphMembers DEF WellFormed, EdgesCarryData, OneDuration
    <3>3. AsMap(InsertInto(g.frames[c].buffer, g.duration, t, x)) = Moments(A, e, U)
      <4> DEFINE deque == g.frames[c].buffer
                 d     == g.duration
      <4>1. /\ deque \in Seq(Entries) /\ StrictlySorted(deque)
            /\ AsMap(deque) = Moments(A, e, T) /\ d \in Int
            /\ ShownIn(A[t], e) \in Transforms /\ t \in Instants
        BY <1>1, <3>1, <3>2 DEF x
      <4>2. U = Left(T, t, d)
        OBVIOUS
      <4> HIDE DEF deque, d
      <4>3. AsMap(InsertInto(deque, d, t, ShownIn(A[t], e))) = Moments(A, e, Left(T, t, d))
        BY <4>1, MomentsInserted
      <4>4. QED
        BY <4>2, <4>3 DEF deque, d, x
    <3>4. BufferOf(h, j) = InsertInto(g.frames[c].buffer, g.duration, t, x)
      BY <1>7, <2>2, <3>2 DEF BufferOf
    <3>5. QED
      BY <1>2, <2>2, <3>3, <3>4
  <2>3. CASE j # e
    <3>1. g.name_to_index[Below(j)] # c
      BY <1>2, <1>3, <1>9, <2>3, FramesDiffer, EdgesAre
    <3>2. g.name_to_index[Below(j)] \in Indices(g)
      BY <1>2, <1>8, <1>9 DEF Exists
    <3>3. BufferOf(h, j) = BufferOf(g, j)
      BY <1>7, <3>1, <3>2 DEF BufferOf
    <3>4. j <= e <=> j <= e - 1
      BY <1>2, <2>3
    <3>5. QED
      BY <2>1, <3>3, <3>4
  <2>4. QED
    BY <2>2, <2>3
<1>13. QED
  BY <1>5, <1>6, <1>10, <1>11, <1>12 DEF u, h, msg

LEMMA AllHeed ==
    ASSUME NEW g, NEW A, NEW m \in Nat, NEW T, NEW U
    PROVE  /\ Heeds(g, A, m, m, T, U)
                <=> \A j \in 1 .. m : AsMap(BufferOf(g, j)) = Moments(A, j, U)
           /\ Heeds(g, A, m, 0, T, U)
                <=> \A j \in 1 .. m : AsMap(BufferOf(g, j)) = Moments(A, j, T)
<1>1. ASSUME NEW j \in 1 .. m PROVE (IF j <= m THEN U ELSE T) = U /\ (IF j <= 0 THEN U ELSE T) = T
  OBVIOUS
<1>2. /\ \A j \in 1 .. m : Moments(A, j, IF j <= m THEN U ELSE T) = Moments(A, j, U)
      /\ \A j \in 1 .. m : Moments(A, j, IF j <= 0 THEN U ELSE T) = Moments(A, j, T)
  BY <1>1, Zenon
<1>3. QED
  BY <1>2, Zenon DEF Heeds

(* The first TF: each edge is a new frame, below one that is known.        *)
LEMMA EdgeIsNew ==
    ASSUME NEW g, WellFormed(g), OneDuration(g), NEW A, NEW t \in 0 .. MaxClock,
           A[t] \in States, NEW U, U = Left({}, t, g.duration),
           NEW e \in Edges, Holds(g, e - 1), Heeds(g, A, e - 1, e - 1, {}, U)
    PROVE  LET u == Update(g, TFOf(A[t], t)[e])
           IN  /\ u.ok /\ WellFormed(u.graph) /\ OneDuration(u.graph)
               /\ u.graph.duration = g.duration
               /\ Holds(u.graph, e) /\ Heeds(u.graph, A, e, e, {}, U)
<1> DEFINE msg == TFOf(A[t], t)[e]
           u == Update(g, msg)
           h == u.graph
           x == ShownIn(A[t], e)
           p == g.name_to_index[Above(e)]
           new == Len(g.frames) + 1
<1>1. /\ msg \in Messages /\ msg.frame_id = Above(e) /\ msg.child_frame_id = Below(e)
      /\ msg.stamp = t /\ msg.transform = x
      /\ x \in Transforms /\ t \in Instants
  BY TFIsTyped, ShownIsTransform, TimesAreStamps
<1>2. /\ Len(Sent(Robot)) \in Nat /\ LastEdge \in Nat /\ Edges = 1 .. LastEdge
      /\ e \in Nat /\ e >= 1 /\ e - 1 \in Nat /\ e - 1 <= LastEdge
      /\ \A j \in 1 .. e - 1 : j \in Edges /\ j - 1 <= e - 1 /\ j # e
      /\ \A j \in 1 .. e : j \in 1 .. e - 1 \/ j = e
  BY EdgesAre DEF Edges, LastEdge
<1> HIDE DEF msg
<1>3. Exists(g, Above(e)) /\ ~Exists(g, Below(e))
  BY <1>2, HeldNames
<1>4. u.ok = TRUE /\ WellFormed(h)
  BY <1>1, <1>3, UpdateAccepts, UpdateKeeps
<1>5. /\ h.duration = g.duration
      /\ \A i \in Indices(g) : ParentOf(h, i) = ParentOf(g, i)
      /\ p \in Indices(g)
      /\ Grown(g, h, p, Below(e), t, x)
  BY <1>1, <1>3, <1>4, UpdateShape
<1>6. Indices(g) = 1 .. Len(g.frames) /\ Len(g.frames) \in Nat /\ g.duration \in Int
  BY GraphMembers DEF WellFormed
<1> HIDE DEF u, h, x
<1>7. /\ h.name_to_index = [k \in DOMAIN g.name_to_index \cup {Below(e)} |->
                              IF k = Below(e) THEN new ELSE g.name_to_index[k]]
      /\ Indices(h) = 1 .. new
      /\ \A i \in Indices(g) : h.frames[i] = g.frames[i]
      /\ h.frames[new].duration = g.duration
      /\ h.frames[new].buffer = InsertInto(<<>>, g.duration, t, x)
      /\ ParentOf(h, new) = p
  BY <1>5 DEF Grown, Indices
<1>8. \A i \in 1 .. new : i \in Indices(g) \/ i = new
  BY <1>6
<1> HIDE DEF new
<1>9. OneDuration(h)
  BY <1>5, <1>7, <1>8 DEF OneDuration
<1>10. /\ h.name_to_index[Below(e)] = new
       /\ DOMAIN h.name_to_index = DOMAIN g.name_to_index \cup {Below(e)}
       /\ \A k \in DOMAIN g.name_to_index :
             /\ h.name_to_index[k] = g.name_to_index[k]
             /\ g.name_to_index[k] \in Indices(g)
  BY <1>3, <1>7 DEF WellFormed, Typed, Exists
<1>11. \A j \in 1 .. e - 1 : Exists(g, Below(j)) /\ Exists(g, Above(j))
  <2> TAKE j \in 1 .. e - 1
  <2>1. j \in Edges /\ j <= e - 1 /\ j - 1 <= e - 1
    BY <1>2
  <2>2. QED
    BY <1>2, <2>1, HeldNames
<1>12. Holds(h, e)
  <2>1. DOMAIN h.name_to_index = {World} \cup {Below(j) : j \in 1 .. e}
    <3>1. DOMAIN g.name_to_index = {World} \cup {Below(j) : j \in 1 .. e - 1}
      BY DEF Holds
    <3>2. e \in 1 .. e /\ 1 .. e - 1 \subseteq 1 .. e
      BY <1>2
    <3>3. QED
      BY <1>2, <1>10, <3>1, <3>2
  <2>2. ASSUME NEW j \in 1 .. e
        PROVE  ParentOf(h, h.name_to_index[Below(j)]) = h.name_to_index[Above(j)]
    <3>1. CASE j \in 1 .. e - 1
      <4>1. ParentOf(g, g.name_to_index[Below(j)]) = g.name_to_index[Above(j)]
        BY <3>1 DEF Holds
      <4>2. QED
        BY <1>5, <1>10, <1>11, <3>1, <4>1 DEF Exists
    <3>2. CASE j = e
      BY <1>3, <1>7, <1>10, <3>2 DEF Exists
    <3>3. QED
      BY <1>2, <3>1, <3>2
  <2>3. QED
    BY <2>1, <2>2 DEF Holds
<1>13. Heeds(h, A, e, e, {}, U)
  <2> SUFFICES ASSUME NEW j \in 1 .. e PROVE AsMap(BufferOf(h, j)) = Moments(A, j, U)
    BY <1>2, AllHeed
  <2>1. CASE j \in 1 .. e - 1
    <3>1. AsMap(BufferOf(g, j)) = Moments(A, j, U)
      <4>1. ASSUME NEW m \in Nat, NEW T, Heeds(g, A, m, m, T, U), j \in 1 .. m
            PROVE  AsMap(BufferOf(g, j)) = Moments(A, j, U)
        BY <4>1, AllHeed
      <4>2. QED
        BY <1>2, <2>1, <4>1, Zenon
    <3>2. BufferOf(h, j) = BufferOf(g, j)
      BY <1>7, <1>10, <1>11, <2>1 DEF BufferOf, Exists
    <3>3. QED
      BY <3>1, <3>2
  <2>2. CASE j = e
    <3>1. BufferOf(h, j) = InsertInto(<<>>, g.duration, t, x)
      BY <1>7, <1>10, <2>2 DEF BufferOf
    <3>2. /\ <<>> \in Seq(Entries) /\ StrictlySorted(<<>>)
          /\ AsMap(<<>>) = Moments(A, e, {})
      BY DEF StrictlySorted, AsMap, Stamps, Moments
    <3>3. ShownIn(A[t], e) \in Transforms
      BY <1>1 DEF x
    <3>4. AsMap(InsertInto(<<>>, g.duration, t, ShownIn(A[t], e)))
            = Moments(A, e, Left({}, t, g.duration))
      <4>1. ASSUME NEW deque, deque = <<>>
            PROVE  AsMap(InsertInto(deque, g.duration, t, ShownIn(A[t], e)))
                     = Moments(A, e, Left({}, t, g.duration))
        <5>1. deque \in Seq(Entries) /\ StrictlySorted(deque)
              /\ AsMap(deque) = Moments(A, e, {})
          BY <3>2, <4>1
        <5>2. QED
          BY <1>1, <1>6, <3>3, <5>1, MomentsInserted
      <4>2. QED
        BY <4>1
    <3>5. QED
      BY <2>2, <3>1, <3>4 DEF x
  <2>3. QED
    BY <1>2, <2>1, <2>2
<1>14. QED
  BY <1>4, <1>5, <1>9, <1>12, <1>13 DEF u, h, msg

-----------------------------------------------------------------------------
(***************************************************************************)
(* A whole TF: nothing of it is refused, and every edge hears its stamp.   *)
(***************************************************************************)
IsUpdating(g, transforms, m, f) ==
    f = [k \in 0 .. m |->
            IF k = 0 THEN Accepted(g)
            ELSE LET before == f[k - 1]
                 IN  IF before.ok THEN Update(before.graph, transforms[k]) ELSE before]

LEMMA UpdatingExists ==
    ASSUME NEW g, NEW transforms
    PROVE  \A m \in Nat : \E f : IsUpdating(g, transforms, m, f)
<1> DEFINE Step(k, before) ==
               IF k = 0 THEN Accepted(g)
               ELSE IF before.ok THEN Update(before.graph, transforms[k]) ELSE before
           S == {m \in Nat : \E f : f = [k \in 0 .. m |-> Step(k, f[k - 1])]}
<1>0. ASSUME NEW b, NEW c PROVE Step(0, b) = Step(0, c)
  OBVIOUS
<1> HIDE DEF Step
<1>1. 0 \in S
  <2> DEFINE f == [k \in 0 .. 0 |-> Step(0, g)]
             zeroth == [k \in 0 .. 0 |-> Step(k, f[k - 1])]
  <2>1. f[0] = zeroth[0]
    BY <1>0
  <2>2. f = zeroth
    BY <2>1
  <2>3. QED
    BY <2>2
<1>2. ASSUME NEW m \in Nat, m \in S PROVE m + 1 \in S
  <2>1. PICK f : f = [k \in 0 .. m |-> Step(k, f[k - 1])]
    BY <1>2
  <2> DEFINE h == [k \in 0 .. m + 1 |-> IF k = m + 1 THEN Step(m + 1, f[m]) ELSE f[k]]
  <2>2. ASSUME NEW k \in 0 .. m + 1 PROVE h[k] = Step(k, h[k - 1])
    <3>1. CASE k = m + 1
      <4>1. m \in 0 .. m + 1 /\ k - 1 = m /\ m # m + 1
        BY <3>1
      <4>2. h[k] = Step(m + 1, f[m]) /\ h[m] = f[m]
        BY <3>1, <4>1
      <4> HIDE DEF h
      <4>3. QED
        BY <3>1, <4>1, <4>2
    <3>2. CASE k = 0
      <4>1. h[k] = f[k] /\ k \in 0 .. m /\ k # m + 1
        BY <3>2
      <4>2. f[k] = Step(k, f[k - 1])
        BY <2>1, <4>1
      <4> HIDE DEF h
      <4>3. QED
        BY <1>0, <3>2, <4>1, <4>2
    <3>3. CASE k # m + 1 /\ k # 0
      <4>1. k \in 0 .. m /\ h[k] = f[k] /\ k - 1 \in 0 .. m + 1 /\ k - 1 # m + 1
        BY <3>3
      <4>2. h[k - 1] = f[k - 1]
        BY <4>1
      <4>3. f[k] = Step(k, f[k - 1])
        BY <2>1, <4>1
      <4> HIDE DEF h
      <4>4. QED
        BY <4>1, <4>2, <4>3
    <3>4. QED
      BY <3>1, <3>2, <3>3
  <2>3. h = [k \in 0 .. m + 1 |-> h[k]]
    OBVIOUS
  <2> HIDE DEF h
  <2>4. h = [k \in 0 .. m + 1 |-> Step(k, h[k - 1])]
    BY <2>2, <2>3
  <2>5. QED
    BY <2>4
<1> HIDE DEF S
<1>3. Nat \subseteq S
  BY <1>1, <1>2, SetInduction
<1>4. QED
  BY <1>3 DEF S, IsUpdating, Step

LEMMA UpdatingSteps ==
    ASSUME NEW g, NEW transforms, NEW n \in Nat, n = Len(transforms)
    PROVE  \E f : /\ UpdateAll(g, transforms) = f[n]
                  /\ f[0] = Accepted(g)
                  /\ \A k \in 1 .. n :
                        f[k - 1].ok => f[k] = Update(f[k - 1].graph, transforms[k])
<1> DEFINE f == CHOOSE h : IsUpdating(g, transforms, n, h)
<1>1. UpdateAll(g, transforms) = f[n]
  BY DEF UpdateAll, IsUpdating
<1>2. IsUpdating(g, transforms, n, f)
  BY UpdatingExists
<1> HIDE DEF f
<1>3. f[0] = Accepted(g)
  <2>1. 0 \in 0 .. n
    OBVIOUS
  <2>2. QED
    BY <1>2, <2>1 DEF IsUpdating
<1>4. ASSUME NEW k \in 1 .. n, f[k - 1].ok
      PROVE  f[k] = Update(f[k - 1].graph, transforms[k])
  <2>1. k \in 0 .. n /\ k # 0
    OBVIOUS
  <2>2. QED
    BY <1>2, <1>4, <2>1 DEF IsUpdating
<1>5. QED
  BY <1>1, <1>3, <1>4

Whole(u, A, m, k, T, U, d) ==
    /\ u.ok /\ WellFormed(u.graph) /\ OneDuration(u.graph)
    /\ u.graph.duration = d
    /\ Holds(u.graph, m) /\ Heeds(u.graph, A, m, k, T, U)

LEMMA FirstTF ==
    ASSUME NEW g, WellFormed(g), OneDuration(g), NEW A, NEW t \in 0 .. MaxClock,
           A[t] \in States, Holds(g, 0)
    PROVE  Whole(UpdateAll(g, TFOf(A[t], t)), A, LastEdge, LastEdge,
                 {}, Left({}, t, g.duration), g.duration)
<1> DEFINE all == TFOf(A[t], t)
           d == g.duration
           U == Left({}, t, d)
<1>1. LastEdge \in Nat /\ Edges = 1 .. LastEdge /\ Len(all) = LastEdge
  BY EdgesAre, TFIsTyped DEF Edges, LastEdge
<1> HIDE DEF all
<1>2. PICK f : /\ UpdateAll(g, all) = f[LastEdge]
               /\ f[0] = Accepted(g)
               /\ \A k \in 1 .. LastEdge : f[k - 1].ok => f[k] = Update(f[k - 1].graph, all[k])
  BY <1>1, UpdatingSteps
<1> HIDE DEF U, d
<1> DEFINE S == {k \in Nat : k <= LastEdge => Whole(f[k], A, k, k, {}, U, d)}
<1>3. 0 \in S
  <2>1. f[0].ok = TRUE /\ f[0].graph = g
    BY <1>2 DEF Accepted
  <2>2. Heeds(g, A, 0, 0, {}, U)
    BY DEF Heeds
  <2>3. QED
    BY <2>1, <2>2 DEF Whole, d
<1>4. ASSUME NEW k \in Nat, k \in S PROVE k + 1 \in S
  <2> SUFFICES ASSUME k + 1 <= LastEdge PROVE Whole(f[k + 1], A, k + 1, k + 1, {}, U, d)
    OBVIOUS
  <2> DEFINE e == k + 1
             q == f[k].graph
  <2>1. e \in Edges /\ e - 1 = k /\ k <= LastEdge
    BY <1>1
  <2>2. Whole(f[k], A, k, k, {}, U, d)
    BY <1>4, <2>1
  <2>3. f[e] = Update(q, all[e])
    BY <1>1, <1>2, <2>1, <2>2 DEF Whole
  <2> HIDE DEF e
  <2>4. /\ WellFormed(q) /\ OneDuration(q) /\ q.duration = d /\ U = Left({}, t, q.duration)
        /\ Holds(q, e - 1) /\ Heeds(q, A, e - 1, e - 1, {}, U)
    BY <2>1, <2>2 DEF Whole, U
  <2> HIDE DEF q
  <2>5. Whole(f[e], A, e, e, {}, U, d)
    BY <2>1, <2>3, <2>4, EdgeIsNew DEF Whole, all
  <2>6. QED
    BY <2>5 DEF e
<1> HIDE DEF S
<1>5. LastEdge \in S
  BY <1>1, <1>3, <1>4, SetInduction
<1>6. QED
  BY <1>1, <1>2, <1>5 DEF S, all, U, d

LEMMA LaterEdge ==
    ASSUME NEW r, NEW A, NEW t \in 0 .. MaxClock, A[t] \in States, NEW T, NEW d,
           NEW e \in Edges, Whole(r, A, LastEdge, e - 1, T, Left(T, t, d), d)
    PROVE  Whole(Update(r.graph, TFOf(A[t], t)[e]), A, LastEdge, e, T, Left(T, t, d), d)
<1> DEFINE q == r.graph
<1>1. /\ WellFormed(q) /\ OneDuration(q) /\ q.duration = d
      /\ Holds(q, LastEdge) /\ Heeds(q, A, LastEdge, e - 1, T, Left(T, t, d))
  BY DEF Whole
<1> HIDE DEF q
<1>2. LET u == Update(q, TFOf(A[t], t)[e])
      IN  /\ u.ok /\ WellFormed(u.graph) /\ OneDuration(u.graph)
          /\ u.graph.duration = q.duration
          /\ Holds(u.graph, LastEdge) /\ Heeds(u.graph, A, LastEdge, e, T, Left(T, t, d))
  BY <1>1, EdgeIsHeard
<1>3. QED
  BY <1>1, <1>2 DEF Whole, q

LEMMA LaterTF ==
    ASSUME NEW g, WellFormed(g), OneDuration(g), NEW A, NEW t \in 0 .. MaxClock,
           A[t] \in States, NEW T, Holds(g, LastEdge),
           \A j \in 1 .. LastEdge : AsMap(BufferOf(g, j)) = Moments(A, j, T)
    PROVE  Whole(UpdateAll(g, TFOf(A[t], t)), A, LastEdge, LastEdge,
                 T, Left(T, t, g.duration), g.duration)
<1> DEFINE all == TFOf(A[t], t)
           d == g.duration
           U == Left(T, t, d)
<1>1. LastEdge \in Nat /\ Edges = 1 .. LastEdge /\ Len(all) = LastEdge
  BY EdgesAre, TFIsTyped DEF Edges, LastEdge
<1>2. Heeds(g, A, LastEdge, 0, T, U)
  BY <1>1, AllHeed
<1> HIDE DEF all
<1>3. PICK f : /\ UpdateAll(g, all) = f[LastEdge]
               /\ f[0] = Accepted(g)
               /\ \A k \in 1 .. LastEdge : f[k - 1].ok => f[k] = Update(f[k - 1].graph, all[k])
  BY <1>1, UpdatingSteps
<1> HIDE DEF U, d
<1> DEFINE S == {k \in Nat : k <= LastEdge => Whole(f[k], A, LastEdge, k, T, U, d)}
<1>4. 0 \in S
  <2>1. f[0].ok = TRUE /\ f[0].graph = g
    BY <1>3 DEF Accepted
  <2>2. QED
    BY <1>2, <2>1 DEF Whole, d
<1>5. ASSUME NEW k \in Nat, k \in S PROVE k + 1 \in S
  <2> SUFFICES ASSUME k + 1 <= LastEdge PROVE Whole(f[k + 1], A, LastEdge, k + 1, T, U, d)
    OBVIOUS
  <2> DEFINE e == k + 1
  <2>1. e \in Edges /\ e - 1 = k /\ k <= LastEdge
    BY <1>1
  <2>2. Whole(f[k], A, LastEdge, k, T, U, d)
    BY <1>5, <2>1
  <2>3. f[e] = Update(f[k].graph, all[e])
    BY <1>1, <1>3, <2>1, <2>2 DEF Whole
  <2> HIDE DEF e
  <2>4. Whole(f[e], A, LastEdge, e, T, U, d)
    <3>1. Whole(f[k], A, LastEdge, e - 1, T, Left(T, t, d), d)
      BY <2>1, <2>2 DEF U
    <3>2. Whole(Update(f[k].graph, TFOf(A[t], t)[e]), A, LastEdge, e, T, Left(T, t, d), d)
      BY <2>1, <3>1, LaterEdge
    <3>3. QED
      BY <2>3, <3>2 DEF all, U
  <2>5. QED
    BY <2>4 DEF e
<1> HIDE DEF S
<1>6. LastEdge \in S
  BY <1>1, <1>4, <1>5, SetInduction
<1>7. QED
  BY <1>1, <1>3, <1>6 DEF S, all, U, d

(* The graph of a listener: nothing yet, or the edges of the robot, all    *)
(* with the same moments.                                                  *)
Shows(g, A) ==
    /\ WellFormed(g)
    /\ OneDuration(g)
    /\ \/ Holds(g, 0)
       \/ /\ Holds(g, LastEdge)
          /\ \E T \in SUBSET DOMAIN A :
                \A j \in Edges : AsMap(BufferOf(g, j)) = Moments(A, j, T)

LEMMA TFShown ==
    ASSUME NEW g, NEW A, Shows(g, A), NEW t \in 0 .. MaxClock, t \in DOMAIN A,
           A[t] \in States
    PROVE  LET u == UpdateAll(g, TFOf(A[t], t))
           IN  u.ok /\ Shows(u.graph, A) /\ Holds(u.graph, LastEdge)
<1> DEFINE u == UpdateAll(g, TFOf(A[t], t))
<1>1. LastEdge \in Nat /\ Edges = 1 .. LastEdge
  BY EdgesAre DEF Edges, LastEdge
<1>2. WellFormed(g) /\ OneDuration(g)
  BY DEF Shows
<1>3. ASSUME NEW T, NEW U, U \in SUBSET DOMAIN A, Whole(u, A, LastEdge, LastEdge, T, U, g.duration)
      PROVE  u.ok /\ Shows(u.graph, A) /\ Holds(u.graph, LastEdge)
  <2>1. u.ok /\ WellFormed(u.graph) /\ OneDuration(u.graph) /\ Holds(u.graph, LastEdge)
    BY <1>3 DEF Whole
  <2>2. Heeds(u.graph, A, LastEdge, LastEdge, T, U)
    BY <1>3 DEF Whole
  <2> HIDE DEF u
  <2>3. \A j \in 1 .. LastEdge : AsMap(BufferOf(u.graph, j)) = Moments(A, j, U)
    BY <1>1, <2>2, AllHeed
  <2>4. QED
    BY <1>1, <1>3, <2>1, <2>3 DEF Shows
<1>4. ASSUME NEW T \in SUBSET DOMAIN A
      PROVE  Left(T, t, g.duration) \in SUBSET DOMAIN A /\ Left({}, t, g.duration) \in SUBSET DOMAIN A
  BY DEF Left
<1>5. CASE Holds(g, 0)
  BY <1>2, <1>3, <1>4, <1>5, FirstTF
<1>6. ASSUME Holds(g, LastEdge), NEW T \in SUBSET DOMAIN A,
             \A j \in Edges : AsMap(BufferOf(g, j)) = Moments(A, j, T)
      PROVE  u.ok /\ Shows(u.graph, A) /\ Holds(u.graph, LastEdge)
  <2>1. Whole(u, A, LastEdge, LastEdge, T, Left(T, t, g.duration), g.duration)
    BY <1>1, <1>2, <1>6, LaterTF
  <2>2. QED
    BY <1>3, <1>4, <2>1
<1>7. QED
  BY <1>5, <1>6 DEF Shows

(* What is announced later changes nothing of what is shown.               *)
LEMMA ShownStays ==
    ASSUME NEW g, NEW A, NEW B, DOMAIN A \subseteq DOMAIN B,
           \A t \in DOMAIN A : B[t] = A[t], Shows(g, A)
    PROVE  Shows(g, B)
<1>1. ASSUME NEW T \in SUBSET DOMAIN A, NEW j PROVE Moments(A, j, T) = Moments(B, j, T)
  <2>1. \A s \in T : B[s] = A[s]
    OBVIOUS
  <2>2. QED
    BY <2>1 DEF Moments
<1>2. QED
  BY <1>1 DEF Shows

-----------------------------------------------------------------------------
(***************************************************************************)
(* The inductive invariant.  Everything in flight was announced: what the  *)
(* first topic holds are announced states, what the second holds are TFs   *)
(* of announced states with their stamps, and the graph shows such TFs.    *)
(***************************************************************************)
AnnouncedJS(A) == {GetJointStates(Robot, A[t], t) : t \in DOMAIN A}

AnnouncedTF(A) == {TFOf(A[t], t) : t \in DOMAIN A}

Announcements(A) == DOMAIN A \subseteq 1 .. MaxClock /\ \A t \in DOMAIN A : A[t] \in States

IInv ==
    /\ clock \in 1 .. MaxClock
    /\ merged \in States
    /\ states \in States
    /\ last_publish_time \in 0 .. MaxClock
    /\ Announcements(announced)
    /\ joint_states \in TopicsOf(AnnouncedJS(announced))
    /\ tf \in TopicsOf(AnnouncedTF(announced))
    /\ Shows(graph, announced)

LEMMA SourceMoves ==
    ASSUME NEW st \in States, NEW n, NEW v \in 0 .. MaxDrives, NEW now
    PROVE  SetState(Robot, st, JS(now, <<JointState(n, v)>>)) \in States
<1> DEFINE list == <<JointState(n, v)>>
           Named(k) == {i \in DOMAIN list : list[i].name = k}
           h == SetState(Robot, st, JS(now, list))
<1>1. DOMAIN list = {1} /\ list[1].value = v
  BY DEF JointState
<1>2. \A k : Named(k) = {} \/ Named(k) = {1}
  BY <1>1
<1>3. Max({1}) = 1
  <2>1. {1} \in SUBSET Int /\ 1 \in {1} /\ \A y \in {1} : y <= 1
    OBVIOUS
  <2>2. QED
    BY <2>1, MaxIs
<1>4. h = [k \in DOMAIN st |-> IF Named(k) = {} \/ IsMimic(Robot.joints[k]) THEN st[k]
                               ELSE list[Max(Named(k))].value]
  BY DEF SetState, JS
<1>5. DOMAIN st = DOMAIN Robot.joints /\ \A k \in DOMAIN st : st[k] \in 0 .. MaxDrives
  BY DEF States
<1> HIDE DEF list, Named, h
<1>6. \A k \in DOMAIN st : Named(k) # {} => list[Max(Named(k))].value = v
  BY <1>1, <1>2, <1>3
<1>7. h \in States
  BY <1>4, <1>5, <1>6 DEF States
<1>8. QED
  BY <1>7 DEF h, list

(* The publishers use the operators of RobotState and Topic.               *)
LEMMA SameStates ==
    /\ \A model, st, js : JSP!SetState(model, st, js) = SetState(model, st, js)
    /\ \A model, st, js : RSP!SetState(model, st, js) = SetState(model, st, js)
BY DEF SetState, JSP!SetState, RSP!SetState, IsMimic, JSP!IsMimic, RSP!IsMimic, Max, JSP!Max, RSP!Max

LEMMA SameTopics ==
    /\ \A topic, m : JSP!Publish(topic, m) = Publish(topic, m)
    /\ \A topic, m : RSP!Publish(topic, m) = Publish(topic, m)
BY DEF Publish, JSP!Publish, RSP!Publish

LEMMA SameSizes == \A S : JSP!Cardinality(S) = Cardinality(S) /\ RSP!Cardinality(S) = Cardinality(S)
BY DEF Cardinality, JSP!Cardinality, RSP!Cardinality

LEMMA SameReadings ==
    \A model, st, now : JSP!GetJointStates(model, st, now) = GetJointStates(model, st, now)
<1>1. \A model, st : JSP!ReadStates(model, st) = ReadStates(model, st)
  BY SameSizes DEF ReadStates, JSP!ReadStates, IsMimic, JSP!IsMimic
<1>2. \A S : JSP!SetToSeq(S) = SetToSeq(S)
  BY SameSizes DEF SetToSeq, JSP!SetToSeq, IsInjective, JSP!IsInjective
<1>3. QED
  BY <1>1, <1>2 DEF GetJointStates, JSP!GetJointStates, JS, JSP!JS, JointState, JSP!JointState

LEMMA SameTransforms ==
    \A model, st, now : RSP!GetTransforms(model, st, now) = GetTransforms(model, st, now)
<1>1. \A a, b : RSP!FoundIn(a, b) = FoundIn(a, b)
  BY DEF FoundIn, RSP!FoundIn
<1>2. \A m, l : RSP!ChildJoints(m, l) = ChildJoints(m, l)
  BY <1>1 DEF ChildJoints, RSP!ChildJoints
<1>3. \A m, w : RSP!Visit(m, w) = Visit(m, w)
  BY <1>1, <1>2 DEF Visit, RSP!Visit, ChildLinks, RSP!ChildLinks, Last, RSP!Last, Front, RSP!Front
<1>4. \A m, k : RSP!Walk(m, k) = Walk(m, k)
  BY <1>3, ZenonT(60) DEF Walk, RSP!Walk
<1>5. \A m : RSP!Sent(m) = Sent(m)
  BY <1>4, SameSizes DEF Sent, RSP!Sent, IsValid, RSP!IsValid, Visits, RSP!Visits
<1>6. QED
  BY <1>5 DEF GetTransforms, RSP!GetTransforms, IsValid, RSP!IsValid,
       TransformStamped, RSP!TransformStamped, SentTransform, RSP!SentTransform,
       Origin, RSP!Origin, AtRest, RSP!AtRest, IsMimic, RSP!IsMimic

LEMMA InitEstablishes == Init => IInv
<1> SUFFICES ASSUME Init PROVE IInv
  OBVIOUS
<1>1. 0 \in 0 .. MaxDrives /\ clock \in 1 .. MaxClock /\ 0 \in 0 .. MaxClock
  BY ClockBounds DEF Init
<1>2. merged \in States /\ states \in States /\ last_publish_time \in 0 .. MaxClock
  BY <1>1 DEF Init, JSP!Init, RSP!Init, States, JSP!AtRest, RSP!AtRest
<1>3. Announcements(announced)
  BY DEF Init, Announcements
<1>4. NoConnection \in TopicsOf(AnnouncedJS(announced)) /\ NoConnection \in TopicsOf(AnnouncedTF(announced))
  BY DEF NoConnection, TopicsOf
<1>5. joint_states = NoConnection /\ tf = NoConnection
  BY DEF Init, JSP!Init, RSP!Init, NoConnection, JSP!NoConnection, RSP!NoConnection
<1>6. Shows(graph, announced)
  <2>1. PICK d \in Durations : graph = NewGraph(Root, d)
    BY DEF Init
  <2>2. WellFormed(graph)
    BY <2>1, NewGraphWellFormed
  <2>3. OneDuration(graph)
    BY <2>1 DEF NewGraph, NewFrame, OneDuration, Indices
  <2>4. DOMAIN graph.name_to_index = {World}
    BY <2>1, WorldIsTheRoot DEF NewGraph
  <2>5. Holds(graph, 0)
    BY <2>4 DEF Holds
  <2>6. QED
    BY <2>2, <2>3, <2>5 DEF Shows
<1>7. QED
  BY <1>1, <1>2, <1>3, <1>4, <1>5, <1>6 DEF IInv

(* One step of the three nodes.  What is in flight widens when a state is  *)
(* announced, and nothing that was announced changes.                      *)
LEMMA TimerKeeps ==
    ASSUME IInv, TimerFires
    PROVE  IInv'
<1> DEFINE js == GetJointStates(Robot, merged, clock)
<1>1. /\ clock \in 1 .. MaxClock /\ merged \in States /\ clock \notin DOMAIN announced
      /\ Announcements(announced)
      /\ joint_states \in TopicsOf(AnnouncedJS(announced))
      /\ tf \in TopicsOf(AnnouncedTF(announced))
      /\ Shows(graph, announced)
  BY DEF IInv, TimerFires, TimerIsDue
<1>2. /\ joint_states' = Publish(joint_states, js)
      /\ UNCHANGED <<clock, merged, states, last_publish_time, tf, graph>>
  BY SameTopics, SameReadings DEF TimerFires, JSP!TimerCallback, rsp
<1>3. /\ DOMAIN announced' = DOMAIN announced \cup {clock}
      /\ announced'[clock] = merged
      /\ \A t \in DOMAIN announced : announced'[t] = announced[t]
  BY <1>1 DEF TimerFires, TimerIsDue
<1>4. Announcements(announced')
  BY <1>1, <1>3 DEF Announcements
<1>5. AnnouncedTF(announced) \subseteq AnnouncedTF(announced')
  BY <1>3 DEF AnnouncedTF
<1>6. AnnouncedJS(announced) \subseteq AnnouncedJS(announced') /\ js \in AnnouncedJS(announced')
  BY <1>3 DEF AnnouncedJS
<1> HIDE DEF js
<1>7. joint_states \in TopicsOf(AnnouncedJS(announced')) /\ tf \in TopicsOf(AnnouncedTF(announced'))
  BY <1>1, <1>5, <1>6, TopicWidens
<1>8. joint_states' \in TopicsOf(AnnouncedJS(announced'))
  BY <1>2, <1>6, <1>7, TopicKeeps
<1>9. Shows(graph, announced')
  BY <1>1, <1>3, ShownStays
<1>10. states \in States /\ last_publish_time \in 0 .. MaxClock
  BY DEF IInv
<1>11. QED
  BY <1>1, <1>2, <1>4, <1>7, <1>8, <1>9, <1>10 DEF IInv

LEMMA RobotStateKeeps ==
    ASSUME IInv, RobotStateSpins
    PROVE  IInv'
<1> DEFINE js == Head(joint_states.queue)
<1>1. /\ clock \in 1 .. MaxClock /\ merged \in States /\ states \in States
      /\ last_publish_time \in 0 .. MaxClock
      /\ Announcements(announced)
      /\ joint_states \in TopicsOf(AnnouncedJS(announced))
      /\ tf \in TopicsOf(AnnouncedTF(announced))
      /\ Shows(graph, announced)
  BY DEF IInv
<1>2. /\ joint_states.queue # <<>> /\ joint_states' = Received(joint_states)
      /\ UNCHANGED <<clock, merged, announced, graph>>
      /\ RSP!JointStateCallback(js, clock)
  BY DEF RobotStateSpins, JointStatesReceived
<1>3. joint_states' \in TopicsOf(AnnouncedJS(announced)) /\ js \in AnnouncedJS(announced)
  BY <1>1, <1>2, TopicKeeps
<1>4. PICK t \in DOMAIN announced : js = GetJointStates(Robot, announced[t], t)
  BY <1>3 DEF AnnouncedJS
<1> DEFINE all == RSP!Restamped(GetTransforms(Robot, states', clock), t)
<1> HIDE DEF js
<1>5. js.stamp = t /\ t \in 0 .. MaxClock /\ announced[t] \in States
  BY <1>1, <1>4 DEF GetJointStates, JS, Announcements
<1>6. /\ states' = SetState(Robot, states, js)
      /\ \/ UNCHANGED <<last_publish_time, tf>>
         \/ last_publish_time' = t /\ tf' = Publish(tf, all)
  BY <1>2, <1>5, SameStates, SameTopics, SameTransforms DEF RSP!JointStateCallback
<1>7. /\ states' \in States
      /\ \A n \in DOMAIN Robot.joints : ~IsMimic(Robot.joints[n]) => states'[n] = announced[t][n]
  BY <1>1, <1>4, <1>5, <1>6, StatesCarried
<1>8. all = TFOf(announced[t], t)
  BY <1>7, PublishedAre
<1> HIDE DEF all
<1>9. all \in AnnouncedTF(announced)
  BY <1>8 DEF AnnouncedTF
<1>10. tf' \in TopicsOf(AnnouncedTF(announced)) /\ last_publish_time' \in 0 .. MaxClock
  BY <1>1, <1>5, <1>6, <1>9, TopicKeeps
<1>11. QED
  BY <1>1, <1>2, <1>3, <1>7, <1>10 DEF IInv

LEMMA ListenerKeeps ==
    ASSUME IInv, ListenerSpins
    PROVE  IInv'
<1> DEFINE transforms == Head(tf.queue)
<1>1. /\ Announcements(announced)
      /\ tf \in TopicsOf(AnnouncedTF(announced))
      /\ Shows(graph, announced)
  BY DEF IInv
<1>2. /\ tf.queue # <<>> /\ tf' = Received(tf)
      /\ UNCHANGED <<clock, merged, joint_states, announced, states, last_publish_time>>
      /\ graph' = UpdateAll(graph, transforms).graph
  BY DEF ListenerSpins, TFReceived, jsp, rsp
<1>3. tf' \in TopicsOf(AnnouncedTF(announced)) /\ transforms \in AnnouncedTF(announced)
  BY <1>1, <1>2, TopicKeeps
<1> HIDE DEF transforms
<1>4. PICK t \in DOMAIN announced : transforms = TFOf(announced[t], t)
  BY <1>3 DEF AnnouncedTF
<1>5. t \in 0 .. MaxClock /\ announced[t] \in States
  BY <1>1, <1>4 DEF Announcements
<1>6. Shows(graph', announced)
  BY <1>1, <1>2, <1>4, <1>5, TFShown
<1>7. QED
  BY <1>2, <1>3, <1>6 DEF IInv

LEMMA StepKeeps == IInv /\ [Next]_vars => IInv'
<1> SUFFICES ASSUME IInv, [Next]_vars PROVE IInv'
  OBVIOUS
<1>1. CASE UNCHANGED vars
  BY <1>1 DEF IInv, vars, jsp, rsp
<1>2. CASE Tick
  <2>1. clock' \in 1 .. MaxClock
    BY <1>2, ClockBounds DEF IInv, Tick
  <2>2. QED
    BY <1>2, <2>1 DEF IInv, Tick, jsp, rsp
<1>3. CASE RobotStateConnects
  <2>1. joint_states' \in TopicsOf(AnnouncedJS(announced))
    BY <1>3, TopicKeeps DEF IInv, RobotStateConnects
  <2>2. QED
    BY <1>3, <2>1 DEF IInv, RobotStateConnects, rsp
<1>4. CASE ListenerConnects
  <2>1. tf' \in TopicsOf(AnnouncedTF(announced))
    BY <1>4, TopicKeeps DEF IInv, ListenerConnects
  <2>2. QED
    BY <1>4, <2>1 DEF IInv, ListenerConnects, jsp, rsp
<1>5. ASSUME NEW n \in Driven, SourceSends(n) PROVE IInv'
  <2>1. merged \in States /\ merged[n] < MaxDrives /\ n \in DOMAIN Robot.joints
    BY <1>5 DEF IInv, SourceSends, Driven
  <2>2. merged[n] + 1 \in 0 .. MaxDrives
    BY <2>1, ClockBounds DEF States
  <2>3. merged' = SetState(Robot, merged, JS(clock, <<JointState(n, merged[n] + 1)>>))
    BY <1>5, SameStates DEF SourceSends, JSP!JointStateCallback
  <2>4. merged' \in States
    BY <2>1, <2>2, <2>3, SourceMoves
  <2>5. UNCHANGED <<clock, joint_states, announced, states, last_publish_time, tf, graph>>
    BY <1>5 DEF SourceSends, JSP!JointStateCallback, rsp
  <2>6. QED
    BY <2>4, <2>5 DEF IInv
<1>6. CASE TimerFires
  BY <1>6, TimerKeeps
<1>7. CASE RobotStateSpins
  BY <1>7, RobotStateKeeps
<1>8. CASE ListenerSpins
  BY <1>8, ListenerKeeps
<1>9. QED
  BY <1>1, <1>2, <1>3, <1>4, <1>5, <1>6, <1>7, <1>8 DEF Next

LEMMA Inductive == Spec => []IInv
<1>1. Init => IInv
  BY InitEstablishes
<1>2. IInv /\ [Next]_vars => IInv'
  BY StepKeeps
<1>3. QED
  BY <1>1, <1>2, PTL DEF Spec

(* The members of the three nodes have their types in every state.         *)
THEOREM TypeCorrect == Spec => []TypeOK
<1>1. IInv => TypeOK
  <2> SUFFICES ASSUME IInv PROVE TypeOK
    OBVIOUS
  <2>1. /\ clock \in 1 .. MaxClock /\ merged \in States /\ states \in States
        /\ last_publish_time \in 0 .. MaxClock
        /\ Announcements(announced)
        /\ joint_states \in TopicsOf(AnnouncedJS(announced))
        /\ tf \in TopicsOf(AnnouncedTF(announced))
        /\ WellFormed(graph)
    BY DEF IInv, Shows
  <2>2. /\ clock \in Instants /\ last_publish_time \in Instants
        /\ DOMAIN announced \subseteq Instants
    BY <2>1, TimesAreStamps DEF Announcements
  <2>3. joint_states.status \in {"waiting", "up", "lost"}
    BY <2>1 DEF TopicsOf
  <2>4. \A t \in DOMAIN announced : t \in 0 .. MaxClock /\ announced[t] \in States
    BY <2>1 DEF Announcements
  <2>5. AnnouncedTF(announced) \subseteq Seq(Messages)
    BY <2>4, TFIsTyped DEF AnnouncedTF
  <2>6. tf \in TopicsOf(Seq(Messages))
    BY <2>1, <2>5, TopicWidens
  <2>7. QED
    BY <2>1, <2>2, <2>3, <2>6 DEF TypeOK, States, WellFormed
<1>2. QED
  BY <1>1, Inductive, PTL

(* Whatever was lost and whenever the listener connected, update(TF)       *)
(* accepts every transform of every TF (frame_graph.cpp:42-44).            *)
THEOREM NoneRefused == Spec => []NeverRefused
<1>1. IInv => NeverRefused
  <2> SUFFICES ASSUME IInv, tf.queue # <<>> PROVE UpdateAll(graph, Head(tf.queue)).ok
    BY DEF NeverRefused
  <2> DEFINE transforms == Head(tf.queue)
  <2>1. /\ Announcements(announced)
        /\ tf \in TopicsOf(AnnouncedTF(announced))
        /\ Shows(graph, announced)
    BY DEF IInv
  <2>2. transforms \in AnnouncedTF(announced)
    BY <2>1, TopicKeeps
  <2> HIDE DEF transforms
  <2>3. PICK t \in DOMAIN announced : transforms = TFOf(announced[t], t)
    BY <2>2 DEF AnnouncedTF
  <2>4. t \in 0 .. MaxClock /\ announced[t] \in States
    BY <2>1 DEF Announcements
  <2>5. UpdateAll(graph, transforms).ok
    BY <2>1, <2>3, <2>4, TFShown
  <2>6. QED
    BY <2>5 DEF transforms
<1>2. QED
  BY <1>1, Inductive, PTL

(* The edges of a whole robot are its joints, below the root's own.        *)
LEMMA WholeRobot ==
    ASSUME RobotIsWhole
    PROVE  /\ {Below(k) : k \in Edges} = LinksOf(Robot)
           /\ \A n \in DOMAIN Robot.joints :
                 \E k \in Edges : /\ Below(k) = Robot.joints[n].child
                                  /\ Above(k) = Robot.joints[n].parent
<1>1. /\ Len(Sent(Robot)) \in Nat /\ Edges = 1 .. Len(Sent(Robot)) + 1
      /\ DOMAIN Sent(Robot) = 1 .. Len(Sent(Robot))
      /\ \A k \in Edges : k # 1 => k - 1 \in DOMAIN Sent(Robot)
  BY EdgesAre DEF Edges, LastEdge
<1>2. /\ LinksOf(Robot) = {Robot.root} \cup {Robot.joints[n].child : n \in DOMAIN Robot.joints}
      /\ \A n \in DOMAIN Robot.joints :
            \E k \in DOMAIN Sent(Robot) : Sent(Robot)[k] = Robot.joints[n]
      /\ \A k \in DOMAIN Sent(Robot) :
            \E n \in DOMAIN Robot.joints : Sent(Robot)[k] = Robot.joints[n]
  BY RobotIsParsed DEF RobotIsWhole
<1>3. \A k \in 1 .. Len(Sent(Robot)) : /\ k + 1 \in Edges /\ k + 1 # 1 /\ (k + 1) - 1 = k
  BY <1>1
<1>4. 1 \in Edges /\ Below(1) = Robot.root
  BY <1>1 DEF Below
<1>5. \A k \in Edges : k # 1 => /\ Below(k) = Sent(Robot)[k - 1].child
                                /\ Above(k) = Sent(Robot)[k - 1].parent
  BY DEF Below, Above
<1>6. ASSUME NEW n \in DOMAIN Robot.joints
      PROVE  \E k \in Edges : /\ Below(k) = Robot.joints[n].child
                              /\ Above(k) = Robot.joints[n].parent
  <2>1. PICK k \in DOMAIN Sent(Robot) : Sent(Robot)[k] = Robot.joints[n]
    BY <1>2
  <2>2. k + 1 \in Edges /\ k + 1 # 1 /\ (k + 1) - 1 = k
    BY <1>1, <1>3
  <2>3. QED
    BY <1>5, <2>1, <2>2
<1>7. ASSUME NEW k \in Edges PROVE Below(k) \in LinksOf(Robot)
  <2>1. CASE k = 1
    BY <1>2, <1>4, <2>1
  <2>2. CASE k # 1
    <3>1. PICK n \in DOMAIN Robot.joints : Sent(Robot)[k - 1] = Robot.joints[n]
      BY <1>1, <1>2, <2>2
    <3>2. Below(k) = Robot.joints[n].child
      BY <1>5, <2>2, <3>1
    <3>3. QED
      BY <1>2, <3>2
  <2>3. QED
    BY <2>1, <2>2
<1>8. ASSUME NEW l \in LinksOf(Robot) PROVE \E k \in Edges : Below(k) = l
  <2>1. CASE l = Robot.root
    BY <1>4, <2>1
  <2>2. CASE \E n \in DOMAIN Robot.joints : l = Robot.joints[n].child
    BY <1>6, <2>2
  <2>3. QED
    BY <1>2, <2>1, <2>2
<1>9. QED
  BY <1>6, <1>7, <1>8

(* The listener's tree is nothing or the robot's, of any whole robot.      *)
THEOREM TreeCorrect ==
    ASSUME RobotIsWhole
    PROVE  Spec => []TreeIsRobot
<1>1. IInv => TreeIsRobot
  <2> SUFFICES ASSUME IInv PROVE TreeIsRobot
    OBVIOUS
  <2>1. WellFormed(graph) /\ (Holds(graph, 0) \/ Holds(graph, LastEdge))
    BY DEF IInv, Shows
  <2>2. CASE Holds(graph, 0)
    <3>1. DOMAIN graph.name_to_index = {World} \cup {}
      BY <2>2 DEF Holds
    <3>2. QED
      BY <3>1, WorldIsTheRoot DEF TreeIsRobot
  <2>3. CASE Holds(graph, LastEdge)
    <3>1. /\ DOMAIN graph.name_to_index = {World} \cup {Below(j) : j \in Edges}
          /\ \A j \in Edges : ParentOf(graph, graph.name_to_index[Below(j)])
                                = graph.name_to_index[Above(j)]
      BY <2>3 DEF Holds, Edges
    <3>2. DOMAIN graph.name_to_index = LinksOf(Robot) \cup {World}
      BY <3>1, WholeRobot
    <3>3. graph.name_to_index[World] = RootIndex
      BY <2>1, WorldIsTheRoot, GraphMembers DEF WellFormed, NamesInverse, ParentsPrecede
    <3>4. 1 \in Edges /\ Below(1) = Robot.root /\ Above(1) = World
      BY EdgesAre DEF Edges, LastEdge, Below, Above
    <3>5. ParentOf(graph, graph.name_to_index[Robot.root]) = RootIndex
      BY <3>1, <3>3, <3>4
    <3>6. ASSUME NEW n \in DOMAIN Robot.joints
          PROVE  ParentOf(graph, graph.name_to_index[Robot.joints[n].child])
                   = graph.name_to_index[Robot.joints[n].parent]
      <4>1. PICK k \in Edges : /\ Below(k) = Robot.joints[n].child
                               /\ Above(k) = Robot.joints[n].parent
        BY WholeRobot
      <4>2. QED
        BY <3>1, <4>1
    <3>7. QED
      BY <3>2, <3>5, <3>6 DEF TreeIsRobot
  <2>4. QED
    BY <2>1, <2>2, <2>3
<1>2. QED
  BY <1>1, Inductive, PTL

-----------------------------------------------------------------------------
(***************************************************************************)
(* Snapshots.  At a moment that the edges hold, each of them answers with  *)
(* what it was then, and the pose of a link is the product down to it.     *)
(***************************************************************************)
PoseAt(g, name, t) == AlongPath(g, RootIndex, g.name_to_index[name], t)

Remembers(g, A, T) ==
    /\ WellFormed(g)
    /\ Holds(g, LastEdge)
    /\ \A j \in Edges : AsMap(BufferOf(g, j)) = Moments(A, j, T)

LEMMA WorldIsFirst ==
    ASSUME NEW g, WellFormed(g)
    PROVE  Exists(g, World) /\ g.name_to_index[World] = RootIndex
BY WorldIsTheRoot, GraphMembers DEF WellFormed, NamesInverse, ParentsPrecede

LEMMA EdgeRemembers ==
    ASSUME NEW g, NEW A, NEW T, Remembers(g, A, T), NEW t \in T, t \in Int, t # 0,
           NEW e \in Edges
    PROVE  LET i == g.name_to_index[Below(e)]
           IN  /\ Exists(g, Below(e)) /\ i \in Indices(g) \ {RootIndex}
               /\ ParentOf(g, i) = g.name_to_index[Above(e)]
               /\ Edge(g, i, t) = ShownIn(A[t], e)
<1> DEFINE i == g.name_to_index[Below(e)]
           deque == g.frames[i].buffer
<1>1. WellFormed(g) /\ Holds(g, LastEdge) /\ AsMap(deque) = Moments(A, e, T)
  BY DEF Remembers, BufferOf
<1>2. Exists(g, Below(e)) /\ ParentOf(g, i) = g.name_to_index[Above(e)]
  BY <1>1 DEF Holds, Edges, Exists
<1>3. i \in Indices(g) /\ i # RootIndex
  <2>1. i \in Indices(g)
    BY <1>1, <1>2 DEF WellFormed, Typed, Exists
  <2>2. Below(e) # World
    BY EdgesAre, LinksAreFrames
  <2>3. QED
    BY <1>1, <1>2, <2>1, <2>2, WorldIsFirst, FramesDiffer
<1>4. deque \in Seq(StampedBy(Transforms)) /\ StrictlySorted(deque)
  <2>1. deque \in Seq(Entries) /\ StrictlySorted(deque)
    BY <1>1, <1>3, FrameAndList DEF WellFormed, EdgesCarryData
  <2>2. Entries \subseteq StampedBy(Transforms)
    BY InstantsAreIntegers DEF Entries, StampedBy
  <2>3. QED
    BY <2>1, <2>2, SeqMonotonic
<1> HIDE DEF deque
<1>5. DOMAIN AsMap(deque) = Stamps(deque)
  BY DEF AsMap
<1>6. t \in Stamps(deque) /\ AsMap(deque)[t] = ShownIn(A[t], e)
  BY <1>1, <1>5 DEF Moments
<1>7. Lookup(deque, t) = ShownIn(A[t], e)
  BY <1>4, <1>6, LookupAtStamp
<1>8. QED
  BY <1>2, <1>3, <1>7 DEF Edge, deque

LEMMA PoseSteps ==
    ASSUME NEW Poses, Composable(Poses), NEW g, NEW A, NEW T, Remembers(g, A, T),
           NEW t \in T, t \in Int, t # 0
    PROVE  /\ PoseAt(g, Robot.root, t) = WorldToRoot
           /\ \A e \in Edges : PoseAt(g, Below(e), t)
                                 = Compose(PoseAt(g, Above(e), t), ShownIn(A[t], e))
<1>1. WellFormed(g)
  BY DEF Remembers
<1>2. ASSUME NEW e \in Edges
      PROVE  /\ PoseAt(g, World, t) = Identity
             /\ PoseAt(g, Below(e), t) = Compose(PoseAt(g, Above(e), t), ShownIn(A[t], e))
  <2> DEFINE i == g.name_to_index[Below(e)]
  <2>1. /\ i \in Indices(g) \ {RootIndex}
        /\ ParentOf(g, i) = g.name_to_index[Above(e)]
        /\ Edge(g, i, t) = ShownIn(A[t], e)
    BY EdgeRemembers
  <2> HIDE DEF i
  <2>2. /\ AlongPath(g, RootIndex, RootIndex, t) = Identity
        /\ AlongPath(g, RootIndex, i, t) =
              Compose(AlongPath(g, RootIndex, ParentOf(g, i), t), Edge(g, i, t))
    BY <1>1, <2>1, PathFromParent
  <2>3. QED
    BY <1>1, <2>1, <2>2, WorldIsFirst DEF PoseAt, i
<1>3. /\ 1 \in Edges /\ Below(1) = Robot.root /\ Above(1) = World
      /\ ShownIn(A[t], 1) = WorldToRoot
  BY EdgesAre DEF Edges, LastEdge, Below, Above, ShownIn
<1>4. PoseAt(g, Robot.root, t) = Compose(Identity, WorldToRoot)
  BY <1>2, <1>3
<1>5. WorldToRoot \in Poses
  BY JointsTransform DEF Composable
<1>6. QED
  BY <1>2, <1>4, <1>5 DEF Composable

(* The robot's own account of a pose is a recursion along the chain.       *)
IsPosing(chain, st, m, f) ==
    f = [k \in 0 .. m |-> IF k = 0 THEN WorldToRoot
                          ELSE Compose(f[k - 1], SentTransform(chain[k], st))]

LEMMA PosingExists ==
    ASSUME NEW chain, NEW st
    PROVE  \A m \in Nat : \E f : IsPosing(chain, st, m, f)
<1> DEFINE x(k) == SentTransform(chain[k], st)
           S == {m \in Nat : \E f : f = [k \in 0 .. m |->
                    IF k = 0 THEN WorldToRoot ELSE Compose(f[k - 1], x(k))]}
<1> HIDE DEF x
<1>1. 0 \in S
  <2> DEFINE f == [k \in 0 .. 0 |-> WorldToRoot]
  <2>1. f = [k \in 0 .. 0 |-> IF k = 0 THEN WorldToRoot ELSE Compose(f[k - 1], x(k))]
    OBVIOUS
  <2>2. QED
    BY <2>1
<1>2. ASSUME NEW m \in Nat, m \in S PROVE m + 1 \in S
  <2>1. PICK f : f = [k \in 0 .. m |-> IF k = 0 THEN WorldToRoot ELSE Compose(f[k - 1], x(k))]
    BY <1>2
  <2> DEFINE h == [k \in 0 .. m + 1 |-> IF k = m + 1 THEN Compose(f[m], x(m + 1)) ELSE f[k]]
  <2>2. ASSUME NEW k \in 0 .. m + 1
        PROVE  h[k] = IF k = 0 THEN WorldToRoot ELSE Compose(h[k - 1], x(k))
    <3>1. CASE k = m + 1
      <4>1. m \in 0 .. m + 1 /\ k # 0 /\ k - 1 = m /\ m # m + 1
        BY <3>1
      <4>2. h[k] = Compose(f[m], x(m + 1)) /\ h[m] = f[m]
        BY <3>1, <4>1
      <4> HIDE DEF h
      <4>3. QED
        BY <3>1, <4>1, <4>2
    <3>2. CASE k # m + 1
      <4>1. k \in 0 .. m /\ h[k] = f[k]
        BY <3>2
      <4>2. f[k] = IF k = 0 THEN WorldToRoot ELSE Compose(f[k - 1], x(k))
        BY <2>1, <4>1
      <4>3. k # 0 => k - 1 \in 0 .. m + 1 /\ k - 1 # m + 1
        BY <4>1
      <4>4. k # 0 => h[k - 1] = f[k - 1]
        BY <4>3
      <4> HIDE DEF h
      <4>5. QED
        BY <4>1, <4>2, <4>4
    <3>3. QED
      BY <3>1, <3>2
  <2>3. h = [k \in 0 .. m + 1 |-> h[k]]
    OBVIOUS
  <2> HIDE DEF h
  <2>4. h = [k \in 0 .. m + 1 |-> IF k = 0 THEN WorldToRoot ELSE Compose(h[k - 1], x(k))]
    BY <2>2, <2>3
  <2>5. QED
    BY <2>4
<1> HIDE DEF S
<1>3. Nat \subseteq S
  BY <1>1, <1>2, SetInduction
<1>4. QED
  BY <1>3 DEF S, IsPosing, x

LEMMA PosingSteps ==
    ASSUME NEW link, NEW chain, chain = JointsInChain(Robot, link), Len(chain) \in Nat, NEW st
    PROVE  \E f : /\ PoseOf(link, st) = f[Len(chain)]
                  /\ f[0] = WorldToRoot
                  /\ \A k \in 1 .. Len(chain) :
                        f[k] = Compose(f[k - 1], SentTransform(chain[k], st))
<1> DEFINE n == Len(chain)
           f == CHOOSE h : IsPosing(chain, st, n, h)
<1>1. PoseOf(link, st) = f[n]
  BY DEF PoseOf, IsPosing
<1>2. IsPosing(chain, st, n, f)
  BY PosingExists
<1> HIDE DEF f
<1>3. 0 \in 0 .. n /\ \A k \in 1 .. n : k \in 0 .. n /\ k # 0
  OBVIOUS
<1> HIDE DEF n
<1>4. f[0] = WorldToRoot
  BY <1>2, <1>3 DEF IsPosing
<1>5. \A k \in 1 .. n : f[k] = Compose(f[k - 1], SentTransform(chain[k], st))
  BY <1>2, <1>3 DEF IsPosing
<1>6. QED
  BY <1>1, <1>4, <1>5 DEF n

(* Below the root, link by link down the chain.                            *)
LEMMA ChainPose ==
    ASSUME NEW Poses, Composable(Poses), NEW g, NEW A, NEW T, Remembers(g, A, T),
           NEW t \in T, t \in Int, t # 0,
           NEW l \in DOMAIN Robot.links \ {Robot.root},
           \E k \in DOMAIN Sent(Robot) : Sent(Robot)[k].child = l
    PROVE  PoseAt(g, l, t) = PoseOf(l, A[t])
<1> DEFINE chain == JointsInChain(Robot, l)
           n == Len(chain)
           x(k) == SentTransform(chain[k], A[t])
<1>1. /\ chain \in Seq(Joints) /\ chain # <<>>
      /\ chain[1].parent = Robot.root
      /\ \A k \in DOMAIN chain : \E i \in DOMAIN Sent(Robot) : Sent(Robot)[i] = chain[k]
      /\ \A k \in 1 .. Len(chain) - 1 : chain[k].child = chain[k + 1].parent
      /\ chain[Len(chain)].child = l
  BY RobotIsParsed DEF ChainsArePublished, Last
<1> HIDE DEF chain
<1>2. n \in Nat /\ n >= 1 /\ DOMAIN chain = 1 .. n
  BY <1>1
<1>3. PICK f : /\ PoseOf(l, A[t]) = f[n]
               /\ f[0] = WorldToRoot
               /\ \A k \in 1 .. n : f[k] = Compose(f[k - 1], x(k))
  BY <1>2, PosingSteps DEF chain
<1>4. ASSUME NEW k \in 1 .. n
      PROVE  PoseAt(g, chain[k].child, t) = Compose(PoseAt(g, chain[k].parent, t), x(k))
  <2>1. PICK i \in DOMAIN Sent(Robot) : Sent(Robot)[i] = chain[k]
    BY <1>1, <1>2
  <2>2. i + 1 \in Edges /\ i + 1 # 1 /\ (i + 1) - 1 = i
    BY EdgesAre DEF Edges, LastEdge
  <2>3. /\ Below(i + 1) = chain[k].child /\ Above(i + 1) = chain[k].parent
        /\ ShownIn(A[t], i + 1) = x(k)
    BY <2>1, <2>2 DEF Below, Above, ShownIn
  <2>4. QED
    BY <2>2, <2>3, PoseSteps
<1>5. PoseAt(g, Robot.root, t) = WorldToRoot
  BY PoseSteps
<1> HIDE DEF n, x
<1> DEFINE S == {k \in Nat : k + 1 <= n => PoseAt(g, chain[k + 1].child, t) = f[k + 1]}
<1>6. 0 \in S
  <2>1. 1 \in 1 .. n /\ 1 - 1 = 0 /\ 0 + 1 = 1
    BY <1>2
  <2>2. f[1] = Compose(WorldToRoot, x(1))
    BY <1>3, <2>1
  <2>3. PoseAt(g, chain[1].child, t) = f[1]
    BY <1>1, <1>4, <1>5, <2>1, <2>2
  <2>4. QED
    BY <2>1, <2>3
<1>7. ASSUME NEW k \in Nat, k \in S PROVE k + 1 \in S
  <2> SUFFICES ASSUME (k + 1) + 1 <= n PROVE PoseAt(g, chain[(k + 1) + 1].child, t) = f[(k + 1) + 1]
    OBVIOUS
  <2> DEFINE j == k + 1
  <2>1. /\ j \in 1 .. n - 1 /\ j + 1 \in 1 .. n /\ (j + 1) - 1 = j /\ j <= n
    BY <1>2
  <2>2. PoseAt(g, chain[j].child, t) = f[j]
    BY <1>7, <2>1
  <2> HIDE DEF j
  <2>3. chain[j].child = chain[j + 1].parent
    BY <1>1, <2>1 DEF n
  <2>4. f[j + 1] = Compose(f[j], x(j + 1))
    BY <1>3, <2>1
  <2>5. PoseAt(g, chain[j + 1].child, t) = Compose(f[j], x(j + 1))
    BY <1>4, <2>1, <2>2, <2>3
  <2>6. QED
    BY <2>4, <2>5 DEF j
<1>8. n - 1 \in S
  <2> HIDE DEF S
  <2>1. Nat \subseteq S
    BY <1>6, <1>7, SetInduction
  <2>2. QED
    BY <1>2, <2>1
<1>9. PoseAt(g, chain[n].child, t) = f[n]
  BY <1>2, <1>8
<1>10. QED
  BY <1>1, <1>3, <1>9 DEF n

LEMMA RootPose == \A st : PoseOf(Robot.root, st) = WorldToRoot
<1> TAKE st
<1>1. JointsInChain(Robot, Robot.root) = <<>>
  BY RobotIsParsed DEF ChainsArePublished
<1>2. Len(<<>>) = 0
  OBVIOUS
<1> DEFINE chain == JointsInChain(Robot, Robot.root)
<1>3. Len(chain) = 0
  BY <1>1, <1>2
<1> HIDE DEF chain
<1>4. PICK f : /\ PoseOf(Robot.root, st) = f[Len(chain)]
               /\ f[0] = WorldToRoot
  BY <1>3, PosingSteps DEF chain
<1>5. QED
  BY <1>3, <1>4

(* Every stamp the listener holds is one that all its edges hold.          *)
LEMMA HeldByAll ==
    ASSUME NEW A, NEW T, Remembers(graph, A, T), NEW t \in StampsHeld
    PROVE  t \in T
<1>1. PICK i \in Indices(graph) \ {RootIndex} : t \in Stamps(graph.frames[i].buffer)
  BY DEF StampsHeld
<1> DEFINE name == graph.frames[i].name
<1>2. WellFormed(graph) /\ Holds(graph, LastEdge)
  BY DEF Remembers
<1>3. name \in DOMAIN graph.name_to_index /\ graph.name_to_index[name] = i
  BY <1>2 DEF WellFormed, NamesInverse, Exists
<1>4. name # World
  BY <1>2, <1>3, WorldIsFirst
<1>5. PICK j \in Edges : name = Below(j)
  BY <1>2, <1>3, <1>4 DEF Holds, Edges
<1>6. AsMap(graph.frames[i].buffer) = Moments(A, j, T)
  BY <1>3, <1>5 DEF Remembers, BufferOf
<1>7. DOMAIN AsMap(graph.frames[i].buffer) = Stamps(graph.frames[i].buffer)
  BY DEF AsMap
<1>8. QED
  BY <1>1, <1>6, <1>7 DEF Moments

(* Whatever was merged, throttled, lost or expired on the way, the pose    *)
(* the listener answers with at a time that it holds is the robot's pose   *)
(* at that time, for any poses that compose as transforms do.              *)
THEOREM SnapshotsWhole ==
    ASSUME NEW Poses, Composable(Poses), RobotIsWhole
    PROVE  Spec => []SnapshotsAreWhole
<1>1. ASSUME IInv, NEW t \in StampsHeld,
             NEW link \in DOMAIN graph.name_to_index \ {World}
      PROVE  /\ t \in DOMAIN announced
             /\ GetTransform(graph, link, World, t).ok
             /\ GetTransform(graph, link, World, t).transform = PoseOf(link, announced[t])
  <2>1. WellFormed(graph) /\ Announcements(announced)
    BY <1>1 DEF IInv, Shows
  <2>2. ~Holds(graph, 0)
    BY DEF Holds
  <2>3. PICK T \in SUBSET DOMAIN announced : Remembers(graph, announced, T)
    BY <1>1, <2>1, <2>2 DEF IInv, Shows, Remembers
  <2>4. t \in T /\ t \in DOMAIN announced
    BY <2>3, HeldByAll
  <2>5. t \in Int /\ t # 0
    BY <2>1, <2>4 DEF Announcements
  <2>6. PICK j \in Edges : link = Below(j)
    BY <2>3 DEF Remembers, Holds, Edges
  <2>7. link \in DOMAIN Robot.links
    BY <2>6, WholeRobot DEF LinksOf
  <2>8. PoseAt(graph, link, t) = PoseOf(link, announced[t])
    <3>1. CASE link = Robot.root
      BY <2>3, <2>4, <2>5, <3>1, PoseSteps, RootPose
    <3>2. CASE link # Robot.root
      <4>1. j # 1 /\ link = Sent(Robot)[j - 1].child
        BY <2>6, <3>2 DEF Below
      <4>2. j - 1 \in DOMAIN Sent(Robot)
        BY <4>1, EdgesAre
      <4>3. QED
        BY <2>3, <2>4, <2>5, <2>7, <3>2, <4>1, <4>2, ChainPose
    <3>3. QED
      BY <3>1, <3>2
  <2>9. Exists(graph, link) /\ Exists(graph, World) /\ graph.name_to_index[World] = RootIndex
    BY <2>1, WorldIsFirst DEF Exists
  <2>10. GetTransform(graph, link, World, t).ok
    BY <2>1, <2>9, LookupSucceeds
  <2>11. graph.name_to_index[link] \in Indices(graph)
    BY <2>1, <2>9 DEF WellFormed, Typed, Exists
  <2>12. RootIndex \in Visited(graph, graph.name_to_index[link])
    BY <2>1, <2>11, VisitedProperties
  <2>13. GetTransform(graph, link, World, t).transform = PoseAt(graph, link, t)
    BY <2>1, <2>5, <2>9, <2>12, PoseOnBranch DEF PoseAt
  <2>14. QED
    BY <2>4, <2>8, <2>10, <2>13
<1>2. IInv => SnapshotsAreWhole
  BY <1>1 DEF SnapshotsAreWhole
<1>3. QED
  BY <1>2, Inductive, PTL

=============================================================================
