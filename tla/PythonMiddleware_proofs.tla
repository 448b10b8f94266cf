---------------------- MODULE PythonMiddleware_proofs ----------------------
(***************************************************************************)
(* What registration and the Python subscriber guarantee for any number of *)
(* publishers, plans of their constructors, frame lengths and numbers of   *)
(* messages.  The three properties rest on three invariants: how the       *)
(* answer of the hub, the kinds of registration that failed and the hub's  *)
(* table go together (Remembered), who may still be announced (Serving),   *)
(* and where in the stream of a publisher the reader is (InStream).        *)
(***************************************************************************)
EXTENDS PythonMiddleware, FiniteSetTheorems, TLAPS

FrameLength == HeadLength + BodyLength

(* How many units the first k messages of a publisher take.                *)
Before(k) == k * FrameLength

Units == Nat \X Nat

Links ==
    [status  : {"none", "refused", "backlog", "open", "closed", "forgotten"},
     tries   : Nat,
     sent    : Seq(Nat),
     wire    : Seq(Units),
     arrived : Seq(Units)]

RegistrationTyped ==
    /\ plan = [n \in Nodes |-> plan[n]]
    /\ answer \in [Nodes -> Answers \cup {NoAnswer}]
    /\ failed = [n \in Nodes |-> failed[n]]
    /\ state \in [Nodes -> {"constructing", "spinning", "stopped", "exited"}]
    /\ known \subseteq Nodes
    /\ notices \in Seq([pubs : SUBSET Nodes, arrived : 0 .. Whole])

TopicTyped ==
    /\ link \in [Publishers -> Links]
    /\ published \in [Publishers -> Nat]

ReadingTyped ==
    /\ at \in {"server", "clients", "body", "dead"}
    /\ todo \subseteq Publishers
    /\ frame \in [from : Nodes, head : Nat, need : Nat, body : Seq(Units)]
    /\ at = "body" => frame.from \in Publishers
    /\ delivered \in [Publishers -> Seq(Nat)]
    /\ torn \subseteq Publishers

Typed == RegistrationTyped /\ TopicTyped /\ ReadingTyped

-----------------------------------------------------------------------------
(***************************************************************************)
(* Remembered: an error of the hub is forgotten when send_message_with_    *)
(* opcode returns, and by then it has failed the registration if all of    *)
(* it was read.                                                            *)
(***************************************************************************)
RememberedOf(n) ==
    /\ answer[n].error # 0 => AtStep(n, "topic")
    /\ /\ answer[n] # NoAnswer
       /\ answer[n].bytes = StatusSize /\ answer[n].error = 0
       /\ "topic" \notin failed[n]
       /\ state[n] \in {"constructing", "spinning"}
       => n \in known

Remembered == \A n \in Nodes : RememberedOf(n)

(* Programs the hub has not served yet and may still serve.                *)
Unserved(n) == answer[n] = NoAnswer /\ state[n] # "exited"

Pending(p) == {i \in DOMAIN notices : p \in notices[i].pubs}

(***************************************************************************)
(* Serving: nobody is announced before both sides were served, nobody      *)
(* twice, and who is known to a known subscriber is announced.             *)
(***************************************************************************)
ServingOf(p) ==
    /\ Unserved(p) => link[p].tries = 0 /\ Pending(p) = {}
    /\ link[p].tries \in {0, 1}
    /\ \A i, j \in Pending(p) : i = j
    /\ link[p].tries = 1 => Pending(p) = {}
    /\ {p, Subscriber} \subseteq known /\ at # "dead" => link[p].tries = 1 \/ Pending(p) # {}

Serving ==
    /\ \A n \in Nodes : Unserved(n) => n \notin known
    /\ Unserved(Subscriber) => notices = <<>> /\ \A p \in Publishers : link[p].tries = 0
    /\ \A p \in Publishers : ServingOf(p)

-----------------------------------------------------------------------------
(* What was sent by p and has not been read.                               *)
Stream(p) == link[p].arrived \o link[p].wire

Begun(p) == IF frame.from = p THEN HeadLength + Len(frame.body) ELSE 0

(* How many units of what p sent have been read.                           *)
Taken(p) == Before(Len(delivered[p])) + Begun(p)

(* The frame being read is that of the next message to be delivered, if    *)
(* that was sent as a whole.                                               *)
InFrame(p) ==
    frame.from = p =>
        /\ frame.need = BodyLength /\ Len(frame.body) <= BodyLength
        /\ Len(delivered[p]) < Len(link[p].sent) =>
              LET next == link[p].sent[Len(delivered[p]) + 1]
              IN  /\ frame.head = next
                  /\ \A j \in 1 .. Len(frame.body) :
                        frame.body[j] = Unit(next, HeadLength + j)

(***************************************************************************)
(* InStream: what was read and what was not are all that was sent, the     *)
(* units of each message in their places, and behind them less than a      *)
(* frame, which only a publisher that has left leaves.                     *)
(***************************************************************************)
InStream(p) ==
    LET end == Taken(p) + Len(Stream(p))
        all == Before(Len(link[p].sent))
    IN  /\ end >= all /\ end < all + FrameLength
        /\ state[p] # "exited" => end = all
        /\ \A i \in 1 .. Len(link[p].sent), j \in 1 .. FrameLength :
              Before(i - 1) + j > Taken(p) =>
                  Stream(p)[Before(i - 1) + j - Taken(p)] = Unit(link[p].sent[i], j)

Reading ==
    /\ at # "body" => frame.from = Subscriber
    /\ DeliversInOrder
    /\ \A p \in Publishers \ torn : InFrame(p) /\ InStream(p)

-----------------------------------------------------------------------------
(* Sequences                                                               *)

(* What is left of a sequence when its front is taken.                     *)
LEMMA RestOf ==
    ASSUME NEW S, NEW s \in Seq(S), NEW n \in 0 .. Len(s)
    PROVE  LET t == SubSeq(s, n + 1, Len(s))
           IN  /\ t \in Seq(S)
               /\ Len(t) = Len(s) - n
               /\ \A j \in 1 .. Len(s) - n : t[j] = s[j + n]
OBVIOUS

LEMMA EndToEnd ==
    ASSUME NEW S, NEW s \in Seq(S), NEW t \in Seq(S)
    PROVE  /\ Len(s \o t) = Len(s) + Len(t)
           /\ \A j \in 1 .. Len(s) : (s \o t)[j] = s[j]
           /\ \A j \in 1 .. Len(t) : (s \o t)[Len(s) + j] = t[j]
OBVIOUS

LEMMA FrontOf ==
    ASSUME NEW S, NEW s \in Seq(S), NEW n \in 0 .. Len(s)
    PROVE  LET t == SubSeq(s, 1, n)
           IN  /\ t \in Seq(S)
               /\ Len(t) = n
               /\ \A j \in 1 .. n : t[j] = s[j]
OBVIOUS

LEMMA Same ==
    ASSUME NEW S, NEW s \in Seq(S), NEW t \in Seq(S), Len(s) = Len(t),
           \A j \in 1 .. Len(s) : s[j] = t[j]
    PROVE  s = t
OBVIOUS

(* Moving the front of one sequence to the end of another.                 *)
LEMMA Moved ==
    ASSUME NEW S, NEW s \in Seq(S), NEW t \in Seq(S), NEW n \in 0 .. Len(t)
    PROVE  (s \o SubSeq(t, 1, n)) \o SubSeq(t, n + 1, Len(t)) = s \o t
<1> DEFINE a == SubSeq(t, 1, n)
<1> DEFINE b == SubSeq(t, n + 1, Len(t))
<1>1. /\ a \in Seq(S) /\ Len(a) = n /\ \A j \in 1 .. n : a[j] = t[j]
      /\ b \in Seq(S) /\ Len(b) = Len(t) - n /\ \A j \in 1 .. Len(t) - n : b[j] = t[j + n]
  BY RestOf, FrontOf
<1> HIDE DEF a, b
<1>2. a \o b = t
  <2> DEFINE c == a \o b
  <2>1. Len(t) \in Nat /\ n \in Nat /\ n <= Len(t)
    OBVIOUS
  <2>2. /\ c \in Seq(S) /\ Len(c) = Len(a) + Len(b)
        /\ \A j \in 1 .. Len(a) : c[j] = a[j]
        /\ \A j \in 1 .. Len(b) : c[Len(a) + j] = b[j]
    <3>1. a \in Seq(S) /\ b \in Seq(S)
      BY <1>1
    <3>2. QED
      BY <3>1
  <2> HIDE DEF c
  <2>3. Len(c) = Len(t)
    BY <1>1, <2>1, <2>2
  <2>4. \A j \in 1 .. Len(t) : c[j] = t[j]
    <3> TAKE j \in 1 .. Len(t)
    <3>1. CASE j <= n
      BY <1>1, <2>2, <3>1
    <3>2. CASE j > n
      <4>1. j - n \in 1 .. Len(b) /\ Len(a) + (j - n) = j
        BY <1>1, <2>1, <3>2
      <4>2. c[j] = b[j - n] /\ b[j - n] = t[(j - n) + n]
        BY <1>1, <2>1, <2>2, <4>1
      <4>3. QED
        BY <2>1, <4>2
    <3>3. QED
      BY <2>1, <3>1, <3>2
  <2>5. QED
    BY <2>2, <2>3, <2>4, Same DEF c
<1>3. (s \o a) \o b = s \o (a \o b)
  BY <1>1
<1>4. QED
  BY <1>2, <1>3 DEF a, b

(* Taking the front of what arrived takes the front of the stream.         *)
LEMMA Shortened ==
    ASSUME NEW S, NEW s \in Seq(S), NEW t \in Seq(S), NEW n \in 0 .. Len(s)
    PROVE  LET u == SubSeq(s, n + 1, Len(s)) \o t
           IN  /\ Len(u) = Len(s \o t) - n
               /\ \A j \in 1 .. Len(u) : u[j] = (s \o t)[j + n]
<1> DEFINE r == SubSeq(s, n + 1, Len(s))
<1>1. r \in Seq(S) /\ Len(r) = Len(s) - n /\ \A j \in 1 .. Len(s) - n : r[j] = s[j + n]
  BY RestOf
<1> DEFINE u == r \o t
<1> DEFINE w == s \o t
<1> HIDE DEF r
<1>2. /\ Len(s) \in Nat /\ Len(t) \in Nat /\ n \in Nat /\ n <= Len(s)
      /\ Len(u) = Len(r) + Len(t) /\ Len(w) = Len(s) + Len(t)
      /\ \A j \in 1 .. Len(r) : u[j] = r[j]
      /\ \A j \in 1 .. Len(t) : u[Len(r) + j] = t[j]
      /\ \A j \in 1 .. Len(s) : w[j] = s[j]
      /\ \A j \in 1 .. Len(t) : w[Len(s) + j] = t[j]
  <2>1. Len(s) \in Nat /\ Len(t) \in Nat /\ n \in Nat /\ n <= Len(s)
    OBVIOUS
  <2>2. r \in Seq(S)
    BY <1>1
  <2>3. QED
    BY <2>1, <2>2
<1> HIDE DEF u, w
<1>3. Len(u) = Len(w) - n
  BY <1>1, <1>2
<1>4. \A j \in 1 .. Len(u) : u[j] = w[j + n]
  <2> TAKE j \in 1 .. Len(u)
  <2>1. CASE j <= Len(r)
    <3>1. u[j] = s[j + n] /\ j + n \in 1 .. Len(s)
      BY <1>1, <1>2, <2>1
    <3>2. QED
      BY <1>2, <3>1
  <2>2. CASE j > Len(r)
    <3> DEFINE i == j - Len(r)
    <3>1. i \in 1 .. Len(t) /\ Len(r) + i = j /\ Len(s) + i = j + n
      BY <1>1, <1>2, <2>2
    <3>2. u[Len(r) + i] = t[i] /\ w[Len(s) + i] = t[i]
      BY <1>2, <3>1
    <3>3. QED
      BY <3>1, <3>2
  <2>3. QED
    BY <1>1, <1>2, <2>1, <2>2
<1>5. QED
  BY <1>3, <1>4 DEF r, u, w

-----------------------------------------------------------------------------
(* Frames                                                                  *)

LEMMA PartLengths ==
    /\ HeadLength \in Nat \ {0} /\ BodyLength \in Nat \ {0}
    /\ FrameLength = HeadLength + BodyLength
    /\ FrameLength \in Nat \ {0}
BY FrameHasParts DEF FrameLength

(* A message takes a frame, and the frames of different messages do not    *)
(* overlap.                                                                *)
LEMMA Places ==
    /\ \A k \in Nat : Before(k) \in Nat /\ Before(k + 1) = Before(k) + FrameLength
    /\ \A k, l \in Nat : k <= l => Before(k) <= Before(l)
    /\ \A k, l \in Nat : k < l => Before(k) + FrameLength <= Before(l)
    /\ Before(0) = 0
<1>1. FrameLength \in Nat
  BY PartLengths
<1>2. \A k \in Nat : Before(k) \in Nat /\ Before(k + 1) = Before(k) + FrameLength
  BY <1>1 DEF Before
<1>3. \A k, l \in Nat : k <= l => Before(k) <= Before(l)
  BY <1>1 DEF Before
<1>4. \A k, l \in Nat : k < l => Before(k) + FrameLength <= Before(l)
  <2> TAKE k, l \in Nat
  <2> HAVE k < l
  <2>1. Before(k + 1) <= Before(l)
    BY <1>3
  <2>2. QED
    BY <1>2, <2>1
<1>5. QED
  BY <1>1, <1>2, <1>3, <1>4 DEF Before

LEMMA Frames ==
    ASSUME NEW k \in Nat
    PROVE  /\ FrameOf(k) \in Seq(Units)
           /\ Len(FrameOf(k)) = FrameLength
           /\ \A j \in 1 .. FrameLength : FrameOf(k)[j] = Unit(k, j)
           /\ HeadOf(k) \in Seq(Units)
           /\ Len(HeadOf(k)) = HeadLength
           /\ \A j \in 1 .. HeadLength : HeadOf(k)[j] = Unit(k, j)
           /\ BodyOf(k) \in Seq(Units)
           /\ Len(BodyOf(k)) = BodyLength
           /\ \A j \in 1 .. BodyLength : BodyOf(k)[j] = Unit(k, HeadLength + j)
<1>1. \A j \in 1 .. FrameLength : Unit(k, j) \in Units
  BY PartLengths DEF Unit, Units
<1>2. /\ FrameOf(k) \in Seq(Units) /\ Len(FrameOf(k)) = FrameLength
      /\ \A j \in 1 .. FrameLength : FrameOf(k)[j] = Unit(k, j)
  <2>1. FrameOf(k) = [i \in 1 .. FrameLength |-> Unit(k, i)]
    BY DEF FrameOf, FrameLength
  <2>2. FrameOf(k) \in [1 .. FrameLength -> Units]
    BY <1>1, <2>1
  <2>3. QED
    BY <2>1, <2>2, PartLengths
<1> DEFINE f == FrameOf(k)
<1> HIDE DEF f
<1>3. f \in Seq(Units) /\ Len(f) = FrameLength /\ \A j \in 1 .. FrameLength : f[j] = Unit(k, j)
  BY <1>2 DEF f
<1>4. LET h == SubSeq(f, 1, HeadLength)
      IN  /\ h \in Seq(Units) /\ Len(h) = HeadLength
          /\ \A j \in 1 .. HeadLength : h[j] = Unit(k, j)
  BY <1>3, FrontOf, PartLengths
<1>5. LET b == SubSeq(f, HeadLength + 1, Len(f))
      IN  /\ b \in Seq(Units) /\ Len(b) = BodyLength
          /\ \A j \in 1 .. BodyLength : b[j] = Unit(k, HeadLength + j)
  <2>1. HeadLength \in 0 .. Len(f) /\ Len(f) - HeadLength = BodyLength
    BY <1>3, PartLengths
  <2>2. \A j \in 1 .. BodyLength : f[j + HeadLength] = Unit(k, HeadLength + j)
    BY <1>3, PartLengths
  <2>3. QED
    BY <1>3, <2>1, <2>2, RestOf
<1>6. QED
  BY <1>2, <1>3, <1>4, <1>5 DEF HeadOf, BodyOf, f, FrameLength

-----------------------------------------------------------------------------
(* Types                                                                   *)

LEMMA ProceedTyped ==
    ASSUME RegistrationTyped, NEW n \in Nodes, NEW succeeds, NEW raises,
           Proceed(n, succeeds, raises)
    PROVE  /\ plan' = [m \in Nodes |-> plan'[m]]
           /\ failed' = [m \in Nodes |-> failed'[m]]
           /\ state' \in [Nodes -> {"constructing", "spinning", "stopped", "exited"}]
<1>1. /\ plan = [m \in Nodes |-> plan[m]]
      /\ failed = [m \in Nodes |-> failed[m]]
      /\ state \in [Nodes -> {"constructing", "spinning", "stopped", "exited"}]
  BY DEF RegistrationTyped
<1>2. /\ \/ plan' = [plan EXCEPT ![n] = <<>>]
         \/ plan' = [plan EXCEPT ![n] = Tail(@)]
      /\ \/ failed' = failed
         \/ failed' = [failed EXCEPT ![n] = IF succeeds THEN @ ELSE @ \cup {Head(plan[n]).what}]
      /\ state' = state \/ state' = [state EXCEPT ![n] = "stopped"]
  BY DEF Proceed
<1>3. QED
  BY <1>1, <1>2

LEMMA ConstructTyped ==
    ASSUME Typed, NEW n \in Nodes, Construct(n)
    PROVE  RegistrationTyped'
<1> USE DEF Typed
<1>1. CASE RegisterElsewhere(n) \/ LookAtRobot(n) \/ HubUnreached(n)
  <2>1. PICK succeeds, raises : Proceed(n, succeeds, raises)
    BY <1>1 DEF RegisterElsewhere, LookAtRobot, HubUnreached
  <2>2. UNCHANGED <<answer, known, notices>>
    BY <1>1 DEF RegisterElsewhere, LookAtRobot, HubUnreached
  <2>3. QED
    BY <2>1, <2>2, ProceedTyped DEF RegistrationTyped
<1>2. CASE Return(n)
  <2>1. PICK succeeds, raises : Proceed(n, succeeds, raises)
    BY <1>2 DEF Return
  <2>2. answer' = [answer EXCEPT ![n] = Outcome(@)] /\ UNCHANGED <<known, notices>>
    BY <1>2 DEF Return
  <2>3. \A a : Outcome(a) \in Answers
    BY DEF Outcome, Answers, StatusSize
  <2>4. answer' \in [Nodes -> Answers \cup {NoAnswer}]
    BY <2>2, <2>3 DEF RegistrationTyped
  <2>5. QED
    BY <2>1, <2>2, <2>4, ProceedTyped DEF RegistrationTyped
<1>3. CASE Serve(n)
  <2>1. PICK a \in Answers :
          /\ answer' = [answer EXCEPT ![n] = a]
          /\ known' = IF Entered(a) THEN known \cup {n} ELSE known
          /\ notices' =
               IF ~Entered(a) THEN notices
               ELSE IF n = Subscriber THEN Append(notices, Notice(known))
               ELSE IF Subscriber \in known THEN Append(notices, Notice({n}))
               ELSE notices
          /\ UNCHANGED <<plan, failed, state>>
    BY <1>3 DEF Serve
  <2>2. answer' \in [Nodes -> Answers \cup {NoAnswer}] /\ known' \subseteq Nodes
    BY <2>1 DEF RegistrationTyped
  <2>3. /\ Notice(known) \in [pubs : SUBSET Nodes, arrived : 0 .. Whole]
        /\ Notice({n}) \in [pubs : SUBSET Nodes, arrived : 0 .. Whole]
    BY DEF RegistrationTyped, Notice, Whole
  <2>4. notices' \in Seq([pubs : SUBSET Nodes, arrived : 0 .. Whole])
    <3> DEFINE N == [pubs : SUBSET Nodes, arrived : 0 .. Whole]
    <3>1. notices \in Seq(N) /\ Notice(known) \in N /\ Notice({n}) \in N
      BY <2>3 DEF RegistrationTyped
    <3> HIDE DEF N
    <3>2. Append(notices, Notice(known)) \in Seq(N) /\ Append(notices, Notice({n})) \in Seq(N)
      BY <3>1
    <3>3. notices' \in Seq(N)
      BY <2>1, <3>1, <3>2
    <3>4. QED
      BY <3>3 DEF N
  <2>5. QED
    BY <2>1, <2>2, <2>4 DEF RegistrationTyped
<1>4. CASE Spin(n)
  BY <1>4 DEF Spin, RegistrationTyped
<1>5. QED
  BY <1>1, <1>2, <1>3, <1>4 DEF Construct

(* A connection of whom some fields are replaced.                          *)
LEMMA LinkFields ==
    ASSUME NEW c \in Links
    PROVE  /\ c.status \in {"none", "refused", "backlog", "open", "closed", "forgotten"}
           /\ c.tries \in Nat /\ c.sent \in Seq(Nat)
           /\ c.wire \in Seq(Units) /\ c.arrived \in Seq(Units)
           /\ c = [status |-> c.status, tries |-> c.tries, sent |-> c.sent,
                   wire |-> c.wire, arrived |-> c.arrived]
BY DEF Links

-----------------------------------------------------------------------------
(***************************************************************************)
(* What the steps of the network and of _spin_once do to the connections,  *)
(* field by field.                                                         *)
(***************************************************************************)
OthersKept(p) == \A q \in Publishers \ {p} : link'[q] = link[q]

LEMMA AcceptDoes ==
    ASSUME Typed, NEW p \in Publishers, Accept(p)
    PROVE  /\ link' \in [Publishers -> Links] /\ OthersKept(p)
           /\ link'[p] = [link[p] EXCEPT !.status = "open"]
BY DEF Typed, TopicTyped, Accept, Links, OthersKept

LEMMA PublishDoes ==
    ASSUME Typed, NEW p \in Publishers, Publish(p)
    PROVE  /\ link' \in [Publishers -> Links] /\ OthersKept(p)
           /\ published' \in [Publishers -> Nat]
           /\ \/ link' = link
              \/ \E k \in Nat : link'[p] = [link[p] EXCEPT !.wire = @ \o FrameOf(k),
                                                       !.sent = Append(@, k)]
<1> DEFINE k == published[p] + 1
<1>1. k \in Nat /\ published' = [published EXCEPT ![p] = k] /\ published'[p] = k
  BY DEF Typed, TopicTyped, Publish
<1>2. link[p] \in Links
  BY DEF Typed, TopicTyped
<1> DEFINE w == link[p].wire \o FrameOf(k)
<1> DEFINE s == Append(link[p].sent, k)
<1>3. w \in Seq(Units) /\ s \in Seq(Nat)
  <2>1. FrameOf(k) \in Seq(Units)
    BY <1>1, Frames
  <2>2. link[p].wire \in Seq(Units) /\ link[p].sent \in Seq(Nat)
    BY <1>2, LinkFields
  <2> HIDE DEF k
  <2>3. QED
    BY <1>1, <2>1, <2>2
<1>4. link' = link \/ link' = [link EXCEPT ![p].wire = w, ![p].sent = s]
  BY <1>1 DEF Publish, Typed, TopicTyped
<1> DEFINE c == [link[p] EXCEPT !.wire = w, !.sent = s]
<1> HIDE DEF w, s, k
<1>5. c \in Links
  BY <1>2, <1>3 DEF Links
<1>6. link' = link \/ link' = [link EXCEPT ![p] = c]
  BY <1>4
<1>7. link \in [Publishers -> Links]
  BY DEF Typed, TopicTyped
<1> HIDE DEF c
<1>8. link' \in [Publishers -> Links] /\ OthersKept(p) /\ (link' = link \/ link'[p] = c)
  BY <1>5, <1>6, <1>7 DEF OthersKept
<1>9. published' \in [Publishers -> Nat]
  BY <1>1 DEF Typed, TopicTyped
<1>10. QED
  BY <1>1, <1>8, <1>9 DEF c, w, s

LEMMA LeaveDoes ==
    ASSUME Typed, NEW p \in Publishers, Leave(p)
    PROVE  /\ link' \in [Publishers -> Links] /\ OthersKept(p)
           /\ published' \in [Publishers -> Nat]
           /\ link'[p].sent = link[p].sent /\ link'[p].arrived = link[p].arrived
           /\ link'[p].tries = link[p].tries
           /\ \E tail \in Seq(Units) :
                 Len(tail) < FrameLength /\ link'[p].wire = link[p].wire \o tail
<1>1. PICK n \in 0 .. HeadLength + BodyLength - 1 :
         link' = [link EXCEPT
              ![p] = Closed([@ EXCEPT
                !.wire = link[p].wire \o SubSeq(FrameOf(published[p] + 1), 1, n)])]
  BY DEF Leave
<1> DEFINE k == published[p] + 1
<1> DEFINE tail == SubSeq(FrameOf(k), 1, n)
<1>2. k \in Nat /\ link[p] \in Links
  BY DEF Typed, TopicTyped
<1>3. tail \in Seq(Units) /\ Len(tail) = n /\ n < FrameLength
  <2>1. n \in 0 .. FrameLength /\ n < FrameLength
    BY PartLengths
  <2>2. FrameOf(k) \in Seq(Units) /\ Len(FrameOf(k)) = FrameLength
    BY <1>2, Frames
  <2>3. QED
    BY <2>1, <2>2, FrontOf
<1> DEFINE w == link[p].wire \o tail
<1>4. w \in Seq(Units)
  <2> HIDE DEF tail
  <2>1. QED
    BY <1>2, <1>3, LinkFields
<1> DEFINE c == [link[p] EXCEPT !.wire = w]
<1>5. link' = [link EXCEPT ![p] = Closed(c)]
  BY <1>1
<1> HIDE DEF w
<1>6. /\ Closed(c) \in Links /\ Closed(c).wire = w
      /\ Closed(c).sent = link[p].sent /\ Closed(c).arrived = link[p].arrived
      /\ Closed(c).tries = link[p].tries
  BY <1>2, <1>4 DEF Links, Closed
<1>7. link \in [Publishers -> Links]
  BY DEF Typed, TopicTyped
<1>8. link' \in [Publishers -> Links] /\ OthersKept(p) /\ link'[p] = Closed(c)
  BY <1>5, <1>6, <1>7 DEF OthersKept
<1>9. published' \in [Publishers -> Nat]
  BY DEF Leave, Typed, TopicTyped
<1>10. link'[p].wire = link[p].wire \o tail
  BY <1>6, <1>8 DEF w
<1>11. QED
  BY <1>3, <1>6, <1>8, <1>9, <1>10

LEMMA ArriveDoes ==
    ASSUME Typed, NEW p \in Publishers, Arrive(p)
    PROVE  /\ link' \in [Publishers -> Links] /\ OthersKept(p)
           /\ link'[p].sent = link[p].sent /\ link'[p].tries = link[p].tries
           /\ link'[p].arrived \o link'[p].wire = link[p].arrived \o link[p].wire
<1>1. PICK n \in 1 .. Len(link[p].wire) :
         link' = [link EXCEPT ![p].arrived = @ \o SubSeq(link[p].wire, 1, n),
                              ![p].wire = SubSeq(@, n + 1, Len(@))]
  BY DEF Arrive
<1> DEFINE s == link[p].arrived
<1> DEFINE t == link[p].wire
<1> DEFINE front == SubSeq(t, 1, n)
<1> DEFINE rest == SubSeq(t, n + 1, Len(t))
<1>2. link[p] \in Links /\ s \in Seq(Units) /\ t \in Seq(Units)
  BY LinkFields DEF Typed, TopicTyped
<1>3. n \in 0 .. Len(t)
  BY <1>2
<1>4. front \in Seq(Units) /\ rest \in Seq(Units) /\ (s \o front) \o rest = s \o t
  BY <1>2, <1>3, FrontOf, RestOf, Moved
<1> DEFINE a == s \o front
<1>5. a \in Seq(Units)
  <2> HIDE DEF s, front
  <2>1. QED
    BY <1>2, <1>4
<1> DEFINE c == [link[p] EXCEPT !.arrived = a, !.wire = rest]
<1>6. link' = [link EXCEPT ![p] = c]
  <2>1. link' = [link EXCEPT ![p].arrived = a, ![p].wire = rest]
    BY <1>1
  <2> HIDE DEF a, rest
  <2>2. QED
    BY <2>1
<1>7. a \o rest = s \o t
  BY <1>4
<1> HIDE DEF a, rest, s, t
<1>8. c \in Links /\ c.sent = link[p].sent /\ c.tries = link[p].tries /\ c.arrived = a /\ c.wire = rest
  BY <1>2, <1>4, <1>5 DEF Links
<1>9. link \in [Publishers -> Links]
  BY DEF Typed, TopicTyped
<1> HIDE DEF c
<1>10. link' \in [Publishers -> Links] /\ OthersKept(p) /\ link'[p] = c
  BY <1>6, <1>8, <1>9 DEF OthersKept
<1>11. QED
  BY <1>7, <1>8, <1>10 DEF s, t

LEMMA NoticeArrivesDoes ==
    ASSUME Typed, NoticeArrives
    PROVE  /\ notices' \in Seq([pubs : SUBSET Nodes, arrived : 0 .. Whole])
           /\ Len(notices') = Len(notices)
           /\ \A i \in 1 .. Len(notices) : notices'[i].pubs = notices[i].pubs
           /\ notices # <<>>
<1> DEFINE N == [pubs : SUBSET Nodes, arrived : 0 .. Whole]
<1>1. notices \in Seq(N) /\ notices # <<>>
  BY DEF NoticeArrives, Typed, RegistrationTyped
<1>2. PICK n \in {InOperation, InBodyOfNotice, Whole} :
         notices' = [notices EXCEPT ![1].arrived = n]
  BY DEF NoticeArrives
<1> DEFINE e == [notices[1] EXCEPT !.arrived = n]
<1>3. 1 \in 1 .. Len(notices) /\ notices[1] \in N
  <2> HIDE DEF N
  <2>1. QED
    BY <1>1
<1>4. e \in N /\ e.pubs = notices[1].pubs
  <2>1. n \in 0 .. Whole
    BY DEF InOperation, InBodyOfNotice, Whole
  <2>2. QED
    BY <1>3, <2>1
<1>5. notices' = [notices EXCEPT ![1] = e]
  BY <1>2
<1> HIDE DEF e, N
<1>6. notices' \in Seq(N) /\ Len(notices') = Len(notices)
  BY <1>1, <1>3, <1>4, <1>5
<1>7. \A i \in 1 .. Len(notices) : notices'[i] = IF i = 1 THEN e ELSE notices[i]
  BY <1>1, <1>3, <1>5
<1>8. \A i \in 1 .. Len(notices) : notices'[i].pubs = notices[i].pubs
  BY <1>4, <1>7
<1>9. QED
  BY <1>1, <1>6, <1>8 DEF N

(* Only the tries and the status of a connection change when a notice is   *)
(* taken.                                                                  *)
StreamsKept ==
    \A p \in Publishers :
        /\ link'[p].sent = link[p].sent
        /\ link'[p].wire = link[p].wire
        /\ link'[p].arrived = link[p].arrived

LEMMA ConnectedDoes ==
    ASSUME Typed, NEW announced, NEW read, link' = Connected(announced, read)
    PROVE  /\ link' \in [Publishers -> Links] /\ StreamsKept
           /\ \A p \in Publishers :
                link'[p].tries = IF p \in announced THEN link[p].tries + 1 ELSE link[p].tries
<1>1. ASSUME NEW p \in Publishers
      PROVE  /\ link'[p] \in Links
             /\ link'[p].sent = link[p].sent
             /\ link'[p].wire = link[p].wire
             /\ link'[p].arrived = link[p].arrived
             /\ link'[p].tries = IF p \in announced THEN link[p].tries + 1 ELSE link[p].tries
  <2> DEFINE st == IF p \in read THEN Client(p) ELSE link[p].status
  <2>1. link[p] \in Links
    BY DEF Typed, TopicTyped
  <2>2. st \in {"none", "refused", "backlog", "open", "closed", "forgotten"}
    BY <2>1, LinkFields DEF Client
  <2>3. link'[p] = IF p \notin announced THEN link[p]
                   ELSE [link[p] EXCEPT !.tries = link[p].tries + 1, !.status = st]
    BY <1>1 DEF Connected
  <2> DEFINE c == link[p]
  <2> DEFINE d == [c EXCEPT !.tries = c.tries + 1, !.status = st]
  <2> HIDE DEF st, c
  <2>4. c \in Links
    BY <2>1 DEF c
  <2>5. /\ d \in Links /\ d.sent = c.sent /\ d.wire = c.wire /\ d.arrived = c.arrived
        /\ d.tries = c.tries + 1
    <3> DEFINE n == c.tries + 1
    <3>1. n \in Nat
      BY <2>4, LinkFields
    <3> HIDE DEF n
    <3>2. /\ [c EXCEPT !.tries = n, !.status = st] \in Links
          /\ [c EXCEPT !.tries = n, !.status = st].sent = c.sent
          /\ [c EXCEPT !.tries = n, !.status = st].wire = c.wire
          /\ [c EXCEPT !.tries = n, !.status = st].arrived = c.arrived
          /\ [c EXCEPT !.tries = n, !.status = st].tries = n
      BY <2>2, <2>4, <3>1 DEF Links
    <3>3. QED
      BY <3>2 DEF n
  <2>6. link'[p] = IF p \notin announced THEN c ELSE d
    BY <2>3 DEF c
  <2> HIDE DEF d
  <2>7. QED
    BY <2>4, <2>5, <2>6 DEF c
<1>2. link' = [p \in Publishers |-> link'[p]]
  BY DEF Connected
<1>3. link' \in [Publishers -> Links]
  BY <1>1, <1>2
<1>4. QED
  BY <1>1, <1>3 DEF StreamsKept

LEMMA PollServerDoes ==
    ASSUME Typed, PollServer
    PROVE  /\ at = "server" /\ at' \in {"clients", "dead"} /\ todo' \subseteq Publishers
           /\ link' \in [Publishers -> Links] /\ StreamsKept
           /\ \/ notices = <<>> /\ UNCHANGED <<link, notices>>
              \/ /\ notices # <<>> /\ notices' = Tail(notices)
                 /\ \/ at' = "dead" /\ link' = link
                    \/ \A p \in Publishers :
                         link'[p].tries = IF p \in Head(notices).pubs THEN link[p].tries + 1
                                          ELSE link[p].tries
<1>1. link \in [Publishers -> Links] /\ todo \subseteq Publishers
  BY DEF Typed, TopicTyped, ReadingTyped
<1>2. \A l : ClientsOf(l) \subseteq Publishers
  BY DEF ClientsOf
<1>3. at = "server"
  BY DEF PollServer
<1>4. CASE notices = <<>>
  BY <1>1, <1>2, <1>3, <1>4 DEF PollServer, StreamsKept
<1>5. CASE notices # <<>>
  <2>1. notices' = Tail(notices)
    BY <1>5 DEF PollServer
  <2>2. CASE at' = "dead" /\ UNCHANGED <<link, todo>>
    BY <1>1, <1>3, <1>5, <2>1, <2>2 DEF StreamsKept
  <2>3. CASE /\ \E read \in Read(Head(notices)) : link' = Connected(Head(notices).pubs, read)
             /\ at' = "clients" /\ todo' = ClientsOf(link')
    BY <1>2, <1>3, <1>5, <2>1, <2>3, ConnectedDoes
  <2>4. QED
    BY <1>5, <2>2, <2>3 DEF PollServer
<1>6. QED
  BY <1>4, <1>5

LEMMA PassOverDoes ==
    ASSUME Typed, NEW p \in Publishers, PassOver(p)
    PROVE  /\ link' \in [Publishers -> Links] /\ StreamsKept
           /\ \A q \in Publishers : link'[q].tries = link[q].tries
           /\ todo' \subseteq Publishers
<1>1. link \in [Publishers -> Links] /\ todo \subseteq Publishers
  BY DEF Typed, TopicTyped, ReadingTyped
<1>2. link' = link \/ link' = [link EXCEPT ![p].status = "forgotten"]
  BY DEF PassOver
<1>3. link' \in [Publishers -> Links]
  <2>1. CASE link' = [link EXCEPT ![p].status = "forgotten"]
    <3>1. [link[p] EXCEPT !.status = "forgotten"] \in Links
      <4>1. link[p] \in Links
        BY <1>1
      <4>2. QED
        BY <4>1 DEF Links
    <3> DEFINE l == [link[p] EXCEPT !.status = "forgotten"]
    <3>2. link' = [link EXCEPT ![p] = l]
      BY <2>1
    <3>3. l \in Links
      BY <3>1
    <3> HIDE DEF l
    <3>4. QED
      BY <1>1, <3>2, <3>3
  <2>2. QED
    BY <1>1, <1>2, <2>1
<1>4. \A q \in Publishers : /\ link'[q].tries = link[q].tries
                            /\ link'[q].sent = link[q].sent
                            /\ link'[q].wire = link[q].wire
                            /\ link'[q].arrived = link[q].arrived
  <2> TAKE q \in Publishers
  <2> DEFINE c == link[q]
  <2>1. c \in Links
    BY <1>1
  <2>2. link'[q] = c \/ link'[q] = [c EXCEPT !.status = "forgotten"]
    BY <1>1, <1>2
  <2> HIDE DEF c
  <2>3. /\ link'[q].tries = c.tries
        /\ link'[q].sent = c.sent
        /\ link'[q].wire = c.wire
        /\ link'[q].arrived = c.arrived
    BY <2>1, <2>2 DEF Links
  <2>4. QED
    BY <2>3 DEF c
<1>5. QED
  BY <1>1, <1>3, <1>4 DEF StreamsKept, PassOver

(* What a read takes: the first n units that have arrived.                 *)
Took(p, n) ==
    /\ link' \in [Publishers -> Links] /\ OthersKept(p)
    /\ link'[p].sent = link[p].sent /\ link'[p].tries = link[p].tries
    /\ link'[p].wire = link[p].wire
    /\ link'[p].arrived = SubSeq(link[p].arrived, n + 1, Len(link[p].arrived))

LEMMA TakeDoes ==
    ASSUME Typed, NEW p \in Publishers, NEW n \in 0 .. Len(link[p].arrived),
           link' = [link EXCEPT ![p] = Take(link[p], n)]
    PROVE  Took(p, n)
<1> DEFINE a == SubSeq(link[p].arrived, n + 1, Len(link[p].arrived))
<1>1. link[p] \in Links /\ link \in [Publishers -> Links]
  BY DEF Typed, TopicTyped
<1>2. a \in Seq(Units)
  <2>1. link[p].arrived \in Seq(Units)
    BY <1>1, LinkFields
  <2>2. QED
    BY <2>1, RestOf
<1> DEFINE c == [link[p] EXCEPT !.arrived = a]
<1>3. link' = [link EXCEPT ![p] = c]
  BY DEF Take
<1> HIDE DEF a
<1>4. /\ c \in Links /\ c.sent = link[p].sent /\ c.tries = link[p].tries
      /\ c.wire = link[p].wire /\ c.arrived = a
  BY <1>1, <1>2 DEF Links
<1> HIDE DEF c
<1>5. link' \in [Publishers -> Links] /\ OthersKept(p) /\ link'[p] = c
  BY <1>1, <1>3, <1>4 DEF OthersKept
<1>6. QED
  BY <1>4, <1>5 DEF Took, a

LEMMA LeastIs ==
    ASSUME NEW m \in Nat, NEW n \in Nat
    PROVE  Least(m, n) \in Nat /\ Least(m, n) <= m /\ Least(m, n) <= n
BY DEF Least

LEMMA ReadHeadDoes ==
    ASSUME Typed, NEW p \in Publishers, ReadHead(p)
    PROVE  /\ at = "clients" /\ at' = "body" /\ todo' \subseteq Publishers
           /\ \E n \in 1 .. Len(link[p].arrived) :
                /\ Took(p, n)
                /\ \/ /\ n = HeadLength /\ torn' = torn
                      /\ \E k \in Nat : /\ frame' = Frame(p, k, BodyLength)
                                        /\ SubSeq(link[p].arrived, 1, n) = HeadOf(k)
                   \/ /\ torn' = torn \cup {p}
                      /\ \E m \in Nat : frame' = Frame(p, 0, m)
<1> DEFINE a == link[p].arrived
<1> DEFINE n == Least(HeadLength, Len(a))
<1> DEFINE units == SubSeq(a, 1, n)
<1>1. a \in Seq(Units) /\ a # <<>> /\ Len(a) \in Nat
  <2>1. a \in Seq(Units) /\ a # <<>>
    BY LinkFields DEF Typed, TopicTyped, ReadHead
  <2> HIDE DEF a
  <2>2. QED
    BY <2>1
<1>2. n \in 1 .. Len(a) /\ n <= HeadLength
  <2> HIDE DEF a
  <2>1. Len(a) >= 1
    BY <1>1
  <2>2. QED
    BY <1>1, <2>1, PartLengths DEF Least
<1>3. Len(units) = n
  <2> HIDE DEF a, n
  <2>1. QED
    BY <1>1, <1>2
<1>4. link' = [link EXCEPT ![p] = Take(link[p], Len(units))]
  BY DEF ReadHead
<1>5. Took(p, n)
  <2> HIDE DEF n, units
  <2>1. n \in 0 .. Len(link[p].arrived)
    BY <1>1, <1>2
  <2>2. link' = [link EXCEPT ![p] = Take(link[p], n)]
    BY <1>3, <1>4
  <2>3. QED
    BY <2>1, <2>2, TakeDoes
<1>6. \/ torn' = torn /\ \E k \in 1 .. MaxMessages[p] : units = HeadOf(k) /\ frame' = Frame(p, k, BodyLength)
      \/ torn' = torn \cup {p} /\ \E m \in Lengths : frame' = Frame(p, 0, m)
  BY DEF ReadHead
<1>7. at = "clients" /\ at' = "body" /\ todo' \subseteq Publishers
  BY DEF ReadHead, Typed, ReadingTyped
<1> HIDE DEF n
<1>8. ASSUME NEW k \in 1 .. MaxMessages[p], units = HeadOf(k)
      PROVE  k \in Nat /\ n = HeadLength
  <2>1. k \in Nat
    OBVIOUS
  <2>2. QED
    BY <1>3, <1>8, <2>1, Frames
<1>9. QED
  BY <1>2, <1>5, <1>6, <1>7, <1>8, LengthsAreNatural

LEMMA ReadBodyDoes ==
    ASSUME Typed, ReadBody
    PROVE  LET p == frame.from
           IN  /\ at = "body" /\ p \in Publishers
               /\ \E n \in 1 .. Len(link[p].arrived) :
                    /\ Took(p, n)
                    /\ Len(frame.body) + n <= frame.need
                    /\ frame' = [frame EXCEPT !.body = frame.body \o SubSeq(link[p].arrived, 1, n)]
<1> DEFINE p == frame.from
<1> DEFINE a == link[p].arrived
<1> DEFINE b == frame.body
<1> DEFINE n == Least(frame.need - Len(b), Len(a))
<1>1. p \in Publishers /\ at = "body"
  BY DEF Typed, ReadingTyped, ReadBody, InBody
<1>2. a \in Seq(Units) /\ a # <<>>
  BY <1>1, LinkFields DEF Typed, TopicTyped, ReadBody
<1>3. b \in Seq(Units) /\ frame.need \in Nat /\ Len(b) < frame.need
  BY DEF Typed, ReadingTyped, ReadBody, InBody
<1>4. Len(a) \in Nat /\ Len(a) >= 1 /\ Len(b) \in Nat
  <2> HIDE DEF a, b
  <2>1. QED
    BY <1>2, <1>3
<1>5. n \in 1 .. Len(a) /\ Len(b) + n <= frame.need
  <2> DEFINE w == frame.need
  <2> HIDE DEF a, b, w
  <2>1. w - Len(b) \in Nat /\ w - Len(b) >= 1
    BY <1>3, <1>4 DEF w
  <2>2. Least(w - Len(b), Len(a)) \in 1 .. Len(a) /\ Len(b) + Least(w - Len(b), Len(a)) <= w
    BY <1>3, <1>4, <2>1 DEF Least, w
  <2>3. QED
    BY <2>2 DEF w
<1>6. /\ frame' = [frame EXCEPT !.body = b \o SubSeq(a, 1, n)]
      /\ link' = [link EXCEPT ![p] = Take(link[p], n)]
  BY DEF ReadBody
<1>7. Took(p, n)
  <2>1. n \in 0 .. Len(link[p].arrived)
    BY <1>5
  <2> HIDE DEF n, p
  <2>2. QED
    BY <1>1, <1>6, <2>1, TakeDoes
<1>8. QED
  BY <1>1, <1>5, <1>6, <1>7

-----------------------------------------------------------------------------
LEMMA TypedInitially == Init => Typed
<1> SUFFICES ASSUME Init PROVE Typed
  OBVIOUS
<1>1. RegistrationTyped
  <2>1. notices = <<>> /\ known = {} /\ state = [n \in Nodes |-> "constructing"]
    BY DEF Init, RegistrationInit
  <2>2. answer = [n \in Nodes |-> NoAnswer] /\ failed = [n \in Nodes |-> {}]
    BY DEF Init, RegistrationInit
  <2>3. plan = [n \in Nodes |-> plan[n]]
    BY DEF Init, RegistrationInit
  <2>4. notices \in Seq([pubs : SUBSET Nodes, arrived : 0 .. Whole])
    BY <2>1
  <2>5. QED
    BY <2>1, <2>2, <2>3, <2>4 DEF RegistrationTyped
<1>2. TopicTyped
  <2>1. <<>> \in Seq(Nat) /\ <<>> \in Seq(Units)
    OBVIOUS
  <2>2. NotConnected \in Links
    BY <2>1 DEF NotConnected, Links
  <2>3. QED
    BY <2>2 DEF Init, TopicTyped
<1>3. ReadingTyped
  <2>1. <<>> \in Seq(Nat) /\ <<>> \in Seq(Units)
    OBVIOUS
  <2>2. NoFrame \in [from : Nodes, head : Nat, need : Nat, body : Seq(Units)]
    BY <2>1 DEF NoFrame, Frame, Nodes
  <2>3. QED
    BY <2>1, <2>2 DEF Init, ReadingTyped
<1>4. QED
  BY <1>1, <1>2, <1>3 DEF Typed

LEMMA TypedKept == Typed /\ [Next]_vars => Typed'
<1> SUFFICES ASSUME Typed, [Next]_vars PROVE Typed'
  OBVIOUS
<1>0. RegistrationTyped /\ TopicTyped /\ ReadingTyped
  BY DEF Typed
<1>1. /\ UNCHANGED registration => RegistrationTyped'
      /\ UNCHANGED topic => TopicTyped'
      /\ UNCHANGED reading => ReadingTyped'
  BY <1>0 DEF registration, topic, reading, RegistrationTyped, TopicTyped, ReadingTyped
<1>2. NoFrame \in [from : Nodes, head : Nat, need : Nat, body : Seq(Units)]
  <2>1. <<>> \in Seq(Units)
    OBVIOUS
  <2>2. QED
    BY <2>1 DEF NoFrame, Frame, Nodes
<1>3. ASSUME NEW n \in Nodes, Construct(n) /\ UNCHANGED <<topic, reading>>
      PROVE  Typed'
  BY <1>1, <1>3, ConstructTyped DEF Typed
<1>4. ASSUME NEW p \in Publishers, Accept(p)
      PROVE  Typed'
  <2>1. TopicTyped'
    BY <1>0, <1>4, AcceptDoes DEF Accept, TopicTyped
  <2>2. QED
    BY <1>1, <1>4, <2>1 DEF Accept, Typed
<1>5. ASSUME NEW p \in Publishers, Publish(p)
      PROVE  Typed'
  BY <1>1, <1>5, PublishDoes DEF Publish, Typed, TopicTyped
<1>6. ASSUME NEW p \in Publishers, Leave(p)
      PROVE  Typed'
  <2>1. RegistrationTyped'
    <3>1. p \in Nodes
      BY DEF Nodes
    <3>2. NoAnswer \in Answers \cup {NoAnswer}
      OBVIOUS
    <3>3. QED
      BY <1>0, <1>6, <3>1, <3>2 DEF Leave, Exit, RegistrationTyped
  <2>2. TopicTyped' /\ UNCHANGED reading
    BY <1>6, LeaveDoes DEF Leave, TopicTyped
  <2>3. QED
    BY <1>1, <2>1, <2>2 DEF Typed
<1>7. ASSUME NEW p \in Publishers, Arrive(p)
      PROVE  Typed'
  <2>1. TopicTyped'
    BY <1>0, <1>7, ArriveDoes DEF Arrive, TopicTyped
  <2>2. QED
    BY <1>1, <1>7, <2>1 DEF Arrive, Typed
<1>8. CASE NoticeArrives
  <2>1. RegistrationTyped'
    BY <1>0, <1>8, NoticeArrivesDoes DEF NoticeArrives, RegistrationTyped
  <2>2. QED
    BY <1>1, <1>8, <2>1 DEF NoticeArrives, Typed
<1>9. CASE PollServer
  <2>1. RegistrationTyped'
    <3> DEFINE N == [pubs : SUBSET Nodes, arrived : 0 .. Whole]
    <3>1. notices \in Seq(N)
      BY <1>0 DEF RegistrationTyped
    <3> HIDE DEF N
    <3>2. notices # <<>> => Tail(notices) \in Seq(N)
      BY <3>1
    <3>3. notices' \in Seq(N)
      BY <1>9, <3>1, <3>2, PollServerDoes
    <3>4. QED
      BY <1>0, <1>9, <3>3 DEF PollServer, RegistrationTyped, N
  <2>2. TopicTyped'
    BY <1>0, <1>9, PollServerDoes DEF PollServer, TopicTyped
  <2>3. ReadingTyped'
    BY <1>0, <1>9, PollServerDoes DEF PollServer, ReadingTyped
  <2>4. QED
    BY <2>1, <2>2, <2>3 DEF Typed
<1>10. ASSUME NEW p \in Publishers, PassOver(p)
       PROVE  Typed'
  <2>1. TopicTyped' /\ ReadingTyped'
    BY <1>0, <1>10, PassOverDoes DEF PassOver, TopicTyped, ReadingTyped, Idle
  <2>2. QED
    BY <1>1, <1>10, <2>1 DEF PassOver, Typed
<1>11. ASSUME NEW p \in Publishers, ReadHead(p)
       PROVE  Typed'
  <2>1. TopicTyped'
    BY <1>0, <1>11, ReadHeadDoes DEF ReadHead, TopicTyped, Took
  <2>2. frame' \in [from : Nodes, head : Nat, need : Nat, body : Seq(Units)] /\ frame'.from \in Publishers
    <3>1. PICK k \in Nat, m \in Nat : frame' = Frame(p, k, m)
      BY <1>11, ReadHeadDoes, PartLengths
    <3>2. <<>> \in Seq(Units)
      OBVIOUS
    <3>3. QED
      BY <3>1, <3>2 DEF Frame, Nodes
  <2>3. ReadingTyped'
    BY <1>0, <1>11, <2>2, ReadHeadDoes DEF ReadHead, ReadingTyped
  <2>4. QED
    BY <1>1, <1>11, <2>1, <2>3 DEF ReadHead, Typed
<1>12. CASE ReadBody
  <2> DEFINE p == frame.from
  <2>1. PICK n \in 1 .. Len(link[p].arrived) :
                    /\ Took(p, n)
                    /\ frame' = [frame EXCEPT !.body = frame.body \o SubSeq(link[p].arrived, 1, n)]
    BY <1>12, ReadBodyDoes
  <2>2. TopicTyped'
    BY <1>0, <1>12, <2>1 DEF ReadBody, TopicTyped, Took
  <2>3. frame.body \o SubSeq(link[p].arrived, 1, n) \in Seq(Units)
    <3> DEFINE a == link[p].arrived
    <3> DEFINE b == frame.body
    <3>1. a \in Seq(Units) /\ b \in Seq(Units)
      BY <1>0, <1>12, ReadBodyDoes, LinkFields DEF TopicTyped, ReadingTyped
    <3> HIDE DEF a, b
    <3>2. n \in 0 .. Len(a)
      BY <3>1 DEF a
    <3>3. SubSeq(a, 1, n) \in Seq(Units)
      BY <3>1, <3>2, FrontOf
    <3>4. b \o SubSeq(a, 1, n) \in Seq(Units)
      BY <3>1, <3>3
    <3>5. QED
      BY <3>4 DEF a, b
  <2> DEFINE nb == frame.body \o SubSeq(link[p].arrived, 1, n)
  <2>4. frame' = [frame EXCEPT !.body = nb] /\ nb \in Seq(Units)
    BY <2>1, <2>3
  <2> HIDE DEF nb
  <2>5. ReadingTyped'
    BY <1>0, <1>12, <2>4 DEF ReadBody, ReadingTyped
  <2>6. QED
    BY <1>1, <1>12, <2>2, <2>5 DEF ReadBody, Typed
<1>13. CASE GiveUp
  <2>1. ReadingTyped'
    BY <1>0, <1>2, <1>13 DEF GiveUp, InBody, ReadingTyped
  <2>2. QED
    BY <1>1, <1>13, <2>1 DEF GiveUp, Typed
<1>14. CASE CallBack
  <2> DEFINE p == frame.from
  <2> DEFINE x == IF frame.body = BodyOf(frame.head) THEN frame.head ELSE 0
  <2>1. x \in Nat /\ p \in Publishers
    BY <1>0, <1>14 DEF CallBack, ReadingTyped
  <2>2. delivered' = delivered \/ delivered' = [delivered EXCEPT ![p] = Append(delivered[p], x)]
    BY <1>14 DEF CallBack
  <2> HIDE DEF x, p
  <2>3. Append(delivered[p], x) \in Seq(Nat)
    <3> DEFINE d == delivered[p]
    <3>1. d \in Seq(Nat)
      BY <1>0, <2>1 DEF ReadingTyped
    <3> HIDE DEF d
    <3>2. Append(d, x) \in Seq(Nat)
      BY <2>1, <3>1
    <3>3. QED
      BY <3>2 DEF d
  <2>4. delivered' \in [Publishers -> Seq(Nat)]
    BY <1>0, <2>2, <2>3 DEF ReadingTyped
  <2>5. ReadingTyped'
    BY <1>0, <1>2, <1>14, <2>4 DEF CallBack, ReadingTyped
  <2>6. QED
    BY <1>1, <1>14, <2>5 DEF CallBack, Typed
<1>15. CASE EndRound
  <2>1. ReadingTyped'
    BY <1>0, <1>15 DEF EndRound, ReadingTyped
  <2>2. QED
    BY <1>1, <1>15, <2>1 DEF EndRound, Typed
<1>16. CASE UNCHANGED vars
  BY <1>1, <1>16 DEF vars, Typed
<1>17. QED
  BY <1>3, <1>4, <1>5, <1>6, <1>7, <1>8, <1>9, <1>10, <1>11, <1>12, <1>13, <1>14, <1>15, <1>16
     DEF Next

-----------------------------------------------------------------------------
(* Who is believed to be registered is known to the hub                    *)

(* A registration of another kind goes on or ends the construction; it     *)
(* never makes good a failed registration on the topic.                    *)
LEMMA ProceedDoes ==
    ASSUME RegistrationTyped, NEW n \in Nodes, NEW succeeds, NEW raises, state[n] = "constructing",
           Proceed(n, succeeds, raises)
    PROVE  /\ \A m \in Nodes \ {n} :
                plan'[m] = plan[m] /\ failed'[m] = failed[m] /\ state'[m] = state[m]
           /\ state'[n] \in {"constructing", "stopped"}
           /\ failed[n] \subseteq failed'[n]
           /\ \/ state'[n] = "stopped"
              \/ succeeds
              \/ Head(plan[n]).what \in failed'[n]
<1>1. /\ plan = [m \in Nodes |-> plan[m]]
      /\ failed = [m \in Nodes |-> failed[m]]
      /\ state \in [Nodes -> {"constructing", "spinning", "stopped", "exited"}]
  BY DEF RegistrationTyped
<1>2. CASE ~succeeds /\ (Head(plan[n]).checked \/ raises)
  BY <1>1, <1>2 DEF Proceed
<1>3. CASE ~(~succeeds /\ (Head(plan[n]).checked \/ raises))
  <2>1. /\ plan' = [plan EXCEPT ![n] = Tail(plan[n])]
        /\ failed' = [failed EXCEPT
              ![n] = IF succeeds THEN failed[n] ELSE failed[n] \cup {Head(plan[n]).what}]
        /\ state' = state
    BY <1>3 DEF Proceed
  <2>2. QED
    BY <1>1, <2>1
<1>4. QED
  BY <1>2, <1>3

(* What n remembers depends on its own part of the state.                  *)
LEMMA RememberedElsewhere ==
    ASSUME NEW n \in Nodes, RememberedOf(n), plan'[n] = plan[n], answer'[n] = answer[n],
           failed'[n] = failed[n], state'[n] = state[n], n \in known => n \in known'
    PROVE  RememberedOf(n)'
BY DEF RememberedOf, AtStep

LEMMA RememberedInConstruction ==
    ASSUME RegistrationTyped, Remembered, NEW n \in Nodes, Construct(n)
    PROVE  Remembered'
<1> USE DEF Remembered
<1>0. /\ answer \in [Nodes -> Answers \cup {NoAnswer}]
      /\ plan = [m \in Nodes |-> plan[m]]
      /\ failed = [m \in Nodes |-> failed[m]]
      /\ state \in [Nodes -> {"constructing", "spinning", "stopped", "exited"}]
      /\ RememberedOf(n)
  BY DEF RegistrationTyped
<1>1. CASE RegisterElsewhere(n) \/ LookAtRobot(n) \/ HubUnreached(n)
  <2>1. PICK succeeds, raises : Proceed(n, succeeds, raises)
    BY <1>1 DEF RegisterElsewhere, LookAtRobot, HubUnreached
  <2>2. UNCHANGED <<answer, known, notices>> /\ state[n] = "constructing"
    BY <1>1 DEF RegisterElsewhere, LookAtRobot, HubUnreached, AtStep
  <2>3. /\ \A m \in Nodes \ {n} :
              plan'[m] = plan[m] /\ failed'[m] = failed[m] /\ state'[m] = state[m]
        /\ failed[n] \subseteq failed'[n]
    BY <2>1, <2>2, ProceedDoes
  <2>4. answer[n].error = 0
    <3>1. ~AtStep(n, "topic") \/ answer[n] = NoAnswer
      BY <1>1 DEF RegisterElsewhere, LookAtRobot, HubUnreached, AtStep
    <3>2. QED
      BY <1>0, <3>1 DEF RememberedOf, NoAnswer
  <2>5. RememberedOf(n)'
    BY <1>0, <2>2, <2>3, <2>4 DEF RememberedOf
  <2>6. QED
    BY <2>2, <2>3, <2>5, RememberedElsewhere
<1>2. CASE Serve(n)
  <2>1. PICK a \in Answers :
          /\ answer' = [answer EXCEPT ![n] = a] /\ a.sent
          /\ known' = IF Entered(a) THEN known \cup {n} ELSE known
          /\ UNCHANGED <<plan, failed, state>>
    BY <1>2 DEF Serve
  <2>2. answer'[n] = a /\ AtStep(n, "topic")' /\ (a.error = 0 => n \in known')
    BY <1>0, <1>2, <2>1 DEF Serve, AtStep, Entered
  <2>3. RememberedOf(n)'
    BY <2>2 DEF RememberedOf
  <2>4. \A m \in Nodes \ {n} : answer'[m] = answer[m]
    BY <1>0, <2>1
  <2>5. QED
    BY <2>1, <2>3, <2>4, RememberedElsewhere
<1>3. CASE Return(n)
  <2>1. PICK raises : Proceed(n, Succeeds(Language[n], answer[n]), raises)
    BY <1>3 DEF Return
  <2>2. /\ answer' = [answer EXCEPT ![n] = Outcome(@)] /\ UNCHANGED <<known, notices>>
        /\ state[n] = "constructing" /\ Head(plan[n]).what = "topic" /\ answer[n] # NoAnswer
    BY <1>3 DEF Return, AtStep
  <2>3. /\ \A m \in Nodes \ {n} :
              plan'[m] = plan[m] /\ failed'[m] = failed[m] /\ state'[m] = state[m]
        /\ failed[n] \subseteq failed'[n]
        /\ \/ state'[n] = "stopped"
           \/ Succeeds(Language[n], answer[n])
           \/ "topic" \in failed'[n]
    <3> DEFINE succeeds == Succeeds(Language[n], answer[n])
    <3> HIDE DEF succeeds
    <3>1. Proceed(n, succeeds, raises)
      BY <2>1 DEF succeeds
    <3>2. /\ \A m \in Nodes \ {n} :
                plan'[m] = plan[m] /\ failed'[m] = failed[m] /\ state'[m] = state[m]
          /\ failed[n] \subseteq failed'[n]
          /\ state'[n] = "stopped" \/ succeeds \/ Head(plan[n]).what \in failed'[n]
      BY <2>2, <3>1, ProceedDoes
    <3>3. QED
      BY <2>2, <3>2 DEF succeeds
  <2>4. answer'[n] = Outcome(answer[n]) /\ \A m \in Nodes \ {n} : answer'[m] = answer[m]
    BY <1>0, <2>2
  <2>5. /\ answer'[n].error = 0
        /\ answer'[n].bytes = StatusSize => answer[n].bytes = StatusSize
    BY <2>4 DEF Outcome, StatusSize
  <2>6. ASSUME answer[n].bytes = StatusSize, Succeeds(Language[n], answer[n])
        PROVE  answer[n].error = 0
    BY <2>6 DEF Succeeds, ErrorRead
  <2>7. RememberedOf(n)'
    <3>1. ASSUME answer'[n].bytes = StatusSize, "topic" \notin failed'[n],
                 state'[n] \in {"constructing", "spinning"}
          PROVE  n \in known'
      <4>1. answer[n].bytes = StatusSize /\ answer[n].error = 0
        BY <2>3, <2>5, <2>6, <3>1
      <4>2. "topic" \notin failed[n]
        BY <2>3, <3>1
      <4>3. QED
        BY <1>0, <2>2, <4>1, <4>2 DEF RememberedOf
    <3>2. QED
      BY <2>5, <3>1 DEF RememberedOf
  <2>8. QED
    BY <2>2, <2>3, <2>4, <2>7, RememberedElsewhere
<1>4. CASE Spin(n)
  <2>1. /\ state[n] = "constructing" /\ plan[n] = <<>>
        /\ UNCHANGED <<plan, answer, failed, known, notices>>
        /\ \A m \in Nodes \ {n} : state'[m] = state[m]
    BY <1>0, <1>4 DEF Spin
  <2>2. ~AtStep(n, "topic")
    BY <2>1 DEF AtStep
  <2>3. RememberedOf(n)'
    BY <1>0, <2>1, <2>2 DEF RememberedOf
  <2>4. QED
    BY <2>1, <2>3, RememberedElsewhere
<1>5. QED
  BY <1>1, <1>2, <1>3, <1>4 DEF Construct

LEMMA RememberedInExit ==
    ASSUME RegistrationTyped, Remembered, NEW n \in Nodes, Exit(n)
    PROVE  Remembered'
<1> USE DEF Remembered
<1>1. /\ UNCHANGED plan
      /\ answer'[n] = NoAnswer /\ state'[n] = "exited"
      /\ \A m \in Nodes \ {n} :
            answer'[m] = answer[m] /\ failed'[m] = failed[m] /\ state'[m] = state[m]
      /\ \A m \in Nodes \ {n} : m \in known => m \in known'
  BY DEF Exit, RegistrationTyped
<1>2. RememberedOf(n)'
  BY <1>1 DEF RememberedOf, NoAnswer
<1>3. QED
  BY <1>1, <1>2, RememberedElsewhere

-----------------------------------------------------------------------------
(* Nobody is announced twice                                               *)

(* Steps that neither serve a registration nor touch a notice.             *)
LEMMA ServingUntouched ==
    ASSUME Serving, notices' = notices, known' \subseteq known,
           \A n \in Nodes : Unserved(n)' => Unserved(n),
           \A p \in Publishers : link'[p].tries = link[p].tries,
           at = "dead" => at' = "dead"
    PROVE  Serving'
<1>1. \A p \in Publishers : Pending(p)' = Pending(p)
  BY DEF Pending
<1>2. Publishers \subseteq Nodes /\ Subscriber \in Nodes
  BY DEF Nodes
<1>3. ASSUME NEW p \in Publishers PROVE ServingOf(p)'
  <2>1. ServingOf(p) /\ (Unserved(p)' => Unserved(p))
    BY <1>2 DEF Serving
  <2>2. QED
    BY <1>1, <2>1 DEF ServingOf
<1>4. QED
  BY <1>2, <1>3 DEF Serving

LEMMA PendingAppend ==
    ASSUME Typed, NEW pubs \in SUBSET Nodes, notices' = Append(notices, Notice(pubs)), NEW p
    PROVE  /\ Len(notices) + 1 \notin Pending(p)
           /\ Pending(p)' = IF p \in pubs THEN Pending(p) \cup {Len(notices) + 1} ELSE Pending(p)
<1> DEFINE N == [pubs : SUBSET Nodes, arrived : 0 .. Whole]
<1> DEFINE e == Notice(pubs)
<1>1. notices \in Seq(N) /\ e \in N /\ e.pubs = pubs
  BY DEF Typed, RegistrationTyped, Notice, Whole
<1> HIDE DEF N, e
<1>2. /\ notices' \in Seq(N) /\ Len(notices) \in Nat
      /\ DOMAIN notices' = 1 .. Len(notices) + 1 /\ DOMAIN notices = 1 .. Len(notices)
      /\ \A i \in 1 .. Len(notices) : notices'[i] = notices[i]
      /\ notices'[Len(notices) + 1] = e
  BY <1>1 DEF e
<1>3. QED
  BY <1>1, <1>2 DEF Pending

LEMMA PendingTail ==
    ASSUME Typed, notices # <<>>, notices' = Tail(notices), NEW p
    PROVE  /\ \A i : i \in Pending(p)' <=> i \in Nat \ {0} /\ i + 1 \in Pending(p)
           /\ Head(notices) = notices[1] /\ 1 \in DOMAIN notices
           /\ DOMAIN notices \subseteq Nat \ {0}
<1> DEFINE N == [pubs : SUBSET Nodes, arrived : 0 .. Whole]
<1>1. notices \in Seq(N)
  BY DEF Typed, RegistrationTyped
<1> HIDE DEF N
<1>2. /\ Len(notices) \in Nat /\ Len(notices) >= 1
      /\ DOMAIN notices' = 1 .. Len(notices) - 1 /\ DOMAIN notices = 1 .. Len(notices)
      /\ \A i \in 1 .. Len(notices) - 1 : notices'[i] = notices[i + 1]
      /\ Head(notices) = notices[1]
  BY <1>1
<1>3. QED
  BY <1>2 DEF Pending

LEMMA ServingServe ==
    ASSUME Typed, Serving, NEW n \in Nodes, Serve(n), UNCHANGED <<topic, reading>>
    PROVE  Serving'
<1>1. PICK a \in Answers :
          /\ a.sent
          /\ answer' = [answer EXCEPT ![n] = a]
          /\ known' = IF Entered(a) THEN known \cup {n} ELSE known
          /\ notices' =
               IF ~Entered(a) THEN notices
               ELSE IF n = Subscriber THEN Append(notices, Notice(known))
               ELSE IF Subscriber \in known THEN Append(notices, Notice({n}))
               ELSE notices
          /\ UNCHANGED <<plan, failed, state>>
  BY DEF Serve
<1>2. /\ Publishers \subseteq Nodes /\ Subscriber \in Nodes
      /\ \A m \in Nodes : m \in Publishers \/ m = Subscriber
  BY DEF Nodes
<1>3. /\ ~Unserved(n)' /\ Unserved(n)
      /\ \A m \in Nodes : Unserved(m)' => Unserved(m) /\ m # n
  <2>1. answer \in [Nodes -> Answers \cup {NoAnswer}]
    BY DEF Typed, RegistrationTyped
  <2>2. answer'[n] = a /\ \A m \in Nodes \ {n} : answer'[m] = answer[m]
    BY <1>1, <2>1
  <2>3. a # NoAnswer
    BY <1>1 DEF NoAnswer
  <2>4. state' = state /\ answer[n] = NoAnswer /\ state[n] = "constructing"
    BY <1>1 DEF Serve, AtStep
  <2>5. QED
    BY <2>2, <2>3, <2>4 DEF Unserved
<1>4. link' = link /\ at' = at
  BY DEF topic, reading
<1>5. CASE ~Entered(a)
  BY <1>1, <1>3, <1>4, <1>5, ServingUntouched
<1>6. CASE Entered(a) /\ n = Subscriber
  <2>1. /\ known' = known \cup {Subscriber} /\ notices' = Append(notices, Notice(known))
        /\ known \in SUBSET Nodes
    BY <1>1, <1>6 DEF Typed, RegistrationTyped
  <2>2. notices = <<>> /\ \A p \in Publishers : link[p].tries = 0
    BY <1>3, <1>6 DEF Serving
  <2>3. \A p : Pending(p) = {}
    BY <2>2 DEF Pending
  <2>4. ASSUME NEW p \in Publishers PROVE ServingOf(p)'
    <3>1. Pending(p)' = IF p \in known THEN {Len(notices) + 1} ELSE {}
      BY <2>1, <2>3, PendingAppend
    <3>2. p # Subscriber
      BY SubscriberPublishesNothing
    <3>3. Unserved(p)' => p \notin known
      BY <1>2, <1>3 DEF Serving
    <3>4. QED
      BY <1>4, <2>1, <2>2, <3>1, <3>2, <3>3 DEF ServingOf
  <2>5. \A m \in Nodes : Unserved(m)' => m \notin known'
    BY <1>3, <1>6, <2>1 DEF Serving
  <2>6. QED
    BY <1>3, <1>6, <2>4, <2>5 DEF Serving
<1>7. CASE Entered(a) /\ n # Subscriber
  <2>1. n \in Publishers /\ known' = known \cup {n}
    BY <1>1, <1>2, <1>7
  <2>2. link[n].tries = 0 /\ Pending(n) = {} /\ n \notin known
    BY <1>2, <1>3, <2>1 DEF Serving, ServingOf
  <2>3. \A m \in Nodes : Unserved(m)' => m \notin known'
    BY <1>3, <2>1 DEF Serving
  <2>4. CASE Subscriber \in known
    <3>1. notices' = Append(notices, Notice({n}))
      BY <1>1, <1>7, <2>4
    <3>2. ~Unserved(Subscriber)
      BY <1>2, <2>4 DEF Serving
    <3>3. ASSUME NEW p \in Publishers PROVE ServingOf(p)'
      <4>1. Pending(p)' = IF p = n THEN Pending(p) \cup {Len(notices) + 1} ELSE Pending(p)
        BY <2>1, <3>1, PendingAppend
      <4>2. ServingOf(p) /\ (Unserved(p)' => Unserved(p) /\ p # n)
        BY <1>2, <1>3 DEF Serving
      <4>3. CASE p = n
        <5>1. Pending(p)' = {Len(notices) + 1} /\ link'[p].tries = 0 /\ ~Unserved(p)'
          BY <1>3, <1>4, <2>2, <4>1, <4>3
        <5>2. QED
          BY <5>1 DEF ServingOf
      <4>4. CASE p # n
        <5>1. {p, Subscriber} \subseteq known' => {p, Subscriber} \subseteq known
          BY <2>1, <2>4, <4>1, <4>4
        <5>2. Pending(p)' = Pending(p) /\ link'[p].tries = link[p].tries /\ (at' = "dead" <=> at = "dead")
          BY <1>4, <4>1, <4>4
        <5>3. QED
          BY <4>2, <5>1, <5>2 DEF ServingOf
      <4>5. QED
        BY <4>3, <4>4
    <3>4. QED
      BY <1>2, <1>3, <2>3, <3>2, <3>3 DEF Serving
  <2>5. CASE Subscriber \notin known
    <3>1. notices' = notices
      BY <1>1, <1>7, <2>5
    <3>2. ASSUME NEW p \in Publishers PROVE ServingOf(p)'
      <4>1. Pending(p)' = Pending(p)
        BY <3>1 DEF Pending
      <4>2. ServingOf(p) /\ (Unserved(p)' => Unserved(p))
        BY <1>2, <1>3 DEF Serving
      <4>3. QED
        BY <1>4, <1>7, <2>1, <2>5, <4>1, <4>2 DEF ServingOf
    <3>3. QED
      BY <1>2, <1>3, <1>4, <2>3, <3>1, <3>2 DEF Serving
  <2>6. QED
    BY <2>4, <2>5
<1>8. QED
  BY <1>5, <1>6, <1>7

LEMMA ServingPoll ==
    ASSUME Typed, Serving, PollServer
    PROVE  Serving'
<1>1. /\ UNCHANGED <<plan, answer, failed, state, known>>
      /\ ~Unserved(Subscriber)
  BY DEF PollServer, Spinning, Ok, Unserved
<1>2. \A n : Unserved(n)' <=> Unserved(n)
  BY <1>1 DEF Unserved
<1>3. at # "dead"
  BY PollServerDoes
<1>4. CASE notices = <<>> /\ UNCHANGED <<link, notices>>
  BY <1>1, <1>2, <1>3, <1>4, ServingUntouched
<1>5. CASE notices # <<>> /\ notices' = Tail(notices)
  <2>1. ASSUME NEW p \in Publishers PROVE ServingOf(p)'
    <3>0. ServingOf(p)
      BY DEF Serving
    <3>1. /\ \A i : i \in Pending(p)' <=> i \in Nat \ {0} /\ i + 1 \in Pending(p)
          /\ Head(notices) = notices[1] /\ 1 \in DOMAIN notices
          /\ DOMAIN notices \subseteq Nat \ {0}
      BY <1>5, PendingTail
    <3>2. p \in Head(notices).pubs <=> 1 \in Pending(p)
      BY <3>1 DEF Pending
    <3>3. Pending(p) \subseteq Nat \ {0}
      BY <3>1 DEF Pending
    <3>4. \A i, j \in Pending(p)' : i = j
      <4> SUFFICES ASSUME NEW i \in Pending(p)', NEW j \in Pending(p)' PROVE i = j
        OBVIOUS
      <4>1. i \in Nat /\ j \in Nat /\ i + 1 = j + 1
        BY <3>0, <3>1 DEF ServingOf
      <4>2. QED
        BY <4>1
    <3>5. 1 \in Pending(p) => Pending(p)' = {}
      <4> SUFFICES ASSUME 1 \in Pending(p), NEW i \in Pending(p)' PROVE FALSE
        OBVIOUS
      <4>1. i \in Nat \ {0} /\ i + 1 = 1
        BY <3>0, <3>1 DEF ServingOf
      <4>2. QED
        BY <4>1
    <3>6. 1 \notin Pending(p) /\ Pending(p) # {} => Pending(p)' # {}
      <4> SUFFICES ASSUME 1 \notin Pending(p), NEW i \in Pending(p) PROVE i - 1 \in Pending(p)'
        OBVIOUS
      <4>1. i \in Nat \ {0} /\ i # 1
        BY <3>3
      <4>2. i - 1 \in Nat \ {0} /\ (i - 1) + 1 = i
        BY <4>1
      <4>3. QED
        BY <3>1, <4>2
    <3>7. Pending(p) = {} => Pending(p)' = {}
      BY <3>1
    <3>8. CASE at' = "dead" /\ link' = link
      BY <1>1, <1>2, <3>0, <3>4, <3>7, <3>8 DEF ServingOf
    <3>9. CASE link'[p].tries = IF p \in Head(notices).pubs THEN link[p].tries + 1 ELSE link[p].tries
      <4>1. CASE 1 \in Pending(p)
        <5>1. link[p].tries = 0 /\ ~Unserved(p)
          BY <3>0, <4>1 DEF ServingOf
        <5>2. link'[p].tries = 1
          BY <3>2, <3>9, <4>1, <5>1
        <5>3. QED
          BY <1>2, <3>4, <3>5, <4>1, <5>1, <5>2 DEF ServingOf
      <4>2. CASE 1 \notin Pending(p)
        <5>1. link'[p].tries = link[p].tries
          BY <3>2, <3>9, <4>2
        <5>2. QED
          BY <1>1, <1>2, <1>3, <3>0, <3>4, <3>6, <3>7, <4>2, <5>1 DEF ServingOf
      <4>3. QED
        BY <4>1, <4>2
    <3>10. QED
      BY <1>4, <1>5, <3>8, <3>9, PollServerDoes
  <2>2. QED
    BY <1>1, <1>2, <2>1 DEF Serving
<1>6. QED
  BY <1>4, <1>5, PollServerDoes

-----------------------------------------------------------------------------
(* The reader keeps its place in every stream                              *)

(* The numbers that say where the reader is.                               *)
LEMMA Positions ==
    ASSUME Typed, NEW p \in Publishers
    PROVE  /\ link[p].arrived \in Seq(Units) /\ link[p].wire \in Seq(Units)
           /\ Stream(p) \in Seq(Units) /\ Len(Stream(p)) \in Nat
           /\ Len(Stream(p)) = Len(link[p].arrived) + Len(link[p].wire)
           /\ link[p].sent \in Seq(Nat) /\ Len(link[p].sent) \in Nat
           /\ delivered[p] \in Seq(Nat) /\ Len(delivered[p]) \in Nat
           /\ frame.body \in Seq(Units) /\ Len(frame.body) \in Nat
           /\ Begun(p) \in Nat /\ Taken(p) \in Nat
<1> DEFINE a == link[p].arrived
<1> DEFINE w == link[p].wire
<1> DEFINE s == link[p].sent
<1> DEFINE d == delivered[p]
<1> DEFINE b == frame.body
<1>1. /\ a \in Seq(Units) /\ w \in Seq(Units) /\ s \in Seq(Nat)
      /\ d \in Seq(Nat) /\ b \in Seq(Units)
  BY LinkFields DEF Typed, TopicTyped, ReadingTyped
<1>2. /\ a \o w \in Seq(Units) /\ Len(a \o w) \in Nat
      /\ Len(a \o w) = Len(a) + Len(w)
      /\ Len(s) \in Nat /\ Len(d) \in Nat /\ Len(b) \in Nat
  <2> HIDE DEF a, w, s, d, b
  <2>1. QED
    BY <1>1
<1>3. Begun(p) \in Nat
  BY <1>2, PartLengths DEF Begun
<1>4. Taken(p) \in Nat
  <2>1. Taken(p) = Before(Len(d)) + Begun(p) /\ Len(d) \in Nat
    BY <1>2 DEF Taken
  <2> HIDE DEF d
  <2>2. Before(Len(d)) \in Nat
    BY <2>1, Places
  <2>3. QED
    BY <1>3, <2>1, <2>2
<1>5. QED
  BY <1>1, <1>2, <1>3, <1>4 DEF Stream

(* The next message was sent whole if a part of it has been read and the   *)
(* publisher is there, or if all of it has been read.                      *)
LEMMA NextWasSent ==
    ASSUME Typed, NEW p \in Publishers, InStream(p),
           \/ state[p] # "exited" /\ Begun(p) > 0
           \/ Begun(p) >= FrameLength
    PROVE  Len(delivered[p]) < Len(link[p].sent)
<1> DEFINE d == Len(delivered[p])
<1> DEFINE m == Len(link[p].sent)
<1> DEFINE end == Taken(p) + Len(Stream(p))
<1>1. d \in Nat /\ m \in Nat /\ Begun(p) \in Nat /\ Len(Stream(p)) \in Nat
  BY Positions
<1>2. Taken(p) = Before(d) + Begun(p)
  BY DEF Taken
<1>3. end < Before(m) + FrameLength /\ (state[p] # "exited" => end = Before(m))
  BY DEF InStream
<1> HIDE DEF d, m
<1>4. m <= d => Before(m) <= Before(d) /\ Before(m) \in Nat /\ Before(d) \in Nat
  BY <1>1, Places
<1>5. QED
  BY <1>1, <1>2, <1>3, <1>4, PartLengths DEF d, m

(* A publisher whose stream the step leaves alone.                         *)
LEMMA PlaceKept ==
    ASSUME NEW p \in Publishers, InFrame(p), InStream(p),
           Stream(p)' = Stream(p), link'[p].sent = link[p].sent, delivered'[p] = delivered[p],
           frame' = frame \/ (frame.from # p /\ frame'.from # p),
           state'[p] # "exited" => state[p] # "exited"
    PROVE  InFrame(p)' /\ InStream(p)'
<1>1. Begun(p)' = Begun(p)
  BY DEF Begun
<1>2. Taken(p)' = Taken(p)
  BY <1>1 DEF Taken
<1>3. InFrame(p)'
  BY DEF InFrame
<1>4. InStream(p)'
  BY <1>2 DEF InStream
<1>5. QED
  BY <1>3, <1>4

(* Steps that read and write nothing.                                      *)
LEMMA ReadingUntouched ==
    ASSUME Reading, StreamsKept, UNCHANGED <<frame, delivered, torn>>,
           \A p \in Publishers : state'[p] # "exited" => state[p] # "exited",
           at' # "body" => frame.from = Subscriber
    PROVE  Reading'
<1>1. DeliversInOrder'
  BY DEF Reading, DeliversInOrder, StreamsKept
<1>2. ASSUME NEW p \in Publishers \ torn PROVE InFrame(p)' /\ InStream(p)'
  <2>1. Stream(p)' = Stream(p) /\ link'[p].sent = link[p].sent
    BY DEF StreamsKept, Stream
  <2>2. QED
    BY <2>1, PlaceKept DEF Reading
<1>3. QED
  BY <1>1, <1>2 DEF Reading

LEMMA ReadingPublish ==
    ASSUME Typed, Reading, NEW p \in Publishers, Publish(p)
    PROVE  Reading'
<1>1. /\ UNCHANGED <<state, at, frame, delivered, torn>>
      /\ state[p] # "exited" /\ OthersKept(p)
  BY PublishDoes DEF Publish, registration, reading, Running
<1>2. CASE link' = link
  <2>1. StreamsKept
    BY <1>2 DEF StreamsKept
  <2>2. QED
    BY <1>1, <2>1, ReadingUntouched DEF Reading
<1>3. ASSUME NEW k \in Nat,
             link'[p] = [link[p] EXCEPT !.wire = @ \o FrameOf(k), !.sent = Append(@, k)]
      PROVE  Reading'
  <2> DEFINE m == Len(link[p].sent)
  <2> DEFINE d == Len(delivered[p])
  <2> DEFINE S == Stream(p)
  <2> DEFINE T == Stream(p)'
  <2>1. /\ link'[p].arrived = link[p].arrived
        /\ link'[p].wire = link[p].wire \o FrameOf(k)
        /\ link'[p].sent = Append(link[p].sent, k)
    BY <1>3 DEF Typed, TopicTyped, Links
  <2>2. /\ m \in Nat /\ d \in Nat /\ S \in Seq(Units) /\ Len(S) \in Nat
        /\ Taken(p) \in Nat /\ Begun(p) \in Nat
        /\ link[p].arrived \in Seq(Units) /\ link[p].wire \in Seq(Units)
        /\ link[p].sent \in Seq(Nat)
    BY Positions
  <2>3. /\ Len(link'[p].sent) = m + 1 /\ link'[p].sent[m + 1] = k
        /\ \A i \in 1 .. m : link'[p].sent[i] = link[p].sent[i]
    <3> DEFINE q == link[p].sent
    <3>1. q \in Seq(Nat) /\ link'[p].sent = Append(q, k)
      BY <2>1, <2>2
    <3> HIDE DEF q
    <3>2. /\ Len(Append(q, k)) = Len(q) + 1 /\ Append(q, k)[Len(q) + 1] = k
          /\ \A i \in 1 .. Len(q) : Append(q, k)[i] = q[i]
      BY <3>1
    <3>3. QED
      BY <3>1, <3>2 DEF q
  <2>4. DeliversInOrder'
    <3>1. ASSUME NEW q \in Publishers
          PROVE  /\ Len(delivered'[q]) <= Len(link'[q].sent)
                 /\ delivered'[q] = SubSeq(link'[q].sent, 1, Len(delivered'[q]))
      <4>1. /\ Len(delivered[q]) <= Len(link[q].sent)
            /\ delivered[q] = SubSeq(link[q].sent, 1, Len(delivered[q]))
        BY DEF Reading, DeliversInOrder
      <4>2. CASE q # p
        BY <1>1, <4>1, <4>2 DEF OthersKept
      <4>3. CASE q = p
        <5> DEFINE s == link[p].sent
        <5>1. /\ s \in Seq(Nat) /\ Append(s, k) \in Seq(Nat) /\ d <= Len(s)
              /\ Len(Append(s, k)) = Len(s) + 1
          <6>1. s \in Seq(Nat) /\ d <= Len(s)
            BY <2>2, <4>1, <4>3
          <6> HIDE DEF s
          <6>2. QED
            BY <6>1
        <5>2. SubSeq(s, 1, d) = SubSeq(Append(s, k), 1, d)
          <6> HIDE DEF s, d
          <6>1. QED
            BY <2>2, <5>1
        <5>3. delivered'[q] = delivered[p] /\ link'[q].sent = Append(s, k)
          BY <1>1, <2>1, <4>3
        <5>4. delivered[p] = SubSeq(s, 1, d)
          BY <4>1, <4>3
        <5>5. d <= Len(Append(s, k))
          <6> HIDE DEF s, d
          <6>1. Len(s) \in Nat
            BY <5>1
          <6>2. QED
            BY <2>2, <5>1, <6>1
        <5>6. QED
          BY <5>2, <5>3, <5>4, <5>5
      <4>4. QED
        BY <4>2, <4>3
    <3>2. QED
      BY <3>1 DEF DeliversInOrder
  <2>5. ASSUME NEW q \in Publishers \ torn, q # p PROVE InFrame(q)' /\ InStream(q)'
    <3>1. Stream(q)' = Stream(q) /\ link'[q].sent = link[q].sent
      BY <1>1, <2>5 DEF OthersKept, Stream
    <3>2. QED
      BY <1>1, <3>1, PlaceKept DEF Reading
  <2>6. ASSUME p \notin torn PROVE InFrame(p)' /\ InStream(p)'
    <3>1. InFrame(p) /\ InStream(p)
      BY <2>6 DEF Reading
    <3>2. /\ T \in Seq(Units) /\ Len(T) = Len(S) + FrameLength
          /\ \A j \in 1 .. Len(S) : T[j] = S[j]
          /\ \A j \in 1 .. FrameLength : T[Len(S) + j] = Unit(k, j)
      <4> DEFINE a == link[p].arrived
      <4> DEFINE w == link[p].wire
      <4> DEFINE f == FrameOf(k)
      <4>1. T = a \o (w \o f) /\ S = a \o w
        BY <2>1 DEF Stream
      <4>2. a \in Seq(Units) /\ w \in Seq(Units) /\ f \in Seq(Units)
        BY <2>2, Frames
      <4>3. Len(f) = FrameLength /\ \A j \in 1 .. FrameLength : f[j] = Unit(k, j)
        BY Frames
      <4> HIDE DEF a, w, f, S, T
      <4>4. T = S \o f
        BY <4>1, <4>2
      <4>5. S \in Seq(Units)
        BY <4>1, <4>2
      <4>6. /\ S \o f \in Seq(Units) /\ Len(S \o f) = Len(S) + Len(f)
            /\ \A j \in 1 .. Len(S) : (S \o f)[j] = S[j]
            /\ \A j \in 1 .. Len(f) : (S \o f)[Len(S) + j] = f[j]
        BY <4>2, <4>5
      <4>7. QED
        BY <4>3, <4>4, <4>6
    <3>3. Begun(p)' = Begun(p) /\ Taken(p)' = Taken(p)
      BY <1>1 DEF Begun, Taken
    <3>4. /\ Taken(p) + Len(S) = Before(m)
          /\ \A i \in 1 .. m, j \in 1 .. FrameLength :
                Before(i - 1) + j > Taken(p) =>
                    S[Before(i - 1) + j - Taken(p)] = Unit(link[p].sent[i], j)
      BY <1>1, <3>1 DEF InStream
    <3>5. /\ Before(m) \in Nat /\ Before(m + 1) = Before(m) + FrameLength
          /\ FrameLength \in Nat \ {0}
      BY <2>2, Places, PartLengths
    <3> HIDE DEF S, T, m
    <3>6. ASSUME NEW i \in 1 .. m + 1, NEW j \in 1 .. FrameLength, Before(i - 1) + j > Taken(p)
          PROVE  T[Before(i - 1) + j - Taken(p)] = Unit(link'[p].sent[i], j)
      <4>1. CASE i = m + 1
        <5>1. Before(i - 1) + j - Taken(p) = Len(S) + j
          BY <2>2, <3>4, <3>5, <4>1
        <5>2. QED
          BY <2>3, <3>2, <4>1, <5>1
      <4>2. CASE i \in 1 .. m
        <5>1. i - 1 \in Nat /\ i - 1 < m /\ Before(i - 1) + FrameLength <= Before(m) /\ Before(i - 1) \in Nat
          <6> DEFINE l == i - 1
          <6>1. l \in Nat /\ l < m
            BY <2>2, <4>2
          <6> HIDE DEF l
          <6>2. Before(l) \in Nat /\ Before(l) + FrameLength <= Before(m)
            BY <2>2, <6>1, Places
          <6>3. QED
            BY <6>1, <6>2 DEF l
        <5>2. Before(i - 1) + j - Taken(p) \in 1 .. Len(S)
          <6> DEFINE e == Before(i - 1)
          <6>1. e \in Nat /\ e + FrameLength <= Before(m) /\ e + j > Taken(p)
            BY <3>6, <5>1
          <6> HIDE DEF e
          <6>2. e + j - Taken(p) \in 1 .. Len(S)
            <7>1. /\ Taken(p) \in Nat /\ Len(S) \in Nat /\ Taken(p) + Len(S) = Before(m)
                  /\ FrameLength \in Nat /\ Before(m) \in Nat
              BY <2>2, <3>4, <3>5
            <7>2. j \in Nat /\ j <= FrameLength
              BY <7>1
            <7>3. QED
              BY <6>1, <7>1, <7>2
          <6>3. QED
            BY <6>2 DEF e
        <5>3. S[Before(i - 1) + j - Taken(p)] = Unit(link[p].sent[i], j)
          BY <3>4, <3>6, <4>2
        <5>4. QED
          BY <2>3, <3>2, <4>2, <5>2, <5>3
      <4>3. QED
        BY <2>2, <4>1, <4>2
    <3>7. InStream(p)'
      <4>1. Taken(p)' + Len(T) = Before(Len(link'[p].sent))
        BY <2>2, <2>3, <3>2, <3>3, <3>4, <3>5
      <4>2. Taken(p)' + Len(T) \in Nat
        BY <2>2, <3>2, <3>3, <3>5
      <4>3. QED
        BY <2>3, <3>3, <3>5, <3>6, <4>1, <4>2 DEF InStream, T
    <3>8. InFrame(p)'
      <4> SUFFICES ASSUME frame.from = p
                   PROVE  InFrame(p)'
        BY <1>1 DEF InFrame
      <4>1. Begun(p) > 0
        BY Positions, PartLengths DEF Begun
      <4>2. d < m
        BY <1>1, <3>1, <4>1, NextWasSent DEF m
      <4>3. link'[p].sent[d + 1] = link[p].sent[d + 1]
        <5> HIDE DEF d
        <5>1. d + 1 \in 1 .. m
          BY <2>2, <4>2
        <5>2. QED
          BY <2>3, <5>1
      <4>4. QED
        BY <1>1, <3>1, <4>2, <4>3 DEF InFrame, m
    <3>9. QED
      BY <3>7, <3>8
  <2>7. QED
    BY <1>1, <2>4, <2>5, <2>6 DEF Reading
<1>4. QED
  BY <1>2, <1>3, PublishDoes

(* A publisher leaves less than a frame behind.                            *)
LEMMA ReadingLeave ==
    ASSUME Typed, Reading, NEW p \in Publishers, Leave(p)
    PROVE  Reading'
<1>1. UNCHANGED <<at, frame, delivered, torn>>
  BY DEF Leave, reading
<1>2. /\ OthersKept(p)
      /\ link'[p].sent = link[p].sent /\ link'[p].arrived = link[p].arrived
  BY LeaveDoes
<1>3. PICK tail \in Seq(Units) : Len(tail) < FrameLength /\ link'[p].wire = link[p].wire \o tail
  BY LeaveDoes
<1>4. /\ state[p] # "exited" /\ state'[p] = "exited"
      /\ \A q \in Publishers \ {p} : state'[q] = state[q]
  <2>1. p \in Nodes
    BY DEF Nodes
  <2>2. QED
    BY <2>1 DEF Leave, Exit, Typed, RegistrationTyped
<1>5. DeliversInOrder'
  <2>1. \A q \in Publishers : link'[q].sent = link[q].sent
    BY <1>2 DEF OthersKept
  <2>2. QED
    BY <1>1, <2>1 DEF Reading, DeliversInOrder
<1>6. ASSUME NEW q \in Publishers \ torn, q # p PROVE InFrame(q)' /\ InStream(q)'
  <2>1. Stream(q)' = Stream(q) /\ link'[q].sent = link[q].sent
    BY <1>2, <1>6 DEF OthersKept, Stream
  <2>2. QED
    BY <1>1, <1>4, <1>6, <2>1, PlaceKept DEF Reading
<1>7. ASSUME p \notin torn PROVE InFrame(p)' /\ InStream(p)'
  <2> DEFINE m == Len(link[p].sent)
  <2> DEFINE S == Stream(p)
  <2> DEFINE T == Stream(p)'
  <2>1. InFrame(p) /\ InStream(p)
    BY <1>7 DEF Reading
  <2>2. /\ m \in Nat /\ S \in Seq(Units) /\ Len(S) \in Nat /\ Taken(p) \in Nat
        /\ link[p].arrived \in Seq(Units) /\ link[p].wire \in Seq(Units)
    BY Positions
  <2>3. Len(T) = Len(S) + Len(tail) /\ \A j \in 1 .. Len(S) : T[j] = S[j]
    <3> DEFINE a == link[p].arrived
    <3> DEFINE w == link[p].wire
    <3>1. T = a \o (w \o tail) /\ S = a \o w
      BY <1>2, <1>3 DEF Stream
    <3>2. a \in Seq(Units) /\ w \in Seq(Units) /\ tail \in Seq(Units)
      BY <2>2
    <3> HIDE DEF a, w, S, T
    <3>3. T = S \o tail /\ S \in Seq(Units)
      BY <3>1, <3>2
    <3>4. /\ Len(S \o tail) = Len(S) + Len(tail)
          /\ \A j \in 1 .. Len(S) : (S \o tail)[j] = S[j]
      BY <3>2, <3>3
    <3>5. QED
      BY <3>3, <3>4
  <2>4. Begun(p)' = Begun(p) /\ Taken(p)' = Taken(p)
    BY <1>1 DEF Begun, Taken
  <2>5. /\ Taken(p) + Len(S) = Before(m)
        /\ \A i \in 1 .. m, j \in 1 .. FrameLength :
              Before(i - 1) + j > Taken(p) =>
                  S[Before(i - 1) + j - Taken(p)] = Unit(link[p].sent[i], j)
    BY <1>4, <2>1 DEF InStream
  <2>6. Before(m) \in Nat /\ FrameLength \in Nat \ {0} /\ Len(tail) \in Nat
    <3>1. Len(tail) \in Nat
      OBVIOUS
    <3> HIDE DEF m
    <3>2. QED
      BY <2>2, <3>1, Places, PartLengths
  <2> HIDE DEF S, T, m
  <2>7. ASSUME NEW i \in 1 .. m, NEW j \in 1 .. FrameLength, Before(i - 1) + j > Taken(p)
        PROVE  T[Before(i - 1) + j - Taken(p)] = S[Before(i - 1) + j - Taken(p)]
    <3> DEFINE l == i - 1
    <3> DEFINE e == Before(l)
    <3>1. l \in Nat /\ l < m
      BY <2>2
    <3> HIDE DEF l
    <3>2. e \in Nat /\ e + FrameLength <= Before(m) /\ e + j > Taken(p)
      BY <2>2, <2>7, <3>1, Places DEF l
    <3> HIDE DEF e
    <3>3. e + j - Taken(p) \in 1 .. Len(S)
      BY <2>2, <2>5, <2>6, <3>2
    <3>4. QED
      BY <2>3, <3>3 DEF e, l
  <2>8. InStream(p)'
    <3>1. Taken(p)' + Len(T) = Before(m) + Len(tail)
      BY <2>2, <2>3, <2>4, <2>5, <2>6
    <3>2. /\ Taken(p)' + Len(T) >= Before(m)
          /\ Taken(p)' + Len(T) < Before(m) + FrameLength
      BY <1>3, <2>6, <3>1
    <3>3. Len(link'[p].sent) = m
      BY <1>2 DEF m
    <3>4. \A i \in 1 .. m, j \in 1 .. FrameLength :
              Before(i - 1) + j > Taken(p) =>
                  T[Before(i - 1) + j - Taken(p)] = Unit(link'[p].sent[i], j)
      BY <1>2, <2>5, <2>7
    <3>5. QED
      BY <1>4, <2>4, <3>2, <3>3, <3>4 DEF InStream, T
  <2>9. InFrame(p)'
    BY <1>1, <1>2, <2>1 DEF InFrame
  <2>10. QED
    BY <2>8, <2>9
<1>8. QED
  BY <1>1, <1>5, <1>6, <1>7 DEF Reading

(* The network only moves what was sent towards the reader.                *)
LEMMA ReadingArrive ==
    ASSUME Typed, Reading, NEW p \in Publishers, Arrive(p)
    PROVE  Reading'
<1>1. UNCHANGED <<state, at, frame, delivered, torn>>
  BY DEF Arrive, registration, reading
<1>2. \A q \in Publishers : Stream(q)' = Stream(q) /\ link'[q].sent = link[q].sent
  BY ArriveDoes DEF OthersKept, Stream
<1>3. DeliversInOrder'
  BY <1>1, <1>2 DEF Reading, DeliversInOrder
<1>4. ASSUME NEW q \in Publishers \ torn PROVE InFrame(q)' /\ InStream(q)'
  BY <1>1, <1>2, PlaceKept DEF Reading
<1>5. QED
  BY <1>1, <1>3, <1>4 DEF Reading

(* Reading n units of a stream.                                            *)
LEMMA Advanced ==
    ASSUME Typed, NEW p \in Publishers, InStream(p), NEW n \in 1 .. Len(link[p].arrived),
           Took(p, n), delivered'[p] = delivered[p], Begun(p)' = Begun(p) + n, state' = state
    PROVE  InStream(p)'
<1> DEFINE S == Stream(p)
<1> DEFINE T == Stream(p)'
<1> DEFINE m == Len(link[p].sent)
<1>1. /\ m \in Nat /\ S \in Seq(Units) /\ Len(S) \in Nat /\ Taken(p) \in Nat /\ Begun(p) \in Nat
      /\ link[p].arrived \in Seq(Units) /\ link[p].wire \in Seq(Units)
      /\ Len(delivered[p]) \in Nat
  BY Positions
<1>2. Len(T) = Len(S) - n /\ \A j \in 1 .. Len(T) : T[j] = S[j + n]
  <2> DEFINE a == link[p].arrived
  <2> DEFINE w == link[p].wire
  <2>1. a \in Seq(Units) /\ w \in Seq(Units)
    BY <1>1
  <2>2. T = SubSeq(a, n + 1, Len(a)) \o w /\ S = a \o w
    BY DEF Stream, Took
  <2>3. n \in 0 .. Len(a)
    <3> DEFINE l == Len(a)
    <3>1. n \in 1 .. l
      OBVIOUS
    <3> HIDE DEF l
    <3>2. n \in 0 .. l
      BY <3>1
    <3>3. QED
      BY <3>2 DEF l
  <2> HIDE DEF a, w, S, T
  <2>4. LET u == SubSeq(a, n + 1, Len(a)) \o w
        IN  /\ Len(u) = Len(a \o w) - n
            /\ \A j \in 1 .. Len(u) : u[j] = (a \o w)[j + n]
    BY <2>1, <2>3, Shortened
  <2>5. QED
    BY <2>2, <2>4
<1>3. Taken(p)' = Taken(p) + n
  <2> DEFINE e == Before(Len(delivered[p]))
  <2>1. Taken(p) = e + Begun(p) /\ Taken(p)' = e + Begun(p)'
    BY DEF Taken
  <2>2. e \in Nat
    BY <1>1, Places
  <2> HIDE DEF e
  <2>3. QED
    BY <1>1, <2>1, <2>2
<1>4. Len(link'[p].sent) = m /\ link'[p].sent = link[p].sent
  BY DEF Took
<1>5. n \in Nat
  OBVIOUS
<1>6. /\ Taken(p) + Len(S) >= Before(m) /\ Taken(p) + Len(S) < Before(m) + FrameLength
      /\ state[p] # "exited" => Taken(p) + Len(S) = Before(m)
      /\ \A i \in 1 .. m, j \in 1 .. FrameLength :
            Before(i - 1) + j > Taken(p) =>
                S[Before(i - 1) + j - Taken(p)] = Unit(link[p].sent[i], j)
  BY DEF InStream
<1> HIDE DEF S, T, m
<1>7. Taken(p)' + Len(T) = Taken(p) + Len(S)
  BY <1>1, <1>2, <1>3, <1>5
<1>8. ASSUME NEW i \in 1 .. m, NEW j \in 1 .. FrameLength, Before(i - 1) + j > Taken(p)'
      PROVE  T[Before(i - 1) + j - Taken(p)'] = Unit(link[p].sent[i], j)
  <2> DEFINE l == i - 1
  <2> DEFINE e == Before(l)
  <2>1. l \in Nat /\ l < m
    BY <1>1
  <2> HIDE DEF l
  <2>2. e \in Nat /\ e + FrameLength <= Before(m) /\ e + j > Taken(p) + n
    BY <1>1, <1>3, <1>8, <2>1, Places DEF l
  <2>3. FrameLength \in Nat /\ Before(m) \in Nat
    BY <1>1, Places, PartLengths
  <2> HIDE DEF e
  <2> DEFINE x == e + j - (Taken(p) + n)
  <2>4. x \in 1 .. Len(T) /\ x + n = e + j - Taken(p) /\ e + j > Taken(p)
    <3>1. Taken(p) + Len(S) >= Before(m) /\ Len(T) = Len(S) - n
      BY <1>2, <1>6
    <3>2. j \in Nat /\ j <= FrameLength
      BY <2>3
    <3>3. Taken(p) \in Nat /\ Len(S) \in Nat
      BY <1>1
    <3>4. Len(T) \in Int /\ x \in Int
      BY <1>5, <2>2, <3>1, <3>2, <3>3
    <3>5. x >= 1 /\ x <= Len(T)
      BY <1>5, <2>2, <2>3, <3>1, <3>2, <3>3
    <3>6. x + n = e + j - Taken(p) /\ e + j > Taken(p)
      BY <1>5, <2>2, <3>2, <3>3
    <3> HIDE DEF x
    <3>7. QED
      BY <3>4, <3>5, <3>6
  <2>5. T[x] = S[x + n]
    BY <1>2, <2>4
  <2>6. S[e + j - Taken(p)] = Unit(link[p].sent[i], j)
    BY <1>6, <2>4 DEF e, l
  <2>7. QED
    BY <1>3, <2>4, <2>5, <2>6 DEF e, l
<1>9. QED
  BY <1>4, <1>6, <1>7, <1>8 DEF InStream, S, T, m

(* A unit of the next message that has arrived is in its place.            *)
LEMMA NextUnits ==
    ASSUME Typed, NEW p \in Publishers, InStream(p), Len(delivered[p]) < Len(link[p].sent),
           NEW j \in 1 .. Len(link[p].arrived), Begun(p) + j <= FrameLength
    PROVE  link[p].arrived[j] = Unit(link[p].sent[Len(delivered[p]) + 1], Begun(p) + j)
<1> DEFINE d == Len(delivered[p])
<1> DEFINE m == Len(link[p].sent)
<1> DEFINE a == link[p].arrived
<1> DEFINE w == link[p].wire
<1>1. /\ d \in Nat /\ m \in Nat /\ Begun(p) \in Nat /\ Before(d) \in Nat
      /\ a \in Seq(Units) /\ w \in Seq(Units)
  BY Positions, Places
<1>2. Taken(p) = Before(d) + Begun(p)
  BY DEF Taken
<1>3. \A i \in 1 .. m, k \in 1 .. FrameLength :
          Before(i - 1) + k > Taken(p) =>
              Stream(p)[Before(i - 1) + k - Taken(p)] = Unit(link[p].sent[i], k)
  BY DEF InStream
<1>4. Stream(p)[j] = a[j]
  <2>1. Stream(p) = a \o w /\ j \in 1 .. Len(a)
    BY DEF Stream
  <2> HIDE DEF a, w
  <2>2. QED
    BY <1>1, <2>1
<1>5. j \in Nat \ {0} /\ d < m
  OBVIOUS
<1> HIDE DEF d, m, a
<1>6. /\ d + 1 \in 1 .. m /\ Begun(p) + j \in 1 .. FrameLength /\ (d + 1) - 1 = d
      /\ Before(d) + (Begun(p) + j) > Taken(p)
      /\ Before(d) + (Begun(p) + j) - Taken(p) = j
  BY <1>1, <1>2, <1>5, PartLengths
<1>7. Stream(p)[Before((d + 1) - 1) + (Begun(p) + j) - Taken(p)] = Unit(link[p].sent[d + 1], Begun(p) + j)
  BY <1>3, <1>6
<1>8. QED
  BY <1>4, <1>6, <1>7 DEF d, a

LEMMA ReadingHead ==
    ASSUME Typed, Reading, NEW p \in Publishers, ReadHead(p)
    PROVE  Reading'
<1>1. PICK n \in 1 .. Len(link[p].arrived) :
         /\ Took(p, n)
         /\ \/ /\ n = HeadLength /\ torn' = torn
               /\ \E k \in Nat : /\ frame' = Frame(p, k, BodyLength)
                                 /\ SubSeq(link[p].arrived, 1, n) = HeadOf(k)
            \/ /\ torn' = torn \cup {p}
               /\ \E m \in Nat : frame' = Frame(p, 0, m)
  BY ReadHeadDoes
<1>2. at = "clients" /\ at' = "body" /\ UNCHANGED <<state, delivered>>
  BY ReadHeadDoes DEF ReadHead, registration
<1>3. frame.from = Subscriber /\ frame'.from = p /\ p # Subscriber /\ frame'.body = <<>>
  BY <1>1, <1>2, SubscriberPublishesNothing DEF Reading, Frame
<1>4. DeliversInOrder'
  <2>1. \A q \in Publishers : link'[q].sent = link[q].sent
    BY <1>1 DEF Took, OthersKept
  <2>2. QED
    BY <1>2, <2>1 DEF Reading, DeliversInOrder
<1>5. ASSUME NEW q \in Publishers \ torn', q # p PROVE InFrame(q)' /\ InStream(q)'
  <2>1. Stream(q)' = Stream(q) /\ link'[q].sent = link[q].sent
    BY <1>1, <1>5 DEF Took, OthersKept, Stream
  <2>2. q \notin torn /\ q # Subscriber
    BY <1>1, SubscriberPublishesNothing
  <2>3. QED
    BY <1>2, <1>3, <1>5, <2>1, <2>2, PlaceKept DEF Reading
<1>6. ASSUME p \notin torn' PROVE InFrame(p)' /\ InStream(p)'
  <2>1. n = HeadLength /\ torn' = torn
    BY <1>1, <1>6
  <2>2. PICK k \in Nat : frame' = Frame(p, k, BodyLength) /\ SubSeq(link[p].arrived, 1, n) = HeadOf(k)
    BY <1>1, <1>6
  <2>3. InStream(p)
    BY <1>6, <2>1 DEF Reading
  <2>4. Begun(p) = 0 /\ Begun(p)' = n
    BY <1>3, <2>1, PartLengths DEF Begun
  <2>5. InStream(p)'
    BY <1>1, <1>2, <2>3, <2>4, Advanced
  <2>6. ASSUME Len(delivered[p]) < Len(link[p].sent)
        PROVE  k = link[p].sent[Len(delivered[p]) + 1]
    <3> DEFINE a == link[p].arrived
    <3>1. a \in Seq(Units)
      BY Positions
    <3>2. 1 \in 1 .. Len(a) /\ Begun(p) + 1 <= FrameLength
      <4> HIDE DEF a
      <4>1. QED
        BY <2>1, <2>4, <3>1, PartLengths DEF a
    <3>3. a[1] = Unit(link[p].sent[Len(delivered[p]) + 1], Begun(p) + 1)
      BY <2>3, <2>6, <3>2, NextUnits
    <3>4. SubSeq(a, 1, n)[1] = a[1]
      <4> HIDE DEF a
      <4>1. n \in 1 .. Len(a)
        BY DEF a
      <4>2. QED
        BY <3>1, <4>1
    <3>5. HeadOf(k)[1] = Unit(k, 1)
      BY Frames, PartLengths
    <3>6. QED
      BY <2>2, <2>4, <3>3, <3>4, <3>5 DEF Unit
  <2>7. InFrame(p)'
    <3>1. frame'.need = BodyLength /\ frame'.head = k /\ Len(frame'.body) = 0
      BY <1>3, <2>2 DEF Frame
    <3>2. link'[p].sent = link[p].sent
      BY <1>1 DEF Took
    <3>3. QED
      BY <1>2, <2>6, <3>1, <3>2, PartLengths DEF InFrame
  <2>8. QED
    BY <2>5, <2>7
<1>7. QED
  BY <1>2, <1>4, <1>5, <1>6 DEF Reading

LEMMA ReadingBody ==
    ASSUME Typed, Reading, ReadBody, NEW p, p = frame.from
    PROVE  Reading'
<1> DEFINE a == link[p].arrived
<1> DEFINE b == frame.body
<1>1. p \in Publishers /\ at = "body"
  BY ReadBodyDoes
<1>2. PICK n \in 1 .. Len(a) :
         /\ Took(p, n)
         /\ Len(b) + n <= frame.need
         /\ frame' = [frame EXCEPT !.body = b \o SubSeq(a, 1, n)]
  BY ReadBodyDoes
<1>3. UNCHANGED <<state, at, delivered, torn>>
  BY DEF ReadBody, registration
<1>4. /\ a \in Seq(Units) /\ b \in Seq(Units) /\ Len(b) \in Nat
      /\ n \in Nat
  <2>1. a \in Seq(Units) /\ b \in Seq(Units) /\ Len(b) \in Nat
    BY <1>1, Positions
  <2>2. n \in Nat
    OBVIOUS
  <2>3. QED
    BY <2>1, <2>2
<1>5. /\ frame'.from = p /\ frame'.head = frame.head /\ frame'.need = frame.need
      /\ frame'.body = b \o SubSeq(a, 1, n)
  <2> DEFINE c == b \o SubSeq(a, 1, n)
  <2> HIDE DEF c
  <2>1. frame \in [from : Nodes, head : Nat, need : Nat, body : Seq(Units)]
    BY DEF Typed, ReadingTyped
  <2>2. frame' = [frame EXCEPT !.body = c]
    BY <1>2 DEF c
  <2>3. QED
    BY <2>1, <2>2 DEF c
<1>6. /\ Len(frame'.body) = Len(b) + n
      /\ \A j \in 1 .. Len(b) : frame'.body[j] = b[j]
      /\ \A j \in 1 .. n : frame'.body[Len(b) + j] = a[j]
  <2> DEFINE c == SubSeq(a, 1, n)
  <2>1. n \in 0 .. Len(a)
    <3> HIDE DEF a
    <3>1. QED
      BY <1>4
  <2>2. c \in Seq(Units) /\ Len(c) = n /\ \A j \in 1 .. n : c[j] = a[j]
    BY <1>4, <2>1, FrontOf
  <2> HIDE DEF a, b, c
  <2>3. /\ Len(b \o c) = Len(b) + Len(c)
        /\ \A j \in 1 .. Len(b) : (b \o c)[j] = b[j]
        /\ \A j \in 1 .. Len(c) : (b \o c)[Len(b) + j] = c[j]
    <3>1. b \in Seq(Units) /\ c \in Seq(Units)
      BY <1>4, <2>2
    <3>2. QED
      BY <3>1, EndToEnd
  <2>4. QED
    BY <1>5, <2>2, <2>3 DEF c
<1>7. DeliversInOrder'
  <2>1. \A q \in Publishers : link'[q].sent = link[q].sent
    BY <1>2 DEF Took, OthersKept
  <2>2. QED
    BY <1>3, <2>1 DEF Reading, DeliversInOrder
<1>8. ASSUME NEW q \in Publishers \ torn, q # p PROVE InFrame(q)' /\ InStream(q)'
  <2>1. Stream(q)' = Stream(q) /\ link'[q].sent = link[q].sent
    BY <1>2, <1>8 DEF Took, OthersKept, Stream
  <2>2. QED
    BY <1>3, <1>5, <1>8, <2>1, PlaceKept DEF Reading
<1>9. ASSUME p \notin torn PROVE InFrame(p)' /\ InStream(p)'
  <2>1. InFrame(p) /\ InStream(p)
    BY <1>1, <1>9 DEF Reading
  <2>2. Begun(p) = HeadLength + Len(b) /\ Begun(p)' = Begun(p) + n
    <3>1. Begun(p) = HeadLength + Len(b) /\ Begun(p)' = HeadLength + Len(frame'.body)
      BY <1>5 DEF Begun
    <3> HIDE DEF b
    <3>2. QED
      BY <1>4, <1>6, <3>1, PartLengths
  <2>3. InStream(p)'
    <3> HIDE DEF a
    <3>1. n \in 1 .. Len(link[p].arrived)
      BY DEF a
    <3>2. QED
      BY <1>1, <1>2, <1>3, <2>1, <2>2, <3>1, Advanced
  <2>4. frame.need = BodyLength /\ Len(b) + n <= BodyLength
    BY <1>2, <2>1 DEF InFrame
  <2>5. ASSUME Len(delivered[p]) < Len(link[p].sent)
        PROVE  LET next == link[p].sent[Len(delivered[p]) + 1]
               IN  /\ frame.head = next
                   /\ \A j \in 1 .. Len(b) + n : frame'.body[j] = Unit(next, HeadLength + j)
    <3> DEFINE next == link[p].sent[Len(delivered[p]) + 1]
    <3>1. frame.head = next /\ \A j \in 1 .. Len(b) : b[j] = Unit(next, HeadLength + j)
      BY <2>1, <2>5 DEF InFrame
    <3>2. ASSUME NEW j \in 1 .. n
          PROVE  a[j] = Unit(next, HeadLength + (Len(b) + j))
      <4>1. j \in 1 .. Len(a)
        <5> HIDE DEF a
        <5>1. QED
          BY <1>4
      <4>2. Begun(p) + j <= FrameLength /\ Begun(p) + j = HeadLength + (Len(b) + j)
        <5> HIDE DEF b
        <5>1. QED
          BY <1>4, <2>2, <2>4, PartLengths
      <4>3. a[j] = Unit(next, Begun(p) + j)
        BY <1>1, <2>1, <2>5, <4>1, <4>2, NextUnits
      <4>4. QED
        BY <4>2, <4>3
    <3> HIDE DEF next, b, a
    <3>3. ASSUME NEW j \in 1 .. Len(b) + n
          PROVE  frame'.body[j] = Unit(next, HeadLength + j)
      <4>1. CASE j <= Len(b)
        BY <1>4, <1>6, <3>1, <4>1
      <4>2. CASE j > Len(b)
        <5>1. j - Len(b) \in 1 .. n /\ Len(b) + (j - Len(b)) = j
          BY <1>4, <4>2
        <5>2. frame'.body[Len(b) + (j - Len(b))] = a[j - Len(b)]
          BY <1>6, <5>1
        <5>3. QED
          BY <3>2, <5>1, <5>2
      <4>3. QED
        BY <1>4, <4>1, <4>2
    <3>4. QED
      BY <3>1, <3>3 DEF next
  <2>6. InFrame(p)'
    <3>1. link'[p].sent = link[p].sent
      BY <1>2 DEF Took
    <3>2. QED
      BY <1>3, <1>5, <1>6, <2>4, <2>5, <3>1 DEF InFrame
  <2>7. QED
    BY <2>3, <2>6
<1>10. QED
  BY <1>1, <1>3, <1>7, <1>8, <1>9 DEF Reading

LEMMA ReadingGiveUp ==
    ASSUME Typed, Reading, GiveUp
    PROVE  Reading'
<1>1. /\ UNCHANGED <<state, link, delivered>>
      /\ frame'.from = Subscriber /\ torn' = torn \cup {frame.from}
  BY DEF GiveUp, registration, topic, NoFrame, Frame
<1>2. DeliversInOrder'
  BY <1>1 DEF Reading, DeliversInOrder
<1>3. ASSUME NEW q \in Publishers \ torn' PROVE InFrame(q)' /\ InStream(q)'
  <2>1. Stream(q)' = Stream(q) /\ link'[q].sent = link[q].sent
    BY <1>1 DEF Stream
  <2>2. q \notin torn /\ q # Subscriber /\ q # frame.from
    BY <1>1, SubscriberPublishesNothing
  <2>3. QED
    BY <1>1, <2>1, <2>2, PlaceKept DEF Reading
<1>4. QED
  BY <1>1, <1>2, <1>3 DEF Reading

(* What is delivered is the next message.                                  *)
LEMMA CallBackDoes ==
    ASSUME Typed, Reading, CallBack, frame.from \notin torn
    PROVE  LET p == frame.from
               d == Len(delivered[p])
           IN  /\ p \in Publishers /\ d < Len(link[p].sent) /\ Begun(p) = FrameLength
               /\ delivered' = [delivered EXCEPT ![p] = Append(delivered[p], link[p].sent[d + 1])]
<1> DEFINE p == frame.from
<1> DEFINE d == Len(delivered[p])
<1> DEFINE b == frame.body
<1> DEFINE next == link[p].sent[d + 1]
<1>1. p \in Publishers /\ at = "body" /\ Len(b) >= frame.need
  BY DEF CallBack, Typed, ReadingTyped
<1>2. InFrame(p) /\ InStream(p)
  BY <1>1 DEF Reading
<1>3. /\ b \in Seq(Units) /\ Len(b) \in Nat
      /\ link[p].sent \in Seq(Nat) /\ d \in Nat
  BY <1>1, Positions
<1>4. Len(b) = BodyLength /\ Begun(p) = FrameLength
  <2>1. frame.need = BodyLength /\ Len(b) <= BodyLength /\ Begun(p) = HeadLength + Len(b)
    BY <1>2 DEF InFrame, Begun
  <2> HIDE DEF b
  <2>2. QED
    BY <1>1, <1>3, <2>1, PartLengths
<1>5. d < Len(link[p].sent)
  <2> HIDE DEF p
  <2>1. Begun(p) >= FrameLength
    BY <1>4, PartLengths
  <2>2. QED
    BY <1>1, <1>2, <2>1, NextWasSent
<1>6. frame.head = next /\ \A j \in 1 .. Len(b) : b[j] = Unit(next, HeadLength + j)
  BY <1>2, <1>5 DEF InFrame
<1>7. next \in Nat
  <2> DEFINE s == link[p].sent
  <2>1. s \in Seq(Nat) /\ d \in Nat /\ d < Len(s)
    BY <1>3, <1>5
  <2> HIDE DEF s, d
  <2>2. s[d + 1] \in Nat
    BY <2>1
  <2>3. QED
    BY <2>2 DEF s
<1> HIDE DEF next
<1>8. b = BodyOf(next)
  <2>1. /\ BodyOf(next) \in Seq(Units) /\ Len(BodyOf(next)) = BodyLength
        /\ \A j \in 1 .. BodyLength : BodyOf(next)[j] = Unit(next, HeadLength + j)
    BY <1>7, Frames
  <2> HIDE DEF b
  <2>2. QED
    BY <1>3, <1>4, <1>6, <2>1, Same
<1>9. delivered' = [delivered EXCEPT ![p] = Append(delivered[p], next)]
  BY <1>6, <1>8 DEF CallBack
<1>10. QED
  BY <1>1, <1>4, <1>5, <1>9 DEF next

LEMMA ReadingCallBack ==
    ASSUME Typed, Reading, CallBack, NEW p, p = frame.from
    PROVE  Reading'
<1>1. /\ UNCHANGED <<state, link, torn>>
      /\ frame'.from = Subscriber /\ p \in Publishers
  BY DEF CallBack, registration, topic, NoFrame, Frame, Typed, ReadingTyped
<1>2. \A q \in Publishers : Stream(q)' = Stream(q) /\ link'[q].sent = link[q].sent
  BY <1>1 DEF Stream
<1>3. CASE p \in torn
  <2>1. delivered' = delivered
    BY <1>3 DEF CallBack
  <2>2. DeliversInOrder'
    BY <1>1, <2>1 DEF Reading, DeliversInOrder
  <2>3. ASSUME NEW q \in Publishers \ torn PROVE InFrame(q)' /\ InStream(q)'
    <3>1. q # Subscriber /\ q # p
      BY <1>3, SubscriberPublishesNothing
    <3>2. QED
      BY <1>1, <1>2, <2>1, <3>1, PlaceKept DEF Reading
  <2>4. QED
    BY <1>1, <2>2, <2>3 DEF Reading
<1>4. CASE p \notin torn
  <2> DEFINE d == Len(delivered[p])
  <2> DEFINE s == link[p].sent
  <2> DEFINE e == delivered[p]
  <2>1. /\ d < Len(s) /\ Begun(p) = FrameLength
        /\ delivered' = [delivered EXCEPT ![p] = Append(e, s[d + 1])]
    BY <1>4, CallBackDoes
  <2>2. /\ delivered'[p] = Append(e, s[d + 1])
        /\ \A q \in Publishers \ {p} : delivered'[q] = delivered[q]
    BY <1>1, <2>1 DEF Typed, ReadingTyped
  <2>3. s \in Seq(Nat) /\ e \in Seq(Nat) /\ d \in Nat /\ d = Len(e)
    BY <1>1, Positions
  <2>4. e = SubSeq(s, 1, d)
    BY <1>1 DEF Reading, DeliversInOrder
  <2>5. Len(delivered'[p]) = d + 1 /\ delivered'[p] = SubSeq(s, 1, d + 1) /\ d + 1 <= Len(s)
    <3>1. d + 1 \in 0 .. Len(s) /\ d \in 0 .. Len(s)
      <4> HIDE DEF s, e, d
      <4>1. QED
        BY <2>1, <2>3
    <3> DEFINE x == s[d + 1]
    <3>2. x \in Nat
      <4> HIDE DEF s, e, d
      <4>1. QED
        BY <2>1, <2>3
    <3> DEFINE f == SubSeq(s, 1, d + 1)
    <3>3. f \in Seq(Nat) /\ Len(f) = d + 1 /\ \A j \in 1 .. d + 1 : f[j] = s[j]
      <4> HIDE DEF s, e, d
      <4>1. s \in Seq(Nat) /\ d + 1 \in 0 .. Len(s)
        BY <2>3, <3>1
      <4>2. QED
        BY <4>1, FrontOf
    <3>4. \A j \in 1 .. d : e[j] = s[j]
      <4>1. \A j \in 1 .. d : SubSeq(s, 1, d)[j] = s[j]
        BY <2>3, <3>1, FrontOf
      <4>2. QED
        BY <2>4, <4>1
    <3> HIDE DEF s, e, d, f
    <3>5. /\ Append(e, x) \in Seq(Nat) /\ Len(Append(e, x)) = d + 1
          /\ Append(e, x)[d + 1] = x /\ \A j \in 1 .. d : Append(e, x)[j] = e[j]
      BY <2>3, <3>2
    <3>6. \A j \in 1 .. d + 1 : Append(e, x)[j] = f[j]
      BY <2>3, <3>3, <3>4, <3>5
    <3>7. Append(e, x) = f
      BY <3>3, <3>5, <3>6, Same
    <3>8. QED
      BY <2>2, <3>1, <3>5, <3>7 DEF f
  <2>6. DeliversInOrder'
    <3>1. ASSUME NEW q \in Publishers
          PROVE  /\ Len(delivered'[q]) <= Len(link'[q].sent)
                 /\ delivered'[q] = SubSeq(link'[q].sent, 1, Len(delivered'[q]))
      <4>1. CASE q = p
        BY <1>1, <2>5, <4>1
      <4>2. CASE q # p
        BY <1>1, <2>2, <4>2 DEF Reading, DeliversInOrder
      <4>3. QED
        BY <4>1, <4>2
    <3>2. QED
      BY <3>1 DEF DeliversInOrder
  <2>7. ASSUME NEW q \in Publishers \ torn, q # p PROVE InFrame(q)' /\ InStream(q)'
    <3>1. q # Subscriber
      BY SubscriberPublishesNothing
    <3>2. QED
      BY <1>1, <1>2, <2>2, <2>7, <3>1, PlaceKept DEF Reading
  <2>8. InFrame(p)'
    BY <1>1, SubscriberPublishesNothing DEF InFrame
  <2>9. InStream(p)'
    <3>1. Taken(p)' = Taken(p)
      <4>1. Begun(p)' = 0
        BY <1>1, SubscriberPublishesNothing DEF Begun
      <4>2. Taken(p)' = Before(d + 1) + 0 /\ Taken(p) = Before(d) + FrameLength
        BY <2>1, <2>5, <4>1 DEF Taken
      <4>3. Before(d + 1) = Before(d) + FrameLength /\ Before(d + 1) \in Nat
        <5>1. d \in Nat
          BY <2>3
        <5> HIDE DEF d
        <5>2. Before(d) \in Nat /\ Before(d + 1) = Before(d) + FrameLength
          BY <5>1, Places
        <5>3. QED
          BY <5>2, PartLengths
      <4>4. QED
        BY <4>2, <4>3
    <3>2. InStream(p)
      BY <1>1, <1>4 DEF Reading
    <3>3. QED
      BY <1>1, <1>2, <3>1, <3>2 DEF InStream
  <2>10. QED
    BY <1>1, <2>6, <2>7, <2>8, <2>9 DEF Reading
<1>5. QED
  BY <1>3, <1>4

-----------------------------------------------------------------------------
(***************************************************************************)
(* The three invariants together.                                          *)
(***************************************************************************)
IInv == Typed /\ Remembered /\ Serving /\ Reading

LEMMA Initially == Init => IInv
<1> SUFFICES ASSUME Init PROVE IInv
  OBVIOUS
<1>1. Typed
  BY TypedInitially
<1>2. /\ answer = [n \in Nodes |-> NoAnswer] /\ known = {} /\ notices = <<>>
      /\ link = [p \in Publishers |-> NotConnected]
      /\ state = [n \in Nodes |-> "constructing"]
      /\ at = "server" /\ frame = NoFrame
      /\ delivered = [p \in Publishers |-> <<>>] /\ torn = {}
  BY DEF Init, RegistrationInit
<1>3. Remembered
  BY <1>2 DEF Remembered, RememberedOf, NoAnswer
<1>4. Serving
  <2>1. \A p : Pending(p) = {}
    BY <1>2 DEF Pending
  <2>2. \A p \in Publishers : link[p].tries = 0
    BY <1>2 DEF NotConnected
  <2>3. QED
    BY <1>2, <2>1, <2>2 DEF Serving, ServingOf
<1>5. Reading
  <2>1. ASSUME NEW p \in Publishers
        PROVE  /\ frame.from = Subscriber /\ frame.from # p
               /\ link[p].sent = <<>> /\ Stream(p) = <<>> /\ delivered[p] = <<>>
    BY <1>2, SubscriberPublishesNothing DEF NoFrame, Frame, NotConnected, Stream
  <2>2. DeliversInOrder
    <3>1. SubSeq(<<>>, 1, 0) = <<>>
      <4>1. <<>> \in Seq({}) /\ Len(<<>>) = 0
        OBVIOUS
      <4>2. SubSeq(<<>>, 1, 0) \in Seq({}) /\ Len(SubSeq(<<>>, 1, 0)) = 0
        BY <4>1, FrontOf
      <4>3. QED
        BY <4>2
    <3>2. ASSUME NEW p \in Publishers
          PROVE  /\ Len(delivered[p]) <= Len(link[p].sent)
                 /\ delivered[p] = SubSeq(link[p].sent, 1, Len(delivered[p]))
      <4>1. delivered[p] = <<>> /\ link[p].sent = <<>> /\ Len(<<>>) = 0
        BY <2>1
      <4>2. Len(delivered[p]) = 0 /\ Len(link[p].sent) = 0
        BY <4>1
      <4>3. QED
        BY <3>1, <4>1, <4>2
    <3>3. QED
      BY <3>2 DEF DeliversInOrder
  <2>3. ASSUME NEW p \in Publishers PROVE InFrame(p) /\ InStream(p)
    <3>1. InFrame(p)
      BY <2>1 DEF InFrame
    <3>2. Taken(p) = 0 /\ Len(Stream(p)) = 0 /\ Len(link[p].sent) = 0
      <4>1. Len(<<>>) = 0
        OBVIOUS
      <4>2. Len(delivered[p]) = 0 /\ Len(Stream(p)) = 0 /\ Len(link[p].sent) = 0 /\ Begun(p) = 0
        BY <2>1, <4>1 DEF Begun
      <4>3. QED
        BY <4>2, Places DEF Taken
    <3>3. InStream(p)
      BY <3>2, Places, PartLengths DEF InStream
    <3>4. QED
      BY <3>1, <3>3
  <2>4. frame.from = Subscriber
    BY <1>2 DEF NoFrame, Frame
  <2>5. QED
    BY <2>2, <2>3, <2>4 DEF Reading
<1>6. QED
  BY <1>1, <1>3, <1>4, <1>5 DEF IInv

LEMMA RememberedKept == Typed /\ Remembered /\ [Next]_vars => Remembered'
<1> SUFFICES ASSUME Typed, Remembered, [Next]_vars PROVE Remembered'
  OBVIOUS
<1>1. RegistrationTyped
  BY DEF Typed
<1>2. UNCHANGED <<plan, answer, failed, state, known>> => Remembered'
  BY DEF Remembered, RememberedOf, AtStep
<1>3. ASSUME NEW n \in Nodes, Construct(n)
      PROVE  Remembered'
  BY <1>1, <1>3, RememberedInConstruction
<1>4. ASSUME NEW p \in Publishers, Leave(p)
      PROVE  Remembered'
  <2>1. p \in Nodes /\ Exit(p)
    BY <1>4 DEF Leave, Nodes
  <2>2. QED
    BY <1>1, <2>1, RememberedInExit
<1>5. ASSUME NEW p \in Publishers, Accept(p) \/ Publish(p) \/ Arrive(p)
      PROVE  Remembered'
  BY <1>2, <1>5 DEF Accept, Publish, Arrive, registration
<1>6. CASE NoticeArrives \/ PollServer
  BY <1>2, <1>6 DEF NoticeArrives, PollServer
<1>7. ASSUME NEW p \in Publishers, PassOver(p) \/ ReadHead(p)
      PROVE  Remembered'
  BY <1>2, <1>7 DEF PassOver, ReadHead, registration
<1>8. CASE ReadBody \/ GiveUp \/ CallBack \/ EndRound
  BY <1>2, <1>8 DEF ReadBody, GiveUp, CallBack, EndRound, registration
<1>9. CASE UNCHANGED vars
  BY <1>2, <1>9 DEF vars, registration
<1>10. QED
  BY <1>3, <1>4, <1>5, <1>6, <1>7, <1>8, <1>9 DEF Next

LEMMA ServingKept == Typed /\ Serving /\ [Next]_vars => Serving'
<1> SUFFICES ASSUME Typed, Serving, [Next]_vars PROVE Serving'
  OBVIOUS
<1>1. ASSUME UNCHANGED <<answer, state, known, notices>>,
             \A p \in Publishers : link'[p].tries = link[p].tries,
             at = "dead" => at' = "dead"
      PROVE  Serving'
  BY <1>1, ServingUntouched DEF Unserved
<1>2. ASSUME NEW n \in Nodes, Construct(n) /\ UNCHANGED <<topic, reading>>
      PROVE  Serving'
  <2>1. CASE Serve(n)
    BY <1>2, <2>1, ServingServe
  <2>2. CASE RegisterElsewhere(n) \/ LookAtRobot(n) \/ HubUnreached(n) \/ Return(n) \/ Spin(n)
    <3>1. /\ answer \in [Nodes -> Answers \cup {NoAnswer}]
          /\ state \in [Nodes -> {"constructing", "spinning", "stopped", "exited"}]
      BY DEF Typed, RegistrationTyped
    <3>2. state[n] = "constructing" /\ UNCHANGED <<known, notices>>
      BY <2>2 DEF RegisterElsewhere, LookAtRobot, HubUnreached, Return, Spin, AtStep
    <3>3. answer' = answer \/ (answer[n] # NoAnswer /\ answer' = [answer EXCEPT ![n] = Outcome(answer[n])])
      BY <2>2 DEF RegisterElsewhere, LookAtRobot, HubUnreached, Return, Spin
    <3>4. \A m \in Nodes \ {n} : answer'[m] = answer[m] /\ state'[m] = state[m]
      <4>1. state' = state \/ \E x : state' = [state EXCEPT ![n] = x]
        BY <2>2 DEF RegisterElsewhere, LookAtRobot, HubUnreached, Return, Spin, Proceed
      <4>2. QED
        BY <3>1, <3>3, <4>1
    <3>5. ASSUME NEW m \in Nodes, Unserved(m)'
          PROVE  Unserved(m)
      <4>1. CASE m # n
        BY <3>4, <3>5, <4>1 DEF Unserved
      <4>2. CASE m = n
        <5>1. Outcome(answer[n]) # NoAnswer
          BY DEF Outcome, NoAnswer
        <5>2. answer[n] = NoAnswer
          BY <3>1, <3>3, <3>5, <4>2, <5>1 DEF Unserved
        <5>3. QED
          BY <3>2, <4>2, <5>2 DEF Unserved
      <4>3. QED
        BY <4>1, <4>2
    <3>6. link' = link /\ at' = at
      BY <1>2 DEF topic, reading
    <3>7. QED
      BY <3>2, <3>5, <3>6, ServingUntouched
  <2>3. QED
    BY <1>2, <2>1, <2>2 DEF Construct
<1>3. ASSUME NEW p \in Publishers, Leave(p)
      PROVE  Serving'
  <2>1. p \in Nodes /\ Exit(p)
    BY <1>3 DEF Leave, Nodes
  <2>2. /\ known' \subseteq known /\ notices' = notices /\ state'[p] = "exited"
        /\ \A m \in Nodes \ {p} : answer'[m] = answer[m] /\ state'[m] = state[m]
    BY <2>1 DEF Exit, Typed, RegistrationTyped
  <2>3. \A m \in Nodes : Unserved(m)' => Unserved(m)
    BY <2>2 DEF Unserved
  <2>4. \A q \in Publishers : link'[q].tries = link[q].tries
    BY <1>3, LeaveDoes DEF OthersKept
  <2>5. at' = at
    BY <1>3 DEF Leave, reading
  <2>6. QED
    BY <2>2, <2>3, <2>4, <2>5, ServingUntouched
<1>4. ASSUME NEW p \in Publishers, Accept(p) \/ Publish(p) \/ Arrive(p)
      PROVE  Serving'
  <2>1. UNCHANGED <<answer, state, known, notices, at>>
    BY <1>4 DEF Accept, Publish, Arrive, registration, reading
  <2>2. link'[p].tries = link[p].tries
    <3>1. link[p] \in Links
      BY DEF Typed, TopicTyped
    <3>2. CASE Accept(p)
      BY <3>1, <3>2, AcceptDoes DEF Links
    <3>3. CASE Publish(p)
      BY <3>1, <3>3, PublishDoes DEF Links
    <3>4. CASE Arrive(p)
      BY <3>4, ArriveDoes
    <3>5. QED
      BY <1>4, <3>2, <3>3, <3>4
  <2>3. OthersKept(p)
    BY <1>4, AcceptDoes, PublishDoes, ArriveDoes
  <2>4. QED
    BY <1>1, <2>1, <2>2, <2>3 DEF OthersKept
<1>5. CASE NoticeArrives
  <2>1. UNCHANGED <<answer, state, known, link, at>> /\ notices # <<>>
    BY <1>5 DEF NoticeArrives, topic, reading
  <2>2. \A p : Pending(p)' = Pending(p)
    <3> DEFINE N == [pubs : SUBSET Nodes, arrived : 0 .. Whole]
    <3>1. /\ notices \in Seq(N) /\ notices' \in Seq(N) /\ Len(notices') = Len(notices)
          /\ \A i \in 1 .. Len(notices) : notices'[i].pubs = notices[i].pubs
      BY <1>5, NoticeArrivesDoes DEF Typed, RegistrationTyped
    <3> HIDE DEF N
    <3>2. DOMAIN notices = 1 .. Len(notices) /\ DOMAIN notices' = 1 .. Len(notices)
      BY <3>1
    <3>3. QED
      BY <3>1, <3>2 DEF Pending
  <2>3. \A n : Unserved(n)' <=> Unserved(n)
    BY <2>1 DEF Unserved
  <2>4. ~Unserved(Subscriber)
    BY <2>1 DEF Serving
  <2>5. ASSUME NEW p \in Publishers PROVE ServingOf(p)'
    <3>1. ServingOf(p)
      BY DEF Serving
    <3>2. QED
      BY <2>1, <2>2, <2>3, <3>1 DEF ServingOf
  <2>6. QED
    BY <2>1, <2>3, <2>4, <2>5 DEF Serving
<1>6. CASE PollServer
  BY <1>6, ServingPoll
<1>7. ASSUME NEW p \in Publishers, PassOver(p)
      PROVE  Serving'
  <2>1. UNCHANGED <<answer, state, known, notices, at>>
    BY <1>7 DEF PassOver, registration
  <2>2. QED
    BY <1>1, <1>7, <2>1, PassOverDoes
<1>8. ASSUME NEW p \in Publishers, ReadHead(p)
      PROVE  Serving'
  <2>1. UNCHANGED <<answer, state, known, notices>> /\ at # "dead"
    BY <1>8 DEF ReadHead, registration
  <2>2. \A q \in Publishers : link'[q].tries = link[q].tries
    BY <1>8, ReadHeadDoes DEF Took, OthersKept
  <2>3. QED
    BY <1>1, <2>1, <2>2
<1>9. CASE ReadBody
  <2>1. UNCHANGED <<answer, state, known, notices, at>>
    BY <1>9 DEF ReadBody, registration
  <2>2. \A q \in Publishers : link'[q].tries = link[q].tries
    BY <1>9, ReadBodyDoes DEF Took, OthersKept
  <2>3. QED
    BY <1>1, <2>1, <2>2
<1>10. CASE GiveUp \/ CallBack \/ EndRound
  <2>1. UNCHANGED <<answer, state, known, notices, link>> /\ at # "dead"
    BY <1>10 DEF GiveUp, CallBack, EndRound, InBody, registration, topic
  <2>2. QED
    BY <1>1, <2>1
<1>11. CASE UNCHANGED vars
  BY <1>1, <1>11 DEF vars, registration, topic, reading
<1>12. QED
  BY <1>2, <1>3, <1>4, <1>5, <1>6, <1>7, <1>8, <1>9, <1>10, <1>11 DEF Next

LEMMA ReadingKept == Typed /\ Reading /\ [Next]_vars => Reading'
<1> SUFFICES ASSUME Typed, Reading, [Next]_vars PROVE Reading'
  OBVIOUS
<1>1. Publishers \subseteq Nodes
  BY DEF Nodes
<1>2. link' = link => StreamsKept
  BY DEF StreamsKept
<1>3. ASSUME NEW n \in Nodes, Construct(n) /\ UNCHANGED <<topic, reading>>
      PROVE  Reading'
  <2>1. UNCHANGED <<link, at, frame, delivered, torn>>
    BY <1>3 DEF topic, reading
  <2>2. state' = state \/ (state[n] = "constructing" /\ \E x : state' = [state EXCEPT ![n] = x])
    BY <1>3 DEF Construct, RegisterElsewhere, LookAtRobot, HubUnreached, Return, Spin, Serve, Proceed, AtStep
  <2>3. \A p \in Publishers : state'[p] # "exited" => state[p] # "exited"
    BY <1>1, <2>2 DEF Typed, RegistrationTyped
  <2>4. QED
    BY <1>2, <2>1, <2>3, ReadingUntouched DEF Reading
<1>4. ASSUME NEW p \in Publishers, Accept(p)
      PROVE  Reading'
  <2>1. UNCHANGED <<state, at, frame, delivered, torn>>
    BY <1>4 DEF Accept, registration, reading
  <2>2. StreamsKept
    <3>1. link[p] \in Links
      BY DEF Typed, TopicTyped
    <3>2. /\ link'[p].sent = link[p].sent /\ link'[p].wire = link[p].wire
          /\ link'[p].arrived = link[p].arrived
      BY <1>4, <3>1, AcceptDoes DEF Links
    <3>3. QED
      BY <1>4, <3>2, AcceptDoes DEF OthersKept, StreamsKept
  <2>3. QED
    BY <2>1, <2>2, ReadingUntouched DEF Reading
<1>5. ASSUME NEW p \in Publishers, Publish(p) \/ Leave(p) \/ Arrive(p)
      PROVE  Reading'
  BY <1>5, ReadingPublish, ReadingLeave, ReadingArrive
<1>6. CASE NoticeArrives
  <2>1. UNCHANGED <<state, link, at, frame, delivered, torn>>
    BY <1>6 DEF NoticeArrives, topic, reading
  <2>2. QED
    BY <1>2, <2>1, ReadingUntouched DEF Reading
<1>7. CASE PollServer
  <2>1. UNCHANGED <<state, frame, delivered, torn>> /\ at = "server"
    BY <1>7 DEF PollServer
  <2>2. QED
    BY <1>7, <2>1, PollServerDoes, ReadingUntouched DEF Reading
<1>8. ASSUME NEW p \in Publishers, PassOver(p)
      PROVE  Reading'
  <2>1. UNCHANGED <<state, at, frame, delivered, torn>>
    BY <1>8 DEF PassOver, registration
  <2>2. QED
    BY <1>8, <2>1, PassOverDoes, ReadingUntouched DEF Reading
<1>9. ASSUME NEW p \in Publishers, ReadHead(p)
      PROVE  Reading'
  BY <1>9, ReadingHead
<1>10. CASE ReadBody
  BY <1>10, ReadingBody
<1>11. CASE GiveUp
  BY <1>11, ReadingGiveUp
<1>12. CASE CallBack
  BY <1>12, ReadingCallBack
<1>13. CASE EndRound
  <2>1. UNCHANGED <<state, link, frame, delivered, torn>> /\ at = "clients" /\ at' = "server"
    BY <1>13 DEF EndRound, registration, topic
  <2>2. QED
    BY <1>2, <2>1, ReadingUntouched DEF Reading
<1>14. CASE UNCHANGED vars
  <2>1. UNCHANGED <<state, link, at, frame, delivered, torn>>
    BY <1>14 DEF vars, registration, topic, reading
  <2>2. QED
    BY <1>2, <2>1, ReadingUntouched DEF Reading
<1>15. QED
  BY <1>3, <1>4, <1>5, <1>6, <1>7, <1>8, <1>9, <1>10, <1>11, <1>12, <1>13, <1>14 DEF Next

LEMMA Inductive == Spec => []IInv
<1>1. IInv /\ [Next]_vars => IInv'
  BY TypedKept, RememberedKept, ServingKept, ReadingKept DEF IInv
<1>2. QED
  BY <1>1, Initially, PTL DEF Spec

(* Whatever the hub answered, in however many bytes the answer arrived and *)
(* whatever else failed: a program that goes on as registered (node.hpp,   *)
(* node.py) is known to the hub, unless it did not read the hub's status   *)
(* to its end.                                                             *)
THEOREM RegisteredAreKnown == Spec => []BelievedIsKnown
<1>1. ASSUME IInv PROVE BelievedIsKnown
  <2> SUFFICES ASSUME NEW n \in Nodes, Ok(n), answer[n].bytes = StatusSize
               PROVE  n \in known
    BY DEF BelievedIsKnown
  <2>1. RememberedOf(n)
    BY <1>1 DEF IInv, Remembered
  <2>2. answer[n].error = 0
    BY <2>1 DEF RememberedOf, Ok
  <2>3. QED
    BY <2>1, <2>2 DEF RememberedOf, Ok
<1>2. QED
  BY <1>1, Inductive, PTL

(* For any number of publishers, in whatever order they and the subscriber *)
(* register and whichever of them fail: a publisher is named to            *)
(* Subscriber._spin_once in one notice, and once only.                     *)
THEOREM AnnouncedExactlyOnce == Spec => []AnnouncedOnce
<1>1. ASSUME IInv PROVE AnnouncedOnce
  <2> SUFFICES ASSUME NEW p \in Publishers
               PROVE  /\ Announced(p) <= 1
                      /\ {p, Subscriber} \subseteq known /\ at # "dead" => Announced(p) = 1
    BY DEF AnnouncedOnce
  <2>1. ServingOf(p)
    BY <1>1 DEF IInv, Serving
  <2>2. Announced(p) = link[p].tries + Cardinality(Pending(p))
    BY DEF Announced, Pending
  <2>3. CASE Pending(p) = {}
    <3>1. Cardinality(Pending(p)) = 0
      BY <2>3, FS_EmptySet
    <3>2. QED
      BY <2>1, <2>2, <2>3, <3>1 DEF ServingOf
  <2>4. CASE Pending(p) # {}
    <3>1. PICK i : Pending(p) = {i}
      BY <2>1, <2>4 DEF ServingOf
    <3>2. Cardinality(Pending(p)) = 1
      BY <3>1, FS_Singleton
    <3>3. link[p].tries = 0
      BY <2>1, <2>4 DEF ServingOf
    <3>4. QED
      BY <2>2, <3>2, <3>3
  <2>5. QED
    BY <2>3, <2>4
<1>2. QED
  BY <1>1, Inductive, PTL

(* Whatever the lengths of frames, the number of messages and the portions *)
(* in which the network hands them over: as long as _spin_once finds each  *)
(* frame whole, the callback gets the messages in the order in which they  *)
(* were sent, none left out and none made up, also if the publisher leaves *)
(* in the middle of a frame.                                               *)
THEOREM DeliveredInOrder == Spec => []DeliversInOrder
<1>1. IInv => DeliversInOrder
  BY DEF IInv, Reading
<1>2. QED
  BY <1>1, Inductive, PTL

=============================================================================
