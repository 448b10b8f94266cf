-------------------------- MODULE PythonSubscriber --------------------------
(***************************************************************************)
(* A subscriber of gui/rixcore spinning on the thread of its node, and the *)
(* connections of the publishers it is told of. Each round of _spin_once   *)
(* takes at most one SubNotify and then looks at every client once; a      *)
(* readable one is read frame by frame, a length and the bytes it          *)
(* announces.                                                              *)
(*                                                                         *)
(* A frame travels as units of which any number may have arrived when the  *)
(* subscriber reads. The sockets do not block: a read with nothing to take *)
(* raises, and _spin_once gives the frame up where it is. A read of bytes  *)
(* that are not a length gives any length. Names and addresses are ASCII,  *)
(* so that a SubNotify of which a part has arrived can still be decoded.   *)
(***************************************************************************)
EXTENDS Registration

CONSTANTS
    HeadLength,    \* units of a length prefix
    BodyLength,    \* units of a message
    Lengths,       \* what other bytes may be read as, when read as a length
    MaxMessages    \* bound: by publisher, the messages it publishes

ASSUME FrameHasParts == {HeadLength, BodyLength} \subseteq Nat \ {0}
ASSUME LengthsAreNatural == Lengths \subseteq Nat

VARIABLES
    link,        \* by publisher, the connection to it
    published,   \* by publisher, how many messages it has published
    at,          \* where _spin_once is: "server", "clients", "body" or "dead"
    todo,        \* the clients the round has still to look at
    frame,       \* the frame that is being read
    delivered,   \* by publisher, the messages passed to the callback
    torn         \* history: the publishers of whom a frame was read in parts

reading == <<at, todo, frame, delivered, torn>>
topic   == <<link, published>>
vars    == <<registration, topic, reading>>

-----------------------------------------------------------------------------
(* Connections *)

NotConnected ==
    [status |-> "none", tries |-> 0, sent |-> <<>>, wire |-> <<>>, arrived |-> <<>>]

Unit(k, i) == <<k, i>>
FrameOf(k) == [i \in 1 .. HeadLength + BodyLength |-> Unit(k, i)]
HeadOf(k)  == SubSeq(FrameOf(k), 1, HeadLength)
BodyOf(k)  == SubSeq(FrameOf(k), HeadLength + 1, HeadLength + BodyLength)

(* Of a frame: the client, the message its length announces, or 0, the length,
   and what has been read.                                                  *)
Frame(p, k, n) == [from |-> p, head |-> k, need |-> n, body |-> <<>>]
NoFrame == Frame(Subscriber, 0, 0)

(* The publisher has closed and everything it sent has been read: a read
   returns zero.                                                            *)
AtEnd(p) ==
    link[p].status = "closed" /\ link[p].wire = <<>> /\ link[p].arrived = <<>>

ClientsOf(l) == {p \in Publishers : l[p].status \notin {"none", "forgotten"}}

Least(m, n) == IF m < n THEN m ELSE n

Take(c, n) == [c EXCEPT !.arrived = SubSeq(@, n + 1, Len(@))]

-----------------------------------------------------------------------------

Init ==
    /\ RegistrationInit
    /\ link = [p \in Publishers |-> NotConnected]
    /\ published = [p \in Publishers |-> 0]
    /\ at = "server" /\ todo = {}
    /\ frame = NoFrame
    /\ delivered = [p \in Publishers |-> <<>>] /\ torn = {}

-----------------------------------------------------------------------------
(* Publishers, of rix::core: publish and spin_once, and the network *)

Running(p) == state[p] = "spinning" /\ Ok(p)

(* spin_once accepts a connection. *)
Accept(p) ==
    /\ Running(p) /\ link[p].status = "backlog"
    /\ link' = [link EXCEPT ![p].status = "open"]
    /\ UNCHANGED <<registration, published, reading>>

(* publish sends one frame on every connection. *)
Publish(p) ==
    /\ Running(p) /\ published[p] < MaxMessages[p]
    /\ published' = [published EXCEPT ![p] = @ + 1]
    /\ link' = IF link[p].status # "open" THEN link
               ELSE [link EXCEPT ![p].wire = @ \o FrameOf(published'[p]),
                                 ![p].sent = Append(@, published'[p])]
    /\ UNCHANGED <<registration, reading>>

Closed(c) == IF c.status \in {"backlog", "open"} THEN [c EXCEPT !.status = "closed"] ELSE c

(* The process exits, perhaps on a signal that interrupts send when it has
   passed on no more than a part of the frame.                              *)
Leave(p) ==
    /\ Exit(p)
    /\ \E n \in 0 .. HeadLength + BodyLength - 1 :
         /\ n > 0 => Running(p) /\ link[p].status = "open" /\ published[p] < MaxMessages[p]
         /\ link' = [link EXCEPT
              ![p] = Closed([@ EXCEPT
                !.wire = link[p].wire \o SubSeq(FrameOf(published[p] + 1), 1, n)])]
    /\ published' = [published EXCEPT ![p] = 0]
    /\ UNCHANGED reading

Arrive(p) ==
    /\ \E n \in 1 .. Len(link[p].wire) :
         link' = [link EXCEPT ![p].arrived = @ \o SubSeq(link[p].wire, 1, n),
                              ![p].wire = SubSeq(@, n + 1, Len(@))]
    /\ UNCHANGED <<registration, published, reading>>

(* A SubNotify message: a part of its Operation, the Operation with a part of
   what it announces, the whole.                                            *)
InOperation == 1
InBodyOfNotice == 2
Whole == 3

NoticeArrives ==
    /\ notices # <<>> /\ Head(notices).arrived < Whole
    /\ \E n \in {InOperation, InBodyOfNotice, Whole} :
         /\ n > Head(notices).arrived
         /\ notices' = [notices EXCEPT ![1].arrived = n]
    /\ UNCHANGED <<plan, answer, failed, state, known, topic, reading>>

-----------------------------------------------------------------------------
(* Subscriber._spin_once *)

Spinning == state[Subscriber] = "spinning" /\ Ok(Subscriber)

Client(p) == IF Listens(p) THEN "backlog" ELSE "refused"

(* Replaces the clients by those of the message. *)
ConnectedOnly(announced, read) ==
    [p \in Publishers |->
       IF p \notin announced THEN NotConnected
       ELSE [link[p] EXCEPT !.tries = @ + 1,
                            !.status = IF p \in read THEN Client(p) ELSE @]]

(* A client for each publisher that is read from a SubNotify message.  connect
   does not wait; a publisher that does not listen any more refuses.  One whose
   endpoint has not arrived is lost: its client is never connected.         *)
Connected(announced, read) ==
    [p \in Publishers |->
       IF p \notin announced THEN link[p]
       ELSE [link[p] EXCEPT !.tries = @ + 1,
                            !.status = IF p \in read THEN Client(p) ELSE @]]

(* The publishers whose endpoints are read from what has arrived. *)
Read(notice) ==
    IF notice.arrived = InOperation THEN {{}}
    ELSE IF notice.arrived = InBodyOfNotice THEN SUBSET notice.pubs
    ELSE {notice.pubs}

(* The first part of a round.  Both reads block, but each takes what is there
   and the buffer keeps zeros for the rest.  After a part of an Operation the
   message is read out of its place, whether it names publishers or not: it may
   seem empty, or deserialize raises, _spin_once and Node.spin do not catch it,
   and the thread ends.                                                     *)
PollServer ==
    /\ Spinning /\ at = "server"
    /\ IF notices = <<>>
       THEN /\ at' = "clients" /\ todo' = ClientsOf(link)
            /\ UNCHANGED <<link, notices>>
       ELSE /\ Head(notices).arrived > 0
            /\ notices' = Tail(notices)
            /\ \/ /\ Head(notices).arrived = InOperation
                  /\ at' = "dead" /\ UNCHANGED <<link, todo>>
               \/ /\ \E read \in Read(Head(notices)) :
                       link' = Connected(Head(notices).pubs, read)
                  /\ at' = "clients" /\ todo' = ClientsOf(link')
    /\ UNCHANGED <<plan, answer, failed, state, known, published, frame, delivered, torn>>

Idle(p) == Spinning /\ at = "clients" /\ p \in todo /\ link[p].arrived = <<>>

(* Removes a client with nothing to read. *)
PassOverAndForget(p) ==
    /\ Idle(p)
    /\ todo' = todo \ {p}
    /\ link' = [link EXCEPT ![p].status = "forgotten"]
    /\ UNCHANGED <<registration, published, at, frame, delivered, torn>>

(* Keeps a client that has come to its end. *)
PassOverOnly(p) ==
    /\ Idle(p)
    /\ todo' = todo \ {p}
    /\ UNCHANGED <<registration, topic, at, frame, delivered, torn>>

(* Nothing to read, a read that raises, or the end, where the client is removed.
   A refused client raises; whether the read after that one finds the end is
   left to the system.                                                      *)
PassOver(p) ==
    /\ Idle(p)
    /\ todo' = todo \ {p}
    /\ \E forget \in BOOLEAN :
         /\ AtEnd(p) => forget
         /\ forget => AtEnd(p) \/ link[p].status = "refused"
         /\ link' = IF forget THEN [link EXCEPT ![p].status = "forgotten"] ELSE link
    /\ UNCHANGED <<registration, published, at, frame, delivered, torn>>

(* The length prefix: as much of it as has arrived. *)
ReadHead(p) ==
    /\ Spinning /\ at = "clients" /\ p \in todo
    /\ link[p].arrived # <<>>
    /\ LET units == SubSeq(link[p].arrived, 1, Least(HeadLength, Len(link[p].arrived)))
           whole == {k \in 1 .. MaxMessages[p] : units = HeadOf(k)}
       IN /\ link' = [link EXCEPT ![p] = Take(@, Len(units))]
          /\ IF whole # {}
             THEN /\ \E k \in whole : frame' = Frame(p, k, BodyLength)
                  /\ UNCHANGED torn
             ELSE /\ \E n \in Lengths : frame' = Frame(p, 0, n)
                  /\ torn' = torn \cup {p}
    /\ at' = "body"
    /\ todo' = todo \ {p}
    /\ UNCHANGED <<registration, published, delivered>>

InBody == Spinning /\ at = "body" /\ Len(frame.body) < frame.need

(* One recv_into of the loop.  At the end of a closed connection it returns
   zero for ever, and there is no step out of the loop.                     *)
ReadBody ==
    /\ InBody /\ link[frame.from].arrived # <<>>
    /\ LET arrived == link[frame.from].arrived
           n == Least(frame.need - Len(frame.body), Len(arrived))
       IN /\ frame' = [frame EXCEPT !.body = @ \o SubSeq(arrived, 1, n)]
          /\ link' = [link EXCEPT ![frame.from] = Take(@, n)]
    /\ UNCHANGED <<registration, published, at, todo, delivered, torn>>

(* Waits, as a socket that blocks would. *)
WaitForMore ==
    /\ InBody /\ link[frame.from].arrived = <<>> /\ ~AtEnd(frame.from)
    /\ UNCHANGED vars

(* Nothing has arrived: recv_into raises and the frame is given up. *)
GiveUp ==
    /\ InBody /\ link[frame.from].arrived = <<>> /\ ~AtEnd(frame.from)
    /\ at' = "clients" /\ frame' = NoFrame
    /\ torn' = torn \cup {frame.from}
    /\ UNCHANGED <<registration, topic, todo, delivered>>

(* Calls back after the first recv_into. *)
CallBackAtOnce ==
    /\ Spinning /\ at = "body" /\ (frame.need > 0 => frame.body # <<>>)
    /\ at' = "clients" /\ frame' = NoFrame
    /\ delivered' = IF frame.from \in torn THEN delivered
                    ELSE [delivered EXCEPT ![frame.from] = Append(@,
                            IF frame.body = BodyOf(frame.head) THEN frame.head ELSE 0)]
    /\ UNCHANGED <<registration, topic, todo, torn>>

(* The callback, which gets whatever the length has cut out of the stream;
   what comes of it is recorded as long as frames were read whole.          *)
CallBack ==
    /\ Spinning /\ at = "body" /\ Len(frame.body) >= frame.need
    /\ at' = "clients" /\ frame' = NoFrame
    /\ delivered' = IF frame.from \in torn THEN delivered
                    ELSE [delivered EXCEPT ![frame.from] = Append(@,
                            IF frame.body = BodyOf(frame.head) THEN frame.head ELSE 0)]
    /\ UNCHANGED <<registration, topic, todo, torn>>

EndRound ==
    /\ Spinning /\ at = "clients" /\ todo = {}
    /\ at' = "server"
    /\ UNCHANGED <<registration, topic, todo, frame, delivered, torn>>
=============================================================================
