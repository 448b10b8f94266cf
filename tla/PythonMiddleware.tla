-------------------------- MODULE PythonMiddleware --------------------------
(***************************************************************************)
(* Programs that start, register with the hub, publish one topic and exit, *)
(* a Python subscriber that is told of them, connects to them and reads    *)
(* their messages, and the network between them.                           *)
(***************************************************************************)
EXTENDS PythonSubscriber

Next ==
    \/ \E n \in Nodes : Construct(n) /\ UNCHANGED <<topic, reading>>
    \/ \E p \in Publishers : Accept(p) \/ Publish(p) \/ Leave(p) \/ Arrive(p)
    \/ NoticeArrives
    \/ PollServer
    \/ \E p \in Publishers : PassOver(p) \/ ReadHead(p)
    \/ ReadBody \/ GiveUp \/ CallBack \/ EndRound

(* The subscriber's thread goes on, and what was sent arrives.  Nothing makes a
   publisher publish or exit, or the hub reachable.                         *)
SubscriberSteps ==
    \/ PollServer
    \/ \E p \in Publishers : PassOver(p) \/ ReadHead(p)
    \/ ReadBody \/ GiveUp \/ CallBack \/ EndRound

Fairness ==
    /\ WF_reading(SubscriberSteps)
    /\ WF_notices(NoticeArrives)
    /\ \A p \in Publishers : WF_link(Arrive(p))

Spec == Init /\ [][Next]_vars /\ Fairness

-----------------------------------------------------------------------------

(* A program that goes on as registered is known to the hub; it may be wrong
   only if the hub's status was not read to its end.                        *)
BelievedIsKnown ==
    \A n \in Nodes : Ok(n) => n \in known \/ answer[n].bytes # StatusSize

(* Times p was announced to the subscriber, in a message it has yet to take or
   in one it has taken.                                                     *)
Announced(p) ==
    link[p].tries + Cardinality({i \in DOMAIN notices : p \in notices[i].pubs})

(* In whatever order the two register, a publisher is announced to the
   subscriber once, so that there is one connection and no message comes twice;
   and once both are known, no less than once.                              *)
AnnouncedOnce ==
    \A p \in Publishers :
        /\ Announced(p) <= 1
        /\ {p, Subscriber} \subseteq known /\ at # "dead" => Announced(p) = 1

(* As long as no frame of a publisher was read in parts, its messages come in
   the order they were sent, none is left out and none is made up.          *)
DeliversInOrder ==
    \A p \in Publishers :
        /\ Len(delivered[p]) <= Len(link[p].sent)
        /\ delivered[p] = SubSeq(link[p].sent, 1, Len(delivered[p]))

(* The loop at subscriber.py:101 after the publisher has closed: it waits for
   bytes that will not come.                                                *)
Stuck == at = "body" /\ InBody /\ AtEnd(frame.from)

(* _spin_once returns, and with it the other components of the node get their
   turn, unless a publisher has closed with less sent than the subscriber
   takes its frame to hold, or a part of an Operation has ended the thread. *)
KeepsSpinning == []<>(at \in {"server", "dead"} \/ Stuck)

Halted == at = "dead" \/ Stuck

(* Again and again there is a moment when nothing is outstanding: every message
   sent on a connection has been passed to the callback, unless one of the
   publisher's frames was read in parts or the thread is held or ended.     *)
EventuallyDelivered ==
    []<>(Spinning => Halted \/ \A p \in Publishers :
           p \in torn \/ Len(delivered[p]) = Len(link[p].sent))

(* Again and again there is a moment when no client is left whose publisher has
   closed, be it that the program has ended or that its construction failed
   after it was announced, unless the thread is held or ended.              *)
ForgetsTheClosed ==
    []<>(Spinning => Halted \/ \A p \in Publishers : link[p].status # "closed")
=============================================================================
