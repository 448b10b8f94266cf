------------------------------- MODULE Topic --------------------------------
(***************************************************************************)
(* The connection of one publisher to one subscriber, as the nodes see it  *)
(* and as the documentation of rix::core::Publisher and Subscriber         *)
(* describes it; their implementation is in binary libraries.  Messages    *)
(* are delivered in order.  What is published before the subscriber has    *)
(* connected is not delivered; a publisher that finds the connection not   *)
(* writable erases it, and nothing published later is delivered either.    *)
(***************************************************************************)
EXTENDS Naturals, Sequences

CONSTANT Capacity  (* bound: messages a connection holds *)

ASSUME CapacityIsNatural == Capacity \in Nat

NoConnection == [status |-> "waiting", queue |-> <<>>]

Connect(topic) == [topic EXCEPT !.status = "up"]

Publish(topic, message) ==
    IF topic.status # "up" THEN topic
    ELSE IF Len(topic.queue) = Capacity THEN [topic EXCEPT !.status = "lost"]
    ELSE [topic EXCEPT !.queue = Append(@, message)]

Received(topic) == [topic EXCEPT !.queue = Tail(@)]

TopicsOf(messages) ==
    [status : {"waiting", "up", "lost"}, queue : Seq(messages)]

=============================================================================
