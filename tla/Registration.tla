---------------------------- MODULE Registration ----------------------------
(***************************************************************************)
(* How programs register with rixhub. A constructor works through a plan:  *)
(* it announces the node and each of its publishers and subscribers with   *)
(* send_message_with_opcode, a request and the Status that answers it, and *)
(* where the program asks for ok() a failure ends the construction: the    *)
(* node is shut down, spin returns at once and the process exits.          *)
(*                                                                         *)
(* The hub is a binary; it is modelled after the documentation of          *)
(* rix::core::Mediator: it serves one connection at a time, and enters,    *)
(* answers and announces a registration before it serves the next.         *)
(*                                                                         *)
(* One topic is looked at, with the programs that publish it and one that  *)
(* subscribes to it. What else they register has only to succeed.          *)
(***************************************************************************)
EXTENDS Integers, Sequences, FiniteSets

CONSTANTS
    Publishers,   \* the programs that publish the topic
    Subscriber,   \* the program that subscribes to it
    Language,     \* Language[n]: what n is written in, "cpp" or "python"
    Plans         \* Plans[n]: the plans one of which is n's constructor

Nodes == Publishers \cup {Subscriber}

ASSUME SubscriberPublishesNothing == Subscriber \notin Publishers

VARIABLES
    plan,       \* what is left of each constructor
    answer,     \* the answer to each program's registration on the topic
    failed,     \* the kinds of registration that failed, by program
    state,      \* "constructing", "spinning", "stopped" or "exited"
    known,      \* the hub's table for the topic
    notices     \* the SubNotify messages that wait for the subscriber

registration == <<plan, answer, failed, state, known, notices>>

-----------------------------------------------------------------------------
(* Plans *)

Step(what, checked) == [what |-> what, checked |-> checked]

JointStatePublisherPlan ==
    << Step("node", TRUE), Step("robot", TRUE), Step("topic", TRUE),
       Step("other", TRUE) >>

(* The node itself is not asked for ok(), and the broadcaster only after the
   model.                                                                   *)
RobotStatePublisherPlan ==
    << Step("node", FALSE), Step("topic", FALSE), Step("robot", TRUE),
       Step("other", TRUE) >>

RandomSetpointPublisherPlan == << Step("node", TRUE), Step("topic", TRUE) >>

(* create_subscriber never returns the None that main asks for. *)
GuiPlan == << Step("node", TRUE), Step("topic", FALSE) >>

-----------------------------------------------------------------------------
(* One exchange with the hub, from the side of the program *)

StatusSize == 9     \* an id of eight bytes and an error of one

(* How an exchange ends: whether the request was sent, what the read of the
   status returned, -1 for an error, and the error the hub put in it.       *)
Answers ==
    [sent : BOOLEAN, bytes : {-1, StatusSize - 1, StatusSize}, error : {0, 1}]

NoAnswer == [sent |-> FALSE, bytes |-> 0, error |-> 0]

(* The last byte of the buffer, zero unless the read reached it. *)
ErrorRead(a) == IF a.bytes = StatusSize THEN a.error ELSE 0

(* Looks at how much came back and never at what it says. *)
Answered(lang, a) ==
    a.sent /\ (lang = "cpp" => a.bytes \in {-1, StatusSize}) /\ (lang = "python" => a.bytes >= 0)

(* C++ hands the -1 of a failed read to deserialize as the size, where it is
   larger than any buffer; Python does not look at the number of bytes.     *)
Succeeds(lang, a) ==
    /\ a.sent
    /\ lang = "cpp" => a.bytes \in {-1, StatusSize}
    /\ lang = "python" => a.bytes >= 0
    /\ ErrorRead(a) = 0

(* Whether the exchange may raise, which nothing catches.  In Python connecting
   and reading raise; a failing send is caught, and the exchange returns.   *)
Raises(lang, a) ==
    IF lang = "cpp" THEN {FALSE} ELSE IF a.sent THEN {a.bytes = -1} ELSE BOOLEAN

(* Whether the hub has entered what it was sent: it answers 1 if it has not. *)
Entered(a) == a.sent /\ a.error = 0

-----------------------------------------------------------------------------

RegistrationInit ==
    /\ plan \in [Nodes -> UNION {Plans[n] : n \in Nodes}]
    /\ \A n \in Nodes : plan[n] \in Plans[n]
    /\ answer = [n \in Nodes |-> NoAnswer]
    /\ failed = [n \in Nodes |-> {}]
    /\ state = [n \in Nodes |-> "constructing"]
    /\ known = {} /\ notices = <<>>

AtStep(n, what) ==
    /\ state[n] = "constructing"
    /\ plan[n] # <<>> /\ Head(plan[n]).what = what

(* The constructor goes on, or ends at a failure it notices. *)
Proceed(n, succeeds, raises) ==
    IF ~succeeds /\ (Head(plan[n]).checked \/ raises)
    THEN /\ plan' = [plan EXCEPT ![n] = <<>>]
         /\ state' = [state EXCEPT ![n] = "stopped"]
         /\ UNCHANGED failed
    ELSE /\ plan' = [plan EXCEPT ![n] = Tail(@)]
         /\ failed' = [failed EXCEPT
              ![n] = IF succeeds THEN @ ELSE @ \cup {Head(plan[n]).what}]
         /\ UNCHANGED state

(* The node, or a publisher or subscriber of another topic. *)
RegisterElsewhere(n) ==
    /\ AtStep(n, "node") \/ AtStep(n, "other")
    /\ \E a \in Answers : \E raises \in Raises(Language[n], a) :
         Proceed(n, Succeeds(Language[n], a), raises)
    /\ UNCHANGED <<answer, known, notices>>

(* robot_->is_valid(), and in robot_state_publisher the broadcaster's ok(). *)
LookAtRobot(n) ==
    /\ AtStep(n, "robot")
    /\ \E valid \in BOOLEAN : Proceed(n, valid /\ "topic" \notin failed[n], FALSE)
    /\ UNCHANGED <<answer, known, notices>>

Notice(pubs) == [pubs |-> pubs, arrived |-> 0]

(* The hub serves the registration on the topic.  A subscriber is told of the
   publishers that are known, and those that are known of a new publisher.  *)
Serve(n) ==
    /\ AtStep(n, "topic") /\ answer[n] = NoAnswer
    /\ \E a \in {b \in Answers : b.sent} :
         /\ answer' = [answer EXCEPT ![n] = a]
         /\ known' = IF Entered(a) THEN known \cup {n} ELSE known
         /\ notices' =
              IF ~Entered(a) THEN notices
              ELSE IF n = Subscriber THEN Append(notices, Notice(known))
              ELSE IF Subscriber \in known THEN Append(notices, Notice({n}))
              ELSE notices
    /\ UNCHANGED <<plan, failed, state>>

(* Of an answer, whether it came whole. *)
Outcome(a) ==
    [sent |-> TRUE, bytes |-> IF a.bytes = StatusSize THEN StatusSize ELSE -1, error |-> 0]

(* send_message_with_opcode returns. *)
Return(n) ==
    /\ AtStep(n, "topic") /\ answer[n] # NoAnswer
    /\ \E raises \in Raises(Language[n], answer[n]) :
         Proceed(n, Succeeds(Language[n], answer[n]), raises)
    /\ answer' = [answer EXCEPT ![n] = Outcome(@)]
    /\ UNCHANGED <<known, notices>>

(* ... without having reached the hub. *)
HubUnreached(n) ==
    /\ AtStep(n, "topic") /\ answer[n] = NoAnswer
    /\ \E raises \in Raises(Language[n], NoAnswer) : Proceed(n, FALSE, raises)
    /\ UNCHANGED <<answer, known, notices>>

(* The constructor has returned and main calls spin, which returns at once
   unless the node is ok.                                                   *)
Spin(n) ==
    /\ state[n] = "constructing" /\ plan[n] = <<>>
    /\ state' = [state EXCEPT ![n] = IF "node" \in failed[n] THEN "stopped"
                                     ELSE "spinning"]
    /\ UNCHANGED <<plan, answer, failed, known, notices>>

(* The process exits.  The destructors deregister, if they reach the hub. *)
Exit(n) ==
    /\ state[n] \in {"stopped", "spinning"}
    /\ state' = [state EXCEPT ![n] = "exited"]
    /\ answer' = [answer EXCEPT ![n] = NoAnswer]
    /\ failed' = [failed EXCEPT ![n] = {}]
    /\ known' \in {known, known \ {n}}
    /\ UNCHANGED <<plan, notices>>

Construct(n) ==
    RegisterElsewhere(n) \/ LookAtRobot(n) \/ Serve(n) \/ Return(n)
      \/ HubUnreached(n) \/ Spin(n)

(* A component whose ok() holds: it has registered and is not shut down. *)
Ok(n) ==
    /\ state[n] \in {"constructing", "spinning"}
    /\ answer[n] # NoAnswer /\ "topic" \notin failed[n] /\ ~AtStep(n, "topic")

(* A server listens from before it is registered until its process exits. *)
Listens(n) == state[n] # "exited" /\ (answer[n] # NoAnswer \/ AtStep(n, "topic"))
=============================================================================
