------------------------ MODULE JointStatePublisher -------------------------
(***************************************************************************)
(* The node joint_state_publisher: the JS of all its subscriptions are     *)
(* merged into one robot model, whose state a timer publishes.  Both       *)
(* callbacks hold robot_mutex_ throughout, so each is one step.  The node  *)
(* is constructed with a valid model and all its subscriptions, and is not *)
(* shut down.                                                              *)
(***************************************************************************)
EXTENDS RobotState, Topic

CONSTANT Robot   (* the model the node is constructed with *)

VARIABLES
    states,        (* the joint states of robot_ *)
    joint_states   (* the topic of joint_state_pub_ *)

Init ==
    /\ states = [n \in DOMAIN Robot.joints |-> AtRest]
    /\ joint_states = NoConnection

JointStateCallback(js) ==
    /\ states' = SetState(Robot, states, js)
    /\ UNCHANGED joint_states

(* current_real is the time of the timer's event.  The return without a   *)
(* publisher that is ok() is not taken: there is one until the shutdown.   *)
TimerCallback(current_real) ==
    /\ joint_states' = Publish(joint_states, GetJointStates(Robot, states, current_real))
    /\ UNCHANGED states

=============================================================================
