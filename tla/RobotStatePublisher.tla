------------------------ MODULE RobotStatePublisher -------------------------
(***************************************************************************)
(* The node robot_state_publisher: each JS it receives is merged into its  *)
(* robot model, and unless the last TF was published less than a period    *)
(* before, the transforms of the model are published with the stamp of the *)
(* JS.  A node runs its callbacks on the one thread that spins, so a       *)
(* callback is one step.  The node is constructed with a valid model; its  *)
(* constructor shuts it down otherwise.                                    *)
(***************************************************************************)
EXTENDS RobotState, Topic

CONSTANTS
    Robot,   (* the model the node is constructed with *)
    Period   (* period_, in nanoseconds *)

ASSUME RobotIsValid     == IsValid(Robot)
ASSUME PeriodIsPositive == Period \in Nat \ {0}
(* get_transforms comes to an end: a parsed model is a tree below its root. *)
ASSUME RobotIsWalked    == WalkEnds(Robot) /\ Sent(Robot) \in Seq(Joints)

VARIABLES
    states,             (* the joint states of robot_ *)
    last_publish_time,  (* zero until a TF is published *)
    ignore_timestamps,  (* set by the constructor, left alone by callbacks *)
    tf                  (* the topic of tf_broadcaster_ *)

Init ==
    /\ states = [n \in DOMAIN Robot.joints |-> AtRest]
    /\ last_publish_time = 0
    /\ ignore_timestamps \in BOOLEAN
    /\ tf = NoConnection

Restamped(transforms, stamp) ==
    [k \in DOMAIN transforms |-> [transforms[k] EXCEPT !.stamp = stamp]]

TooSoonByOneLess(stamp) == last_publish_time # 0 /\ stamp - last_publish_time < Period - 1

TooSoon(stamp) == last_publish_time # 0 /\ stamp - last_publish_time < Period

(* Remembers the newest that was received, not what was published.         *)
JointStateCallbackProlongs(js, now) ==
    LET stamp == IF ignore_timestamps THEN now ELSE js.stamp
    IN  /\ states' = SetState(Robot, states, js)
        /\ last_publish_time' = IF TooSoon(stamp) THEN Max({stamp, last_publish_time}) ELSE stamp
        /\ IF TooSoon(stamp)
           THEN UNCHANGED tf
           ELSE tf' = Publish(tf, Restamped(GetTransforms(Robot, states', now), stamp))

(* Drops the states together with the publication.                         *)
JointStateCallbackDropsEarly(js, now) ==
    LET stamp == IF ignore_timestamps THEN now ELSE js.stamp
    IN  /\ IF TooSoon(stamp)
           THEN UNCHANGED <<states, last_publish_time, tf>>
           ELSE /\ states' = SetState(Robot, states, js)
                /\ last_publish_time' = stamp
                /\ tf' = Publish(tf, Restamped(GetTransforms(Robot, states', now), stamp))

(* Remembers when the next TF is due.                                      *)
JointStateCallbackSchedules(js, now) ==
    LET stamp == IF ignore_timestamps THEN now ELSE js.stamp
    IN  /\ states' = SetState(Robot, states, js)
        /\ IF TooSoon(stamp)
           THEN UNCHANGED <<last_publish_time, tf>>
           ELSE /\ last_publish_time' = stamp + Period
                /\ tf' = Publish(tf, Restamped(GetTransforms(Robot, states', now), stamp))

(* Leaves the stamps of get_transforms.                                    *)
JointStateCallbackKeepsStamps(js, now) ==
    LET stamp == IF ignore_timestamps THEN now ELSE js.stamp
    IN  /\ states' = SetState(Robot, states, js)
        /\ IF TooSoon(stamp)
           THEN UNCHANGED <<last_publish_time, tf>>
           ELSE /\ last_publish_time' = stamp
                /\ tf' = Publish(tf, GetTransforms(Robot, states', now))

JointStateCallback(js, now) ==
    LET stamp == IF ignore_timestamps THEN now ELSE js.stamp
    IN  /\ states' = SetState(Robot, states, js)
        /\ IF TooSoon(stamp)
           THEN UNCHANGED <<last_publish_time, tf>>
           ELSE /\ last_publish_time' = stamp
                /\ tf' = Publish(tf, Restamped(GetTransforms(Robot, states', now), stamp))

=============================================================================
