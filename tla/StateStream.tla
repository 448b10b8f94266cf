---------------------------- MODULE StateStream -----------------------------
(***************************************************************************)
(* A RobotStatePublisher that hears joint states of any stamps: late, in   *)
(* the future, repeated, without a stamp (zero), about joints it does not  *)
(* have, about mimic joints, and about one joint twice.  What it heard and *)
(* answered is kept as a history, and its topic loses nothing.             *)
(***************************************************************************)
EXTENDS RobotStatePublisher

CONSTANTS
    Instants,           (* stamps, and times of the clock *)
    JointStateLists,    (* the joint_states of the messages *)
    MaxHeard            (* bound: messages heard *)

ASSUME InstantsAreTimes == 0 \in Instants /\ Instants \subseteq Nat
ASSUME ListsAreJointStates ==
    JointStateLists \subseteq Seq([name : JointNames, value : Int])
(* What the parser makes of a description without repeated names.          *)
ASSUME RobotIsParsed ==
    /\ \A n \in DOMAIN Robot.joints :
          /\ Robot.joints[n] \in Joints /\ Robot.joints[n].name = n
          /\ Robot.joints[n].child # Robot.root
    /\ \A m, n \in DOMAIN Robot.joints :
          Robot.joints[m].child = Robot.joints[n].child => m = n
    /\ \A k \in DOMAIN Sent(Robot) :
          \E n \in DOMAIN Robot.joints : Sent(Robot)[k] = Robot.joints[n]
ASSUME NothingIsLost    == MaxHeard \in Nat /\ MaxHeard <= Capacity

VARIABLE heard   (* history: messages, their stamps, whether TF followed *)

vars == <<states, last_publish_time, ignore_timestamps, tf, heard>>

StreamInit == Init /\ heard = <<>>

ListenerConnects ==
    /\ tf.status = "waiting"
    /\ tf' = Connect(tf)
    /\ UNCHANGED <<states, last_publish_time, ignore_timestamps, heard>>

Hear(js, now) ==
    /\ tf.status = "up"
    /\ Len(heard) < MaxHeard
    /\ JointStateCallback(js, now)
    /\ UNCHANGED ignore_timestamps
    /\ heard' = Append(heard, [joint_states |-> js.joint_states,
                               stamp        |-> IF ignore_timestamps THEN now ELSE js.stamp,
                               shown        |-> tf' # tf])

Next ==
    \/ ListenerConnects
    \/ \E stamp, now \in Instants, list \in JointStateLists : Hear(JS(stamp, list), now)

Spec == StreamInit /\ [][Next]_vars

-----------------------------------------------------------------------------

(* TypeOK: the members of the node (robot_state_publisher.hpp) have their  *)
(* types and the topic carries lists of stamped transforms.                *)
TypeOK ==
    /\ states \in [DOMAIN Robot.joints -> Int]
    /\ last_publish_time \in Instants
    /\ ignore_timestamps \in BOOLEAN
    /\ tf.status \in {"waiting", "up"}
    /\ Len(tf.queue) <= Len(heard)

(* StampsSpaced: whatever the order of the stamps that arrive, a TF that   *)
(* follows one with a stamp other than zero is at least a period younger;  *)
(* so no rate of joint states, and no clock that jumps back, makes TF more *)
(* frequent than the period (robot_state_publisher.cpp:47-51).             *)
StampsSpaced ==
    \A i, j \in DOMAIN tf.queue :
        i < j /\ tf.queue[i][1].stamp # 0 =>
            tf.queue[j][1].stamp - tf.queue[i][1].stamp >= Period

(* SuppressedForAReason: a message is left without a TF only because one   *)
(* was published before it with a stamp less than a period older: messages *)
(* that were suppressed themselves never extend the silence.               *)
SuppressedForAReason ==
    \A i \in DOMAIN heard :
        ~heard[i].shown =>
            \E j \in 1 .. i - 1 : heard[j].shown /\ heard[i].stamp - heard[j].stamp < Period

(* How many of the first n messages a TF followed.                         *)
ShownUpTo(n) == Cardinality({i \in 1 .. n : heard[i].shown})

(* Where a list of joint states names a joint.                             *)
Naming(list, name) == {k \in DOMAIN list : list[k].name = name}

(* The state of a joint after the first n messages: what was said last.    *)
LastSaid(name, n) ==
    LET naming == {i \in 1 .. n : Naming(heard[i].joint_states, name) # {}}
        list   == heard[Max(naming)].joint_states
    IN  IF naming = {} THEN AtRest ELSE list[Max(Naming(list, name))].value

(* ShowsAllThatWasHeard: each TF shows every joint that does not mimic as  *)
(* the last message that named it said, the messages that were suppressed  *)
(* included, and all its transforms bear the stamp of the message it       *)
(* answers (or of the clock), by which a FrameGraph aligns its edges.      *)
ShowsAllThatWasHeard ==
    /\ Len(tf.queue) = ShownUpTo(Len(heard))
    /\ \A k \in DOMAIN heard : heard[k].shown =>
          LET answer == tf.queue[ShownUpTo(k)]
          IN  \A i \in DOMAIN answer :
                /\ answer[i].stamp = heard[k].stamp
                /\ \A n \in DOMAIN Robot.joints :
                      Robot.joints[n].child = answer[i].child_frame_id
                        /\ ~IsMimic(Robot.joints[n]) =>
                            answer[i].transform = JointTransform(n, LastSaid(n, k))

(* MimicsAreShown: a TF is made from the current state of the model        *)
(* (robot_model.hpp:142), in which a mimic joint follows its leader        *)
(* (joint.hpp:79).                                                         *)
MimicsAreShown ==
    LET transforms == GetTransforms(Robot, states, 0)
    IN  \A i \in DOMAIN transforms, n \in DOMAIN Robot.joints :
            Robot.joints[n].child = transforms[i].child_frame_id =>
                transforms[i].transform = JointTransform(n, ReadStates(Robot, states)[n])

=============================================================================
