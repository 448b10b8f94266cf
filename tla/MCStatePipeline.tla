-------------------------- MODULE MCStatePipeline ---------------------------
(***************************************************************************)
(* StatePipeline for TLC.  The robot turns its arm at the waist; the hand  *)
(* at the end of the arm turns at the wrist, and a finger beside it        *)
(* follows the wrist.  A transform is the list of the joints, each with    *)
(* its state, that it goes through.                                        *)
(***************************************************************************)
EXTENDS StatePipeline

CONSTANTS base, arm, hand, tip, waist, wrist, finger, world

MCLinkNames  == {base, arm, hand, tip}
MCJointNames == {waist, wrist, finger}
MCNames      == MCLinkNames \cup {world}

JointOf(name, parent, child, mimic) ==
    [name |-> name, parent |-> parent, child |-> child, mimic |-> mimic]

LinkOf(parent, children) == [parent |-> parent, children |-> children]

MCRobot ==
    [joints |-> [n \in MCJointNames |->
                    CASE n = waist  -> JointOf(waist, base, arm, NoName)
                      [] n = wrist  -> JointOf(wrist, arm, hand, NoName)
                      [] n = finger -> JointOf(finger, arm, tip, wrist)],
     links  |-> [l \in MCLinkNames |->
                    CASE l = base -> LinkOf(NoName, <<waist>>)
                      [] l = arm  -> LinkOf(waist, <<wrist, finger>>)
                      [] l = hand -> LinkOf(wrist, <<>>)
                      [] l = tip  -> LinkOf(finger, <<>>)],
     root   |-> base]

MCMultiplier == [n \in MCJointNames |-> 2]
MCOffset     == [n \in MCJointNames |-> 0]

At(name, value) == << <<name, value>> >>
Still           == <<>>
Then(a, b)      == a \o b
Backwards(a)    == Reverse(a)
Nearer(a, b, num, den) == IF 2 * num <= den THEN a ELSE b

MCTransforms == {At(n, v) : n \in MCJointNames, v \in 0 .. MaxDrives} \cup {Still}
MCInstants   == 0 .. MaxClock
MCDurations  == {2}

ASSUME RobotIsWhole

=============================================================================
