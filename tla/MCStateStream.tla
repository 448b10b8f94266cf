--------------------------- MODULE MCStateStream ----------------------------
(***************************************************************************)
(* StateStream for TLC.  The robot turns its arm at the waist; the hand at *)
(* the end of the arm turns at the wrist, and a finger beside it follows   *)
(* the wrist.                                                              *)
(***************************************************************************)
EXTENDS StateStream

CONSTANTS base, arm, hand, tip, waist, wrist, finger, stranger, world

MCLinkNames  == {base, arm, hand, tip}
MCJointNames == {waist, wrist, finger, stranger}

JointOf(name, parent, child, mimic) ==
    [name |-> name, parent |-> parent, child |-> child, mimic |-> mimic]

LinkOf(parent, children) == [parent |-> parent, children |-> children]

MCRobot ==
    [joints |-> [n \in {waist, wrist, finger} |->
                    CASE n = waist  -> JointOf(waist, base, arm, NoName)
                      [] n = wrist  -> JointOf(wrist, arm, hand, NoName)
                      [] n = finger -> JointOf(finger, arm, tip, wrist)],
     links  |-> [l \in MCLinkNames |->
                    CASE l = base -> LinkOf(NoName, <<waist>>)
                      [] l = arm  -> LinkOf(waist, <<wrist, finger>>)
                      [] l = hand -> LinkOf(wrist, <<>>)
                      [] l = tip  -> LinkOf(finger, <<>>)],
     root   |-> base]

MCMultiplier == [n \in MCJointNames |-> 2]
MCOffset     == [n \in MCJointNames |-> 0]

(* A transform as the joint and the state it shows.                        *)
At(name, value) == << <<name, value>> >>
Still           == <<>>

MCLists ==
    { <<JointState(waist, 1)>>,
      <<JointState(waist, 1), JointState(waist, 2)>>,
      <<JointState(finger, 1), JointState(wrist, 2)>>,
      <<JointState(stranger, 1), JointState(wrist, 1)>> }

MCInstants == 0 .. 3

=============================================================================
