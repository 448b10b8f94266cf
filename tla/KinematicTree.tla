--------------------------- MODULE KinematicTree ----------------------------
(***************************************************************************)
(* The structure of one rix::robot::RobotModel (src/rix/robot/             *)
(* robot_model.cpp) and the walks over it, as constant-level operators     *)
(* shared by the parser that builds a model and the nodes that use one.    *)
(*                                                                         *)
(* A model is a record of the class members: joints and links are the two  *)
(* std::maps, from a name to what the Joint or Link knows of its           *)
(* neighbours, and root is a link's name or NoName, the empty string.      *)
(***************************************************************************)
EXTENDS Naturals, Sequences, SequencesExt, FiniteSets

CONSTANTS
    LinkNames,   (* the names of links *)
    JointNames,  (* the names of joints *)
    NoName       (* the empty string *)

ASSUME NamesAreNotEmpty == NoName \notin LinkNames \cup JointNames

(* mimic is the name of the joint that is followed.                        *)
Joints == [name : JointNames, parent : LinkNames, child : LinkNames,
           mimic : JointNames \cup {NoName}]

IsMimic(joint) == joint.mimic # NoName

IsRoot(link) == link.parent = NoName

IsValid(model) ==
    /\ DOMAIN model.joints # {}
    /\ DOMAIN model.links # {}
    /\ model.root # NoName

-----------------------------------------------------------------------------
(***************************************************************************)
(* get_transforms: after the transform from the world to the root, a       *)
(* depth-first walk over a stack of link names.  Nothing marks a link as   *)
(* visited.  `sent' is the joints whose transforms have been listed.       *)
(***************************************************************************)

(* Those names that a map has an entry for, in their order.                *)
FoundIn(names, map) ==
    LET found[n \in 0 .. Len(names)] ==
            IF n = 0 THEN <<>>
            ELSE IF names[n] \in DOMAIN map THEN Append(found[n - 1], names[n])
            ELSE found[n - 1]
    IN  found[Len(names)]

ChildJoints(model, link) ==
    IF link \in DOMAIN model.links
    THEN LET names == FoundIn(model.links[link].children, model.joints)
         IN  [k \in DOMAIN names |-> model.joints[names[k]]]
    ELSE <<>>

ChildLinks(model, joints) ==
    FoundIn([k \in DOMAIN joints |-> joints[k].child], model.links)

(* Lists the transforms of the grandchildren before those of the children. *)
VisitFromBelow(model, walk) ==
    LET joints == ChildJoints(model, Last(walk.stack))
    IN  [stack |-> Front(walk.stack) \o ChildLinks(model, joints),
         sent  |-> joints \o walk.sent]

Visit(model, walk) ==
    LET joints == ChildJoints(model, Last(walk.stack))
    IN  [stack |-> Front(walk.stack) \o ChildLinks(model, joints),
         sent  |-> walk.sent \o joints]

(* The walk after at most `visits' turns of its loop.                      *)
Walk(model, visits) ==
    LET walk[n \in 0 .. visits] ==
            IF n = 0 THEN [stack |-> <<model.root>>, sent |-> <<>>]
            ELSE IF walk[n - 1].stack = <<>> THEN walk[n - 1]
            ELSE Visit(model, walk[n - 1])
    IN  walk[visits]

(* A walk over a tree visits each link at most once.                       *)
Visits(model) == Cardinality(DOMAIN model.links)

WalkEnds(model) == Walk(model, Visits(model)).stack = <<>>

Sent(model) == IF IsValid(model) THEN Walk(model, Visits(model)).sent ELSE <<>>

-----------------------------------------------------------------------------
(***************************************************************************)
(* get_joints_in_chain: from a link up its parent joints until a root, or  *)
(* until the next joint or link is not in the model.                       *)
(***************************************************************************)
ChainStepDownwards(model, c) ==
    LET link  == model.links[c.link]
        joint == model.joints[link.parent]
    IN  IF c.ended \/ IsRoot(link) \/ link.parent \notin DOMAIN model.joints
        THEN [c EXCEPT !.ended = TRUE]
        ELSE IF joint.parent \notin DOMAIN model.links
        THEN [c EXCEPT !.ended = TRUE, !.joints = Append(@, joint)]
        ELSE [c EXCEPT !.link = joint.parent, !.joints = Append(@, joint)]

ChainStep(model, c) ==
    LET link  == model.links[c.link]
        joint == model.joints[link.parent]
    IN  IF c.ended \/ IsRoot(link) \/ link.parent \notin DOMAIN model.joints
        THEN [c EXCEPT !.ended = TRUE]
        ELSE IF joint.parent \notin DOMAIN model.links
        THEN [c EXCEPT !.ended = TRUE, !.joints = <<joint>> \o @]
        ELSE [c EXCEPT !.link = joint.parent, !.joints = <<joint>> \o @]

ChainFrom(model, name, steps) ==
    LET chain[n \in 0 .. steps] ==
            IF n = 0 THEN [link |-> name, joints |-> <<>>, ended |-> FALSE]
            ELSE ChainStep(model, chain[n - 1])
    IN  chain[steps]

(* Climbing out of a tree meets each link at most once, then ends.         *)
ChainEnds(model, name) ==
    ChainFrom(model, name, Cardinality(DOMAIN model.links)).ended

JointsInChain(model, name) ==
    IF name \in DOMAIN model.links
    THEN ChainFrom(model, name, Cardinality(DOMAIN model.links)).joints
    ELSE <<>>

-----------------------------------------------------------------------------
(***************************************************************************)
(* What those who use a model rely on.  A FrameGraph accepts the list of   *)
(* get_transforms if it gives each frame one parent, the root none, and    *)
(* lists no frame before its parent.                                       *)
(***************************************************************************)
Publishable(model) ==
    LET sent == Sent(model)
    IN  \A k \in DOMAIN sent :
            /\ sent[k].child # model.root
            /\ \A i \in DOMAIN sent : sent[i].child = sent[k].child => i = k
            /\ sent[k].parent = model.root
                 \/ \E i \in 1 .. k - 1 : sent[i].child = sent[k].parent

(* The walk down and the climb up agree on which links are below the root  *)
(* and on the joints that lie between.                                     *)
ChainsArePublished(model) ==
    /\ JointsInChain(model, model.root) = <<>>
    /\ \A l \in DOMAIN model.links \ {model.root} :
          LET sent      == Sent(model)
              chain     == JointsInChain(model, l)
              published == \E k \in DOMAIN sent : sent[k].child = l
          IN  /\ chain \in Seq(Joints)
              /\ published <=> ( /\ ChainEnds(model, l)
                                 /\ chain # <<>>
                                 /\ chain[1].parent = model.root )
              /\ published => /\ \A k \in DOMAIN chain : \E i \in DOMAIN sent : sent[i] = chain[k]
                              /\ \A k \in 1 .. Len(chain) - 1 :
                                    chain[k].child = chain[k + 1].parent
                              /\ Last(chain).child = l

=============================================================================
