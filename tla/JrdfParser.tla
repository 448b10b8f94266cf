----------------------------- MODULE JrdfParser -----------------------------
(***************************************************************************)
(* rix::robot::detail::parse_jrdf: the construction of a RobotModel from a *)
(* robot description, element by element.  The description is not stored:  *)
(* each action reads its next element, whatever it may be, so that the     *)
(* behaviours are the parses of all descriptions up to the bounds.  The    *)
(* conversion of an element fails (AbandonJoints, AbandonLinks) for any of *)
(* the many reasons the convert_json functions have; what they read of     *)
(* geometry, inertia, limits and materials is not kept here.               *)
(***************************************************************************)
EXTENDS KinematicTree

CONSTANTS
    MaxJoints,   (* bound: joint elements in a description *)
    MaxLinks     (* bound: link elements in a description *)

ASSUME BoundsAreNaturals == MaxJoints \in Nat /\ MaxLinks \in Nat

VARIABLES
    phase,         (* joints, links, parsed, abandoned or thrown *)
    model,         (* the members of the RobotModel that is built *)
    parent_map,    (* link |-> the joint it is the child of *)
    children_map,  (* link |-> the joints it is the parent of, in order *)
    led,           (* the mimic joints whose leader has been assigned *)
    joints_read,   (* history: the joint elements in their order *)
    links_read     (* how many link elements have been read *)

vars == <<phase, model, parent_map, children_map, led, joints_read, links_read>>

Init ==
    /\ phase = "joints"
    /\ model = [joints |-> <<>>, links |-> <<>>, root |-> NoName]
    /\ parent_map = <<>>
    /\ children_map = <<>>
    /\ led = {}
    /\ joints_read = <<>>
    /\ links_read = 0

-----------------------------------------------------------------------------

(* std::map::insert keeps what the map already holds for the key.          *)
Inserted(map, key, value) ==
    [k \in DOMAIN map \cup {key} |-> IF k \in DOMAIN map THEN map[k] ELSE value]

ChildrenOf(link) ==
    IF link \in DOMAIN children_map THEN children_map[link] ELSE <<>>

WithChild(link, name) ==
    [l \in DOMAIN children_map \cup {link} |->
        IF l = link THEN Append(ChildrenOf(l), name) ELSE children_map[l]]

ReadJointTwoParents(j) ==
    /\ phase = "joints"
    /\ Len(joints_read) < MaxJoints
    /\ joints_read' = Append(joints_read, j)
    /\ model' = [model EXCEPT !.joints = Inserted(@, j.name, j)]
    /\ parent_map' = Inserted(parent_map, j.child, j.name)
    /\ children_map' = WithChild(j.parent, j.name)
    /\ UNCHANGED <<phase, led, links_read>>

(* The joint is inserted before its child is found to have a parent.       *)
ReadJoint(j) ==
    /\ phase = "joints"
    /\ Len(joints_read) < MaxJoints
    /\ joints_read' = Append(joints_read, j)
    /\ model' = [model EXCEPT !.joints = Inserted(@, j.name, j)]
    /\ IF j.child \in DOMAIN parent_map
       THEN /\ phase' = "abandoned"
            /\ UNCHANGED <<parent_map, children_map>>
       ELSE /\ parent_map' = Inserted(parent_map, j.child, j.name)
            /\ children_map' = WithChild(j.parent, j.name)
            /\ UNCHANGED phase
    /\ UNCHANGED <<led, links_read>>

Mimics == {n \in DOMAIN model.joints : IsMimic(model.joints[n])}

Led == {n \in Mimics : model.joints[n].mimic \in DOMAIN model.joints}

AssignLeadersOrSkip ==
    /\ phase = "joints"
    /\ led' = Led
    /\ phase' = "links"
    /\ UNCHANGED <<model, parent_map, children_map, joints_read, links_read>>

(* All joints are read.  A leader that is not in the model throws, and the *)
(* model under construction is destroyed.                                  *)
AssignLeaders ==
    /\ phase = "joints"
    /\ IF Led = Mimics
       THEN phase' = "links" /\ led' = Mimics
       ELSE phase' = "thrown" /\ UNCHANGED led
    /\ UNCHANGED <<model, parent_map, children_map, joints_read, links_read>>

LinkNamed(name) ==
    [parent   |-> IF name \in DOMAIN parent_map THEN parent_map[name] ELSE NoName,
     children |-> ChildrenOf(name)]

ReadLinkFirstIsRoot(name) ==
    /\ phase = "links"
    /\ links_read < MaxLinks
    /\ links_read' = links_read + 1
    /\ model' = [model EXCEPT !.links = Inserted(@, name, LinkNamed(name)),
                              !.root  = IF links_read = 0 THEN name ELSE @]
    /\ UNCHANGED <<phase, parent_map, children_map, led, joints_read>>

(* The last link without a parent becomes the root.                        *)
ReadLink(name) ==
    /\ phase = "links"
    /\ links_read < MaxLinks
    /\ links_read' = links_read + 1
    /\ model' = [model EXCEPT !.links = Inserted(@, name, LinkNamed(name)),
                              !.root  = IF IsRoot(LinkNamed(name)) THEN name ELSE @]
    /\ UNCHANGED <<phase, parent_map, children_map, led, joints_read>>

(* The description ends after its links.                                   *)
Finish ==
    /\ phase = "links"
    /\ phase' = "parsed"
    /\ UNCHANGED <<model, parent_map, children_map, led, joints_read, links_read>>

(* A key of the joints is missing or a joint does not convert.             *)
AbandonJoints ==
    /\ phase = "joints"
    /\ phase' = "abandoned"
    /\ UNCHANGED <<model, parent_map, children_map, led, joints_read, links_read>>

AbandonLinksKeepingRoot ==
    /\ phase = "links"
    /\ phase' = "abandoned"
    /\ model' = [model EXCEPT !.links = <<>>]
    /\ UNCHANGED <<parent_map, children_map, led, joints_read, links_read>>

(* The links are missing or a link does not convert; those read stay.      *)
AbandonLinks ==
    /\ phase = "links"
    /\ phase' = "abandoned"
    /\ UNCHANGED <<model, parent_map, children_map, led, joints_read, links_read>>

Next ==
    \/ \E j \in Joints : ReadJoint(j)
    \/ AssignLeaders
    \/ \E name \in LinkNames : ReadLink(name)
    \/ Finish
    \/ AbandonJoints
    \/ AbandonLinks

Spec == Init /\ [][Next]_vars

-----------------------------------------------------------------------------

(* TypeOK: the maps hold joints and links under their names, the root is   *)
(* empty or a link (robot_model.hpp, members joints, links and root).      *)
TypeOK ==
    /\ phase \in {"joints", "links", "parsed", "abandoned", "thrown"}
    /\ DOMAIN model.joints \subseteq JointNames
    /\ \A n \in DOMAIN model.joints :
          model.joints[n] \in Joints /\ model.joints[n].name = n
    /\ DOMAIN model.links \subseteq LinkNames
    /\ \A l \in DOMAIN model.links :
          /\ model.links[l].parent \in JointNames \cup {NoName}
          /\ model.links[l].children \in Seq(JointNames)
    /\ model.root \in DOMAIN model.links \cup {NoName}
    /\ led \subseteq DOMAIN model.joints
    /\ joints_read \in Seq(Joints)

(* No joint name occurs twice in the description.  The parser does not     *)
(* check it; the properties below hold of the models of such descriptions. *)
NamesAreUnique ==
    \A i, k \in DOMAIN joints_read :
        joints_read[i].name = joints_read[k].name => i = k

(* NeighboursAgree: whatever parse a model comes from, complete or not,    *)
(* the two directions of the tree agree once it has links: a link's parent *)
(* joint is in the model and ends in that link, its child joints start     *)
(* from it, every joint between two links is listed by both, and the root  *)
(* is a link that no joint leads to.                                       *)
NeighboursAgree ==
    NamesAreUnique =>
        /\ \A l \in DOMAIN model.links :
              LET link == model.links[l]
              IN  /\ link.parent # NoName =>
                        /\ link.parent \in DOMAIN model.joints
                        /\ model.joints[link.parent].child = l
                  /\ \A k \in DOMAIN link.children :
                        /\ link.children[k] \in DOMAIN model.joints
                        /\ model.joints[link.children[k]].parent = l
        /\ model.root # NoName =>
              \A n \in DOMAIN model.joints : model.joints[n].child # model.root
        /\ \A n \in DOMAIN model.joints, l \in DOMAIN model.links :
              /\ model.joints[n].child = l => model.links[l].parent = n
              /\ model.joints[n].parent = l =>
                    \E k \in DOMAIN model.links[l].children : model.links[l].children[k] = n

(* TransformsArePublishable: for every model that calls itself valid       *)
(* get_transforms ends, lists every frame at most once and never the root, *)
(* and lists each parent before its children, as its documentation         *)
(* promises (robot_model.hpp:144-145) and FrameGraph::update relies on.    *)
TransformsArePublishable ==
    NamesAreUnique /\ IsValid(model) => WalkEnds(model) /\ Publishable(model)

(* PublishedIffInChain: the two walks agree, the one down the children and *)
(* the one up the parents: get_transforms publishes a link exactly if      *)
(* get_joints_in_chain leads from the root to it, and then the chain is a  *)
(* path of joints that are published too: the first starts at the root,    *)
(* each starts where the one before ends, and the last ends at the link.   *)
PublishedIffInChain ==
    NamesAreUnique /\ IsValid(model) => ChainsArePublished(model)

(* ValidModelsHaveLeaders: in a model that calls itself valid every mimic  *)
(* joint has its leader, so reading its state follows no null pointer,     *)
(* however early the parse was abandoned.                                  *)
ValidModelsHaveLeaders == IsValid(model) => Mimics \subseteq led

(* ValidMeansParsed: is_valid is true only of a description that was       *)
(* parsed to its end (robot_model.hpp:56-57).                              *)
ValidMeansParsed == phase = "abandoned" => ~IsValid(model)

=============================================================================
