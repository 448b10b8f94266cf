----------------------------- MODULE RobotState -----------------------------
(***************************************************************************)
(* The joint states of one RobotModel: what Joint and RobotModel read and  *)
(* write of them, as constant-level operators shared by the nodes that own *)
(* a model.                                                                *)
(*                                                                         *)
(* A model is a record of KinematicTree; states maps its joints to their   *)
(* states.  Position, velocity and effort are set together and followed    *)
(* alike, so the state of a joint is one integer here.                     *)
(***************************************************************************)
EXTENDS KinematicTree, Integers

CONSTANTS
    Multiplier, Offset,    (* mimic().multiplier and offset, by joint *)
    JointTransform(_, _),  (* Joint::transform() of a joint in a state *)
    WorldToRoot,           (* world_to_root *)
    World                  (* the frame "world" *)

(* The constructor's state; the origin is the transform in this state.     *)
AtRest == 0

Origin(name) == JointTransform(name, AtRest)

(* A rix::msg::sensor::JointState and a JS.                                *)
JointState(name, value) == [name |-> name, value |-> value]

JS(stamp, joint_states) == [stamp |-> stamp, joint_states |-> joint_states]

(* set_state(JS): joints that are not in the model are skipped, mimic      *)
(* joints refuse; of a joint that is named twice the later state stays.    *)
SetState(model, states, js) ==
    [n \in DOMAIN states |->
        LET named == {i \in DOMAIN js.joint_states : js.joint_states[i].name = n}
        IN  IF named = {} \/ IsMimic(model.joints[n])
            THEN states[n]
            ELSE js.joint_states[Max(named)].value]

(* get_state of every joint: a mimic joint reads its leader's get_state,   *)
(* and a chain of mimics is no longer than the model has joints.           *)
ReadStates(model, states) ==
    LET read[depth \in 0 .. Cardinality(DOMAIN states)] ==
            [n \in DOMAIN states |->
                IF depth = 0 \/ ~IsMimic(model.joints[n]) THEN states[n]
                ELSE read[depth - 1][model.joints[n].mimic] * Multiplier[n] + Offset[n]]
    IN  read[Cardinality(DOMAIN states)]

GetJointStates(model, states, now) ==
    LET names == SetToSeq(DOMAIN states)
    IN  JS(now, [k \in DOMAIN names |->
                    JointState(names[k], ReadStates(model, states)[names[k]])])

(* get_transforms: one transform stamped with the present time for each    *)
(* joint the walk lists, after the one from the world to the root.  A      *)
(* mimic joint is sent with its origin.                                    *)
TransformStamped(parent, child, stamp, transform) ==
    [frame_id |-> parent, child_frame_id |-> child, stamp |-> stamp, transform |-> transform]

SentTransform(joint, states) ==
    IF IsMimic(joint) THEN Origin(joint.name)
    ELSE JointTransform(joint.name, states[joint.name])

GetTransformsRootLast(model, states, now) ==
    LET sent == Sent(model)
    IN  IF ~IsValid(model) THEN <<>>
        ELSE [k \in DOMAIN sent |->
                TransformStamped(sent[k].parent, sent[k].child, now,
                                 SentTransform(sent[k], states))]
               \o <<TransformStamped(World, model.root, now, WorldToRoot)>>

GetTransforms(model, states, now) ==
    LET sent == Sent(model)
    IN  IF ~IsValid(model) THEN <<>>
        ELSE <<TransformStamped(World, model.root, now, WorldToRoot)>>
               \o [k \in DOMAIN sent |->
                     TransformStamped(sent[k].parent, sent[k].child, now,
                                      SentTransform(sent[k], states))]

=============================================================================
