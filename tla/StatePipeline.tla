--------------------------- MODULE StatePipeline ----------------------------
(***************************************************************************)
(* From joint states to transforms: JointStatePublisher merges what its    *)
(* sources send and publishes it on a timer, RobotStatePublisher turns     *)
(* that into TF, and a TransformListener rebuilds the tree of frames.      *)
(* Three nodes, each with its own robot model or graph and its own thread  *)
(* on which all its callbacks run, joined by two topics.                   *)
(*                                                                         *)
(* Each joint that does not mimic is driven by a source of its own, whose  *)
(* messages count it up.                                                   *)
(***************************************************************************)
EXTENDS RobotState, Topic, FrameTree

CONSTANTS
    Robot,       (* the model both publishers are constructed with *)
    Period,      (* period_ of the RobotStatePublisher *)
    MaxDrives,   (* bound: messages of each source *)
    QuietFrom,   (* bound: from this time on the sources are quiet *)
    MaxClock     (* bound: the last time of the clock *)

ASSUME WorldIsTheRoot == World = Root
ASSUME ClockBounds    ==
    /\ MaxDrives \in Nat /\ QuietFrom \in Nat /\ MaxClock \in Nat
    /\ Period \in Nat \ {0} /\ QuietFrom + Period <= MaxClock
ASSUME TimesAreStamps == 0 .. MaxClock \subseteq Instants
(* No link is called "world": a robot with such a link has its transforms  *)
(* refused, because the root of the listener's graph has no parent.        *)
ASSUME LinksAreFrames == LinkNames \cup {World} \subseteq Names /\ World \notin LinkNames
ASSUME JointsTransform ==
    /\ WorldToRoot \in Transforms
    /\ \A n \in JointNames, v \in 0 .. MaxDrives : JointTransform(n, v) \in Transforms
(* What the parser makes of a description without repeated names: the last *)
(* two lines are what JrdfParser keeps of every valid model.               *)
ASSUME RobotIsParsed ==
    /\ IsValid(Robot)
    /\ IsFiniteSet(DOMAIN Robot.joints)
    /\ Robot.root \in LinkNames
    /\ \A n \in DOMAIN Robot.joints : Robot.joints[n] \in Joints /\ Robot.joints[n].name = n
    /\ Sent(Robot) \in Seq(Joints)
    /\ \A k \in DOMAIN Sent(Robot) :
          \E n \in DOMAIN Robot.joints : Sent(Robot)[k] = Robot.joints[n]
    /\ Publishable(Robot)
    /\ ChainsArePublished(Robot)

VARIABLES
    clock,
    merged,             (* the joint states of the JointStatePublisher *)
    joint_states,       (* its topic *)
    announced,          (* history: the states it published, by stamp *)
    states,             (* the joint states of the RobotStatePublisher *)
    last_publish_time,
    tf,                 (* its topic *)
    graph               (* graph_ of the TransformListener *)

jsp == <<merged, joint_states>>
rsp == <<states, last_publish_time>>
vars == <<clock, jsp, announced, rsp, tf, graph>>

JSP == INSTANCE JointStatePublisher WITH states <- merged
RSP == INSTANCE RobotStatePublisher WITH ignore_timestamps <- FALSE

Init ==
    /\ clock = 1
    /\ announced = <<>>
    /\ JSP!Init
    /\ RSP!Init
    /\ \E d \in Durations : graph = NewGraph(Root, d)

-----------------------------------------------------------------------------
(* The environment.                                                        *)

Quiet == clock >= QuietFrom

(* Messages are delivered within a tick once the sources are quiet, so     *)
(* that the bounded clock does not run out before they are.                *)
Settled ==
    /\ joint_states.status # "waiting" /\ joint_states.queue = <<>>
    /\ tf.status # "waiting" /\ tf.queue = <<>>

Tick ==
    /\ clock < MaxClock
    /\ Quiet => Settled
    /\ clock' = clock + 1
    /\ UNCHANGED <<jsp, announced, rsp, tf, graph>>

RobotStateConnects ==
    /\ joint_states.status = "waiting"
    /\ joint_states' = Connect(joint_states)
    /\ UNCHANGED <<clock, merged, announced, rsp, tf, graph>>

ListenerConnects ==
    /\ tf.status = "waiting"
    /\ tf' = Connect(tf)
    /\ UNCHANGED <<clock, jsp, announced, rsp, graph>>

-----------------------------------------------------------------------------
(* JointStatePublisher.                                                    *)

Driven == {n \in DOMAIN Robot.joints : ~IsMimic(Robot.joints[n])}

SourceSends(n) ==
    /\ ~Quiet
    /\ merged[n] < MaxDrives
    /\ JSP!JointStateCallback(JS(clock, <<JointState(n, merged[n] + 1)>>))
    /\ UNCHANGED <<clock, announced, rsp, tf, graph>>

(* A timer calls back only if its duration has passed.                     *)
TimerIsDue ==
    /\ clock \notin DOMAIN announced
    /\ announced' = [t \in DOMAIN announced \cup {clock} |->
                        IF t = clock THEN merged ELSE announced[t]]

TimerFires ==
    /\ TimerIsDue
    /\ JSP!TimerCallback(clock)
    /\ UNCHANGED <<clock, rsp, tf, graph>>

-----------------------------------------------------------------------------
(* RobotStatePublisher.                                                    *)

JointStatesReceived ==
    /\ joint_states.queue # <<>>
    /\ joint_states' = Received(joint_states)

RobotStateSpins ==
    /\ JointStatesReceived
    /\ RSP!JointStateCallback(Head(joint_states.queue), clock)
    /\ UNCHANGED <<clock, merged, announced, graph>>

-----------------------------------------------------------------------------
(* TransformListener.                                                      *)

(* update(TF) applies the transforms in order, until one is refused.       *)
UpdateUntilAccepted(g, transforms) ==
    LET applied[k \in 0 .. Len(transforms)] ==
            IF k = 0 THEN Accepted(g)
            ELSE LET before == applied[k - 1]
                 IN  IF k > 1 /\ before.ok THEN before ELSE Update(before.graph, transforms[k])
    IN  applied[Len(transforms)]

UpdateAll(g, transforms) ==
    LET applied[k \in 0 .. Len(transforms)] ==
            IF k = 0 THEN Accepted(g)
            ELSE LET before == applied[k - 1]
                 IN  IF before.ok THEN Update(before.graph, transforms[k]) ELSE before
    IN  applied[Len(transforms)]

TFReceived ==
    /\ tf.queue # <<>>
    /\ tf' = Received(tf)

ListenerSpins ==
    /\ TFReceived
    /\ graph' = UpdateAll(graph, Head(tf.queue)).graph
    /\ UNCHANGED <<clock, jsp, announced, rsp>>

Next ==
    \/ Tick
    \/ RobotStateConnects
    \/ ListenerConnects
    \/ \E n \in Driven : SourceSends(n)
    \/ TimerFires
    \/ RobotStateSpins
    \/ ListenerSpins

(* The clock goes on, connections are made, and every node spins: its      *)
(* timer fires, and what its topic holds is received.  Only TimerFires,    *)
(* RobotStateSpins and ListenerSpins take the three last steps, each       *)
(* whenever it can.  Nothing makes a source send.                          *)
Fairness ==
    /\ WF_clock(Tick)
    /\ WF_joint_states(RobotStateConnects)
    /\ WF_tf(ListenerConnects)
    /\ WF_announced(TimerIsDue)
    /\ WF_joint_states(JointStatesReceived)
    /\ WF_tf(TFReceived)

Spec == Init /\ [][Next]_vars /\ Fairness

-----------------------------------------------------------------------------

(* TypeOK: the members of the three nodes have their types.                *)
TypeOK ==
    /\ clock \in Instants
    /\ merged \in [DOMAIN Robot.joints -> 0 .. MaxDrives]
    /\ states \in [DOMAIN Robot.joints -> 0 .. MaxDrives]
    /\ last_publish_time \in Instants
    /\ DOMAIN announced \subseteq Instants
    /\ joint_states.status \in {"waiting", "up", "lost"}
    /\ tf \in TopicsOf(Seq(Messages))
    /\ Typed(graph)

(* NeverRefused: whenever the listener connected and whatever was lost, no *)
(* transform of a TF message is refused: update(TF) returns true, and its  *)
(* loop (frame_graph.cpp:42-44) never leaves the rest of a message unread. *)
NeverRefused ==
    tf.queue # <<>> => UpdateAll(graph, Head(tf.queue)).ok

LinksOf(model) == DOMAIN model.links

(* A description whose parse was not abandoned and that hangs together     *)
(* below one root.                                                         *)
RobotIsWhole ==
    /\ LinksOf(Robot) = {Robot.root} \cup {Robot.joints[n].child : n \in DOMAIN Robot.joints}
    /\ \A n \in DOMAIN Robot.joints :
          \E k \in DOMAIN Sent(Robot) : Sent(Robot)[k] = Robot.joints[n]

(* TreeIsRobot: from its first message on the listener's tree is the       *)
(* robot's, link by link and joint by joint, below the world.              *)
TreeIsRobot ==
    \/ DOMAIN graph.name_to_index = {Root}
    \/ /\ DOMAIN graph.name_to_index = LinksOf(Robot) \cup {World}
       /\ ParentOf(graph, graph.name_to_index[Robot.root]) = RootIndex
       /\ \A n \in DOMAIN Robot.joints :
             ParentOf(graph, graph.name_to_index[Robot.joints[n].child])
               = graph.name_to_index[Robot.joints[n].parent]

(* Where a link is, by the robot's own account: its chain of joints.       *)
PoseOf(link, joint_states_then) ==
    LET chain == JointsInChain(Robot, link)
        pose[k \in 0 .. Len(chain)] ==
            IF k = 0 THEN WorldToRoot
            ELSE Compose(pose[k - 1], SentTransform(chain[k], joint_states_then))
    IN  pose[Len(chain)]

StampsHeld ==
    UNION {Stamps(graph.frames[i].buffer) : i \in Indices(graph) \ {RootIndex}}

(* SnapshotsAreWhole: asked for any link at any time of which it still     *)
(* holds a transform, the listener answers with the pose in which the      *)
(* JointStatePublisher's model was at that time: never with a pose that    *)
(* joins the joints of different moments, however messages were merged,    *)
(* throttled, lost and expired on the way.                                 *)
SnapshotsAreWhole ==
    \A t \in StampsHeld, link \in DOMAIN graph.name_to_index \ {World} :
        LET answer == GetTransform(graph, link, World, t)
        IN  /\ t \in DOMAIN announced
            /\ answer.ok
            /\ answer.transform = PoseOf(link, announced[t])

Lost == "lost" \in {joint_states.status, tf.status}

ShowsMerged ==
    \A n \in DOMAIN Robot.joints :
        LET child == Robot.joints[n].child
        IN  /\ Exists(graph, child)
            /\ Newest(graph.frames[graph.name_to_index[child]].buffer).transform
                 = SentTransform(Robot.joints[n], merged)

(* Converges: once the sources are quiet the listener comes to hold, as    *)
(* the newest transform of every joint, what the merged joint states make  *)
(* it, and stays there, unless a connection was erased for not being       *)
(* writable: a JS that the throttle suppresses is made up for by a later   *)
(* timer.                                                                  *)
Converges == <>[](Lost \/ ShowsMerged)

=============================================================================
