# Verification of the robot model and transform library

TLA+ models, TLC configurations and TLAPS proofs for the C++ robot model and
transform (TF) library of this repository, the nodes built on it, the encoding
of their messages and the Python middleware of the GUI.  Paths below are
relative to the repository.

## 1. The system

Nodes exchange messages over topics.  A publisher of setpoints or a robot
driver sends joint states (`JS`); `joint_state_publisher` merges several such
streams into one robot model and republishes the whole state periodically;
`robot_state_publisher` turns joint states into a `TF` message, one transform
per joint, and broadcasts it on `/tf`; a `TransformListener` or the Python GUI
rebuilds the tree of frames from those messages and answers questions such as
"where was the gripper, in the camera's frame, at time t".

    random_setpoint_publisher --JS--> joint_state_publisher --JS--> robot_state_publisher
                                                                          | TF
                                             gui.py <---------------------+
                                             TransformListener <----------+
                                                 FrameGraph
                                                     Frame -> TransformBuffer

### Inventory

| component | state | operations | hard behaviour | what makes it correct |
|---|---|---|---|---|
| `TransformBuffer` (src/rix/tf/transform_buffer.cpp) | deque of (stamp, transform), duration | insert, get, clear, set_duration, copies | late, repeated and out-of-order stamps, expiry at the edge of the window, changing durations | sorted, newest never lost, expires only what is too old, answers as the history would |
| `Frame`, `FrameGraph` (frame.cpp, frame_graph.cpp) | vector of frames, adjacency lists, name map, duration | update, get_transform, find_nearest_ancestor, get_leaves, iterators, copies | updates in any order that contradict each other, two directions of an edge kept apart, copies | a tree at all times, containers agree, refused updates change nothing, lookups total and composing |
| `TransformListener` (transform_listener.cpp) | subscription, graph, duration | callback, get_transform and transform_*, copies, set_duration | callback on the spin thread against readers, messages applied in part, copies sharing a subscription | a reader sees a tree some prefix of the stream built |
| `TransformBroadcaster` | publisher | send | none of its own | sends what it is given |
| `RobotModel` (robot_model.cpp) | joints, links, root, world-to-root | parse_jrdf, set_state, get_transforms, get_joints_in_chain | early returns that leave a partial model, shared joints between copies, cyclic inputs | the parsed model is a tree or not valid, every link is published after its parent |
| `Joint`, `Link` (joint.cpp, link.cpp) | position, velocity, effort; constant names and limits | set_state, clamp, transform, mimic reads | mimic chains, the boundary of a continuous joint | a mimic follows its leader; clamped values are in bounds |
| `RobotStatePublisher` | model, period, last publish time | joint_state_callback | throttle against stamps that go back, two sources | at most one TF per period, none lost for ever |
| `JointStatePublisher` | model, mutex, publisher, timer | joint_state_callback, timer_callback, constructor | messages of several sources between two timers, failing constructor | each published state is one the model had |
| `RandomSetpointPublisher` | setpoint, current state, two timers | two callbacks | two timers over the same vectors, a stamp that is never renewed | positions stay between limits |
| core middleware (include/rix/core) | registration, connections | spin, publish, subscribe, timers, `send_message_with_opcode` | implemented in binary libraries but for the helpers and the spin loop; a failed read taken for success | who goes on as registered is known to the hub; a publisher is announced once |
| Python middleware (gui/rixcore) | sets of sockets, callback, mutexes | _spin_once, publish, spin | partial sends, short reads, closing peers | messages arrive whole or not at all; the loop goes on |
| serialization, generated messages (include/rix/msg, gui/rixmsg) | buffers | size, serialize, deserialize | lengths and bounds, two languages, buffers that lost their end | what is read is what was written; a cut message is refused |
| ipc, util | sockets; none | system calls; clocks, logs, arguments | bodies in binary libraries | not modelled |
| GUI, URDF converter | meshes; none | rendering; conversion | GUI threads | not modelled |

`PROJECT.json` lists every component with its status and every hazard at its
line; a hazard no property covers has a note that says why.

## 2. Modules

| module | what it is |
|---|---|
| `TimedDeque` | the value of one `TransformBuffer` and its operations, as constant-level operators |
| `TransformStore` | abstract specification of a buffer: a map from stamps to transforms with a retention |
| `TransformBuffer` | the state machine: `insert`, `set_duration`, `clear`; two history variables |
| `FrameTree` | the value of one `FrameGraph` and its operations |
| `TransformTree` | abstract specification of a graph: a tree that only grows and one history per edge |
| `FrameGraph` | the state machine: `update`, copy construction |
| `KinematicTree` | the structure of one `RobotModel` and the two walks over it |
| `JrdfParser` | the state machine that builds a model: `parse_jrdf`, element by element |
| `Topic` | one connection of a publisher to a subscriber (external) |
| `RobotState` | the joint states of a model: `set_state`, `get_state`, `get_transforms` |
| `RobotStatePublisher`, `JointStatePublisher` | the two nodes: members, `Init`, callbacks |
| `StateStream` | a `RobotStatePublisher` that hears anything |
| `StatePipeline` | both publishers, two topics and a `TransformListener` |
| `Serialization` | the byte encoding: one operator per kind of field, for both languages |
| `Messages` | the 59 message classes as layouts |
| `MessageBuffer` | the state machine: write messages into a buffer, lose its end, read it back |
| `Registration` | constructors of the nodes as plans, the exchange with the hub, spin and exit |
| `PythonSubscriber` | the connections to the publishers and `Subscriber._spin_once`, call by call |
| `PythonMiddleware` | the two composed, with the fairness and the properties |
| `MC...` | constants for TLC |
| `FrameTree_proofs` | lemmas about one deque and one graph, which the modules of theorems share |
| `TransformBuffer_proofs`, `FrameGraph_proofs`, `JrdfParser_proofs`, `StateStream_proofs`, `StatePipeline_proofs`, `MessageBuffer_proofs`, `PythonMiddleware_proofs` | the theorems |

    StatePipeline -- EXTENDS --> FrameTree --> TimedDeque
          |                      RobotState --> KinematicTree
          |                      Topic
          +-- INSTANCE --> JointStatePublisher, RobotStatePublisher
    StateStream -- EXTENDS --> RobotStatePublisher --> RobotState, Topic
    FrameGraph  -- EXTENDS --> FrameTree          JrdfParser --> KinematicTree
    MessageBuffer -- EXTENDS --> Messages --> Serialization
    PythonMiddleware -- EXTENDS --> PythonSubscriber --> Registration

The operations are kept apart from the state machines that own the data, so
that a component that contains a graph (the listener) uses the same `Update`
and `GetTransform` that are checked and proved here.  Recursion is written
as recursive functions: walks to the root by the number of steps, the encoding by
depth of nesting.  Only `MCMessageBuffer` declares a RECURSIVE operator, to make
sample messages for TLC.

**TransformBuffer.**  `buffer` is `buffer_`, `duration` is `duration_`.  Stamps
and durations are 64-bit nanosecond counts in the code and integers here: the
sums and differences the code forms are of the size of the values themselves.
`Place` is the `lower_bound` with overwrite or insert, `Expire` the `pop_front`
loop, `Lookup` is `get` with each of its exits.  `written` and `widened` are
history variables no action reads.

**FrameGraph.**  One record with the four members.  Positions count from one,
so the root is 1 and the code's -1 is 0.  `Update` follows the code's order:
the parent may be given its slot (`WithParentSlot`) before the update is
refused.  `get_transform` is `GetTransform`: names, nearest ancestor, two
paths, two products of edges (`AlongPath`) and the final product.  Transforms
are elements of any group; TLC uses the permutations of three points, which
like rigid transforms do not commute.

**JrdfParser.**  `model` has the members `joints`, `links` and `root`;
`parent_map` and `children_map` are the parser's local maps.  The description
is not stored: an action reads the next element, whatever it is, so the
behaviours are the parses of all descriptions up to `MaxJoints` joint and
`MaxLinks` link elements: cycles, second parents, several roots, links without
joints and joints without links.  `AbandonJoints` and `AbandonLinks` are the
returns from the middle, for any reason a conversion has to fail;
`AssignLeaders` throws if a leader is missing.  `joints_read` is a history
variable.  `get_transforms` is `Walk` over its stack, `get_joints_in_chain` is
`ChainFrom`; both are unrolled for as many turns as there are links, and
`WalkEnds` and `ChainEnds` say that they are over by then.  Names are not
empty: an empty link name would be the code's sign for "no root".

**Nodes.**  The documentation of `create_subscriber` and the timers
(core/node.hpp:78) says that all callbacks of a node run on the thread that
calls `spin()`, so a callback is one step and the mutex of
`JointStatePublisher` has no second taker.  `TooSoon` is the throttle of
`joint_state_callback`, with zero for "never published"; `Restamped` is the
loop that gives all transforms the stamp of the message.  Position, velocity
and effort are always set together, so a joint's state is one integer;
`JointTransform` is a constant operator.  Both nodes are modelled from a
constructor that succeeded until they are shut down, so the return of
`timer_callback` without a publisher that is `ok()`
(joint_state_publisher.cpp:55-57) is not taken.

**Topic.**  `Publisher::publish` is a binary library; publisher.hpp:48-56
describes it.  A message goes to each connection, and a connection that is not
writable is erased.  A connection is therefore `waiting`, `up` with a queue of
at most `Capacity` messages, or `lost`; nothing reconnects.

**StateStream.**  `heard` is a history of the messages, the stamps they were
given and whether a TF followed.  The topic is large enough to lose nothing, so
its queue is the history of what was published.

**StatePipeline.**  `merged` and `joint_states` are the state of
`JointStatePublisher`, `states`, `last_publish_time` and `tf` of
`RobotStatePublisher`, `graph` of the listener; `announced` is a history.
`ListenerSpins` applies a whole TF message by `UpdateAll`, the loop that stops
at the first refusal.  `ignore_timestamps` is false here; `StateStream` has
both values.

**Serialization, Messages, MessageBuffer.**  A message class lists its fields
three times, in `size`, `serialize` and `deserialize`; a layout lists them
once, and an object is a value together with its layout, as a C++ or Python
object is with its class.  `SizeOf`, `Serialize` and `Deserialize` follow the
rules of `detail::` in serialization.hpp.  Each is a table by depth of nesting
(`SizeAt`, `SerializeAt`, `DeserializeAt`): the entry for objects or layouts
nested `d` deep calls, for their parts, the entry for `d - 1`, as a message
calls the templates for its fields.  `Depth` bounds the nesting; a class is a
finite text, so some depth is enough for all (five for the 59 classes).
`Outgoing` says which messages the writer may put first, second and so on.  A
number is its memory image, which nothing computes with; that `struct.pack`
rounds or raises on a Python number its field cannot hold is left out.  A string
is the sequence of its bytes, those of a Python program's in UTF-8.  Where
gui/rixmsg/message.py differs, the operator has the language as a parameter:
Python's length of a string is its number of characters (`TextLength`), to which
`_serialize_string` cuts the UTF-8 (lines 217-220); `_deserialize_string` ends in
`decode()`, which raises unless the bytes are UTF-8 (line 553, `IsUtf8`);
`_size_vector_string` forgets the lengths of the strings, and C++'s
`deserialize_number_vector` compares elements with bytes.  A writer puts in a
message only strings its language has (`TextsOf`): any bytes in C++, only
characters in Python.  `Intact` are the strings that pass from one language to
the other unharmed: ASCII if Python writes, UTF-8 if C++ writes and Python
reads, all of them between two C++ programs.  `Beyond` is what a
read past the end returns.  `MessageBuffer` is the life of one buffer: `Write`
is what `send_message_with_opcode` does with an `Operation` and its message,
`Cut` loses the end of it, `Receive` reads the next message at the offset.

**Registration.**  A constructor is a sequence of steps, each asked for `ok()`
afterwards or not, as the source has it: `robot_state_publisher` never asks its
node, `gui.py` compares the subscriber with `None`, which it never is.  An
answer of the hub says whether the request was sent, how many bytes came back
and what they say; `Succeeds` is the last part of `send_message_with_opcode` in
both languages, down to a read of -1, which C++ passes to `deserialize` as a
size, and a short read, which Python does not notice.  `Serve` is the hub, after
core/mediator.hpp:55-98: one registration at a time, entered and announced.

**PythonSubscriber.**  A frame is `HeadLength` units of length and `BodyLength`
units of message.  `wire` is what is under way, `arrived` what `recv_into` can
take.  Each read of `_spin_once` is a step: `ReadHead` takes as much of the
length as is there, `ReadBody` is one turn of the loop at line 101, `GiveUp` is
the exception of a socket that does not block, `PassOver` a client with nothing
to read.  A SubNotify message can arrive as a part of its Operation, with a part
of its body, or whole.  The buffers are zeroed, so what is missing reads as
empty endpoints (lost publishers) or, when the length itself was cut, out of
place, which may end the thread (`at = "dead"`), whether the message names
publishers or not.  Names and addresses are ASCII, so that a part of one can be
decoded.  The publishers are those of rix::core, binary libraries: `Accept` and
`Publish` follow what core/publisher.hpp says of them.  `torn` is a history variable: the
publishers one of whose frames was read in parts.

## 3. Runs

| run | bounds | shows |
|---|---|---|
| `transform_buffer` | stamps 0..4, two transforms, durations -1, 0, 1, 2 | all invariants below and the refinement of `TransformStore` |
| `frame_graph` | four names, stamps 1 and 3, duration 1, two transforms; symmetry on the three names that are not the root | all invariants below and the refinement of `TransformTree` |
| `frame_graph_labels` | as above | violated: lookups across branches do not compose |
| `frame_graph_copies` | as above | violated: frames admitted by a copy have duration zero |
| `jrdf_parser` | three joints, three links, any mimic; symmetry on both | all invariants below |
| `jrdf_parser_valid` | as above | violated: a model whose parse was abandoned can call itself valid |
| `state_stream` | a chain of two joints and a mimic, four messages, stamps and clock 0..3, period 2, both values of `ignore_timestamps` | all invariants below |
| `state_stream_mimics` | as above | violated: a mimic joint is not published where its leader puts it |
| `message_buffer` | each of the 59 classes with vectors and strings of 0, 1 and 2 elements, `String` also with 258; in `String`, `StringArray` and `Header` four texts beyond ASCII and five that are not UTF-8; a second message behind it; either language on either side; a cut at every byte | all invariants below |
| `message_buffer_short` | as above | violated: a vector of wide numbers without its last bytes is accepted |
| `python_middleware` | the GUI, a robot or joint state publisher with two messages of four units, a random setpoint publisher; misread lengths 0 and 3 | all invariants and liveness properties below |
| `state_pipeline` | the same kind of robot, clock 1..7, quiet from 5, one message per source, period 2, connections of two messages, duration 2 | all invariants below and convergence |

*Bounds.*  Stamp 0 is included because `get` treats it as "newest"; two
consecutive windows fit between 0 and 4, so an entry can lie at, inside and
outside the edge of a window, and a late insertion can be discarded at once.
The buffer's state space is finite without any constraint.  Four names allow a
chain of three edges, two branches of unequal length and a common ancestor
that is not the root.  With two stamps further apart than the duration, an
insertion into an edge can expire the other; a copy then has a duration that
keeps both.  Three joints over three links are enough for a tree with a chain
or a fork, a cycle of two beside a tree, a second parent and a mimic chain.
Four messages with stamps 0 to 3 and a period of 2 leave room for two TFs a
period apart, a suppressed message between them and a stamp that goes back or
is missing.  In the pipeline a
connection of two messages is lost when its receiver is slow, the graph's
duration is shorter than the run so that entries expire, and the three ticks
after the sources fall silent are more than a period.  Once the sources are
quiet the clock ticks only when everything sent has been received (`Settled`),
since a bounded clock could otherwise run out before a slow node; before that,
nodes are as slow as they like.  `MaxDrives`, `QuietFrom`, `MaxClock`,
`MaxHeard` and `Capacity` are the bounds.  Both runs stop at their bounds, so
deadlock is not checked.

Of the strings that are not ASCII, two- to four-byte characters are what a
Python writer cuts, and the others are each of the ways in which bytes are not
UTF-8.  Two elements and a second message show where a reader stops; 258 needs a second
byte of the length, which a vector's takes the same way (longer ones are left to
the proof: TLC's stack does not hold the loop over so many parts).  Two units of
length and two of body let each be read in parts, and of two messages the second shows what a misread first one does to the
stream.  The setpoint publisher only registers, is announced and exits: it is
there for a second announcement and a second connection.  `MaxMessages` is the
bound of `python_middleware`; its programs may exit for good, so deadlock is not
checked, and a buffer ends when it is read.

*Transform buffer.*  `Sorted`; `LatestRetained`: the newest transform survives
any sequence of insertions; `WindowFaithful`: what is stored was last written,
what is missing is too old; `AnswersAsIfNothingExpired`: for time zero and all
times from the oldest stored stamp, `get` answers as if nothing had ever been
discarded; `ImplementsStore`.  The two that speak of expired stamps hold only
while the duration has not been raised: what a narrower window discarded, a
wider one cannot bring back, which is why `widened` is there.

*Frame graph.*  `NamesMatchFrames`, `Rooted`, `ListsAgree`, `EdgesHaveData` tie
the containers together.  `NearestIsNearest` compares the search with the
definition of an ancestor as the least closed set.  `LookupTotal`: two known
frames can always be related, whatever was refused.  `BranchesCompose`: along
one branch the answers are those of rigid bodies.  `RefusalsLeaveNoTrace`: an
update is refused exactly when it contradicts the tree and then changes no
frame, name, buffer or edge.  `ImplementsTree`: frames are never lost, a parent
never changes, one step changes one edge's history, within that edge's own
retention.

*Robot model.*  `NeighboursAgree`: in every model, of a complete parse or an
abandoned one, parents and children of links and joints agree and the root has
no parent.  `TransformsArePublishable`: if the model calls itself valid,
`get_transforms` ends and lists each frame once and after its parent, which is
what `FrameGraph::update` needs to accept the message.  `PublishedIffInChain`:
the walk down and the walk up agree, and a link's chain is made of joints that
are published; the root's is empty.  `ValidModelsHaveLeaders`: links are read
only after leaders are assigned, so a valid model has no null leader.  The
first three suppose that no joint name is repeated.  The parser does not check
this, and with a repeated name `get_transforms` may not end: the map keeps the
first joint of that name while the children lists have an entry for the second.
A parse ends, so deadlock is not checked.

*State stream.*  `StampsSpaced`: a TF that follows one with a stamp other than
zero is at least a period younger, whatever order stamps arrive in.
`SuppressedForAReason`: a message is suppressed only because of a TF that was
published less than a period before its stamp, never because of a message that
was suppressed itself.  `ShowsAllThatWasHeard`: a TF shows what every joint was
last said to be, by suppressed messages too, under one stamp.

*State pipeline.*  `NeverRefused`: `update(TF)` returns true for every message,
whenever the listener connected and whatever was lost before: this joins the
order of `get_transforms` to the acceptance conditions of `FrameGraph` (in the
mutant `get_transforms` lists the root's transform last).
`TreeIsRobot`: after the first message the listener's tree is the robot's.
`SnapshotsAreWhole`: asked for any link at a time of which it still holds a
transform, the listener answers with the pose the `JointStatePublisher`'s model
had at that time.  It needs one stamp per message (the mutant keeps the stamps
of `get_transforms`), all joints in every message and equal expiry on all edges.
`Converges`: once the sources are quiet the newest transform of every joint
comes to be what the merged states make it, unless a connection was lost.

*Message buffer.*  `RoundTrip`: a message that has arrived whole is read as it
was written and the offset is left at its end, whichever the languages; the
exception is a message with a string Python cannot carry (not in `Intact`), which
is read with another value or refused, the latter by Python alone, but leaves
the offset at its end all the same.
`SizesAreExact`: `size()`, with which buffers are allocated and lengths
announced, is what `serialize` writes; the exception is Python's vector of
strings.  `CutMessagesAreRefused`: a message without its end is never accepted;
the exception is C++ and a vector of numbers wider than a byte.

*Python middleware.*  `BelievedIsKnown`: a component whose `ok()` holds is in
the hub's table, unless the hub's answer was not read to its end.
`AnnouncedOnce`: whichever of publisher and subscriber the hub serves first, the
subscriber is told of the publisher once; nothing in `Subscriber.clients` would
notice a second connection.  `DeliversInOrder`: until a frame is read in parts,
the callback gets what was sent on the connection, in order, with no gap,
although reads of several connections, arrivals and exits interleave.
`KeepsSpinning`, `EventuallyDelivered`, `ForgetsTheClosed`: rounds return,
messages arrive in the end, and closed connections are removed, among them
those to a publisher whose constructor failed after it was announced.  The two
exceptions they name are what the code does: a publisher that closes in the
middle of a frame holds the loop at subscriber.py:101 for ever (`Stuck`), and a
part of an Operation ends the thread.  Every exception in these properties is a
state the run reaches.

*Fairness.*  `Spinner::spin` (core/interfaces/spinner.hpp:16-28) calls
`spin_once` until shutdown, and a node's `spin_once` serves its timers and
subscriptions: a timer that is due fires and a message that waits is received.
The conditions are stated for the steps that take a message or mark a timer as
served, `TimerIsDue`, `JointStatesReceived` and `TFReceived`; each is a conjunct
of one action only and whatever is enabled in it is enabled in that action, so
this is weak fairness of `TimerFires`, `RobotStateSpins` and `ListenerSpins`.
The clock goes on and connections are made once (`Tick`, `RobotStateConnects`,
`ListenerConnects`).  Sources need never send.

In `python_middleware` the subscriber's thread goes on (`Node.spin` is a loop)
and what was sent arrives (`Arrive`, `NoticeArrives`); no program has to
register, publish, accept or exit, and the hub need not answer.

The buffers, the graph, the parser and the stream have no fairness: every action
is the work of a caller, who need never call again.

*Disagreements.*  `get_transform` computes `target_tf * source_tf.inverse()`
(frame_graph.cpp:182).  With A the common ancestor these are the transforms
from A to target and from A to source, and what the labels
`frame_id = source`, `child_frame_id = target` and the test
(tests/frame_graph.cpp:236-241) describe is `source_tf.inverse() * target_tf`.
The two are equal when either frame is the ancestor, the only cases the tests
cover; on different branches they are not.  The copy constructor
(frame_graph.cpp:13) leaves `duration_` at zero.  `is_valid`
(robot_model.cpp:68) asks whether there are joints, links and a root; its
documentation says it tells whether the description was parsed.
`get_transforms` (robot_model.cpp:208) sends the fixed origin of a mimic joint,
where its documentation promises the current state of the model and
`Joint::transform` would follow the leader.

`deserialize_number_vector` (serialization.hpp:385) compares the number of
elements with the bytes that are left, where line 374 promises `false` if the
bytes needed are more than the bytes available: it reads past the buffer.

Three more were met while reading and have no run.  A Python program cuts a
string that is not ASCII to as many bytes as it has characters (message.py:217-220)
and raises on a string from C++ that is not UTF-8 (message.py:553); no
documentation, comment or test says what becomes of such strings, so this is the
exception of `RoundTrip` and not a disagreement.  In the three `main.cpp`,
`std::stoi(endpoint_string.substr(colon_pos))` is given the colon with the
port and throws.  `Joint::effort()` (joint.cpp:103) returns the velocity.

## 4. Proofs

For every value of the constants that satisfies the named assumptions of the
modules.  Those of the buffer and the graph say that instants and durations are
integers, the root is a name and there is a transform; the others are named
below.

* `TransformBuffer_proofs`: `TypeCorrect`, `AlwaysSorted`, `LatestNeverLost`,
  `WindowKept`, `ExpiryIsInvisible`, and `Implementation`, the refinement of
  `TransformStore`.  Lemmas of `FrameTree_proofs` give what the search returns
  in a sorted deque and what placing and expiring do to its order, its stamps
  and the map it stands for.  The inductive invariant joins type, order and the
  two history invariants: `LatestRetained` is not inductive alone, since that
  the back of the deque is the greatest stamp needs the order, and the order is
  only kept because the search is correct on a sorted deque.
  `ExpiryIsInvisible` needs nothing more: inside the window the deque and the
  full history have the same stamps, so for any time between two of them the
  neighbours `get` interpolates (`LookupBetween`) are the same two.
* `FrameGraph_proofs`: `TypeCorrect`, `NamesStayUnique`, `NeverCyclic`,
  `ListsStayConsistent`, `EdgesNeverEmpty`, `LeavesCorrect`,
  `RefusalsAreHarmless`.  The inductive invariant `IInv == WellFormed(graph)`
  is the conjunction of the five parts; none is inductive by itself.  That a
  new child's list position is fresh needs the lists to agree, which needs
  parents to precede children, which needs every frame but the root to have a
  parent slot.  `FrameTree_proofs` proves that the first transform below a
  known parent (`JoinKeeps`), a further one (`HearKeeps`) and a copy
  (`CopyKeeps`) keep it, and `UpdateKeeps` combines them.
* `FrameGraph_proofs`, on lookups: `NearestCorrect` (`NearestIsNearest`),
  `LookupsAnswered` (`LookupTotal`) and `BranchesComposed` (`BranchesCompose`).
  The walks to the root are recursive functions over the trees of any depth;
  since a parent precedes its children, what they return is shown by taking the
  least length or position for which it could fail (`SetInduction`, from the
  well-foundedness of the naturals).  `IsClimb` says what a walk is and
  `ClimbExists` that there is exactly one from each frame.  `BranchesComposed`
  is about any set of transforms that is `Composable`: an associative product,
  a neutral element, inverses that undo and reverse the product, all closed
  under interpolation.  Rigid transforms and the permutations of the run are
  such sets; nothing is assumed to commute.
* `FrameGraph_proofs`, `Implementation`: the refinement of `TransformTree`.  An
  update of the vectors and maps does nothing the abstract tree sees, or is
  `Heard` by an existing edge, or has `Grown` the tree by one frame
  (`UpdateShape`), and each maps to the abstract step, a copy to a stutter.
* `JrdfParser_proofs`: `TypeCorrect`, `LeadersAssigned` and
  `NeighboursStayAgreed`.  The inductive invariant adds to the types that links
  are only read after leaders were assigned (`LeadersFirst`: a model has no
  links before, so it cannot be valid), and that while joint names are unique
  the parser's two maps agree with the joints (`MapsAgree`), from which each
  link takes its neighbours.
* `JrdfParser_proofs`, on the walks: `TransformsPublishable`
  (`TransformsArePublishable`) and `WalksAgree` (`PublishedIffInChain`), for
  models of any size.  What the invariant says of a valid model is put into one
  predicate (`WellLinked`) and the walks are studied for any such model.
  `Walking` is the invariant of the loop in `get_transforms`: the links reached
  are those visited and those on the stack, none of them twice, and the joints
  listed are exactly those below the visited links.  Each turn visits one more
  link, so the walk is over after as many turns as there are links, which is
  what bounds `Walk` in the model.  For `get_joints_in_chain`, `Chaining` says
  that what was collected is a path, and `Climbing` that from a published link
  each turn moves to a place further up in the list of `get_transforms`, so that
  it too ends.  A model may have a cycle of joints beside its tree; neither
  property is about links in it, and the argument does not exclude it.
* `StateStream_proofs`: `TypeCorrect`, `Throttled` (`StampsSpaced`),
  `SilenceIsJustified` (`SuppressedForAReason`) and `NothingIsForgotten`
  (`ShowsAllThatWasHeard`), for every robot, period and stream.  The properties
  speak of histories and the callback looks only at its members, so the
  inductive invariant says what the members remember: `last_publish_time` is
  the stamp of the last TF (`LastIsNewest`) and, unless zero, of a message that
  was answered (`LastWasHeard`); the state of each joint that is no mimic is
  what was last said of it, in any message (`Current`), and every TF published
  so far shows what had been said by then.  They suppose that instants are not
  negative, that a message lists joints by name (`ListsAreJointStates`), that
  the walk of `get_transforms` over the robot is over after as many turns as
  there are links (`RobotIsWalked`) and that the robot is what the parser makes
  of a description without repeated names (`RobotIsParsed`: joints are kept
  under their names, no two have one child, none leads to the root, the walk
  meets only joints of the robot).  `TransformsPublishable` and
  `NeighboursStayAgreed` show that of what the parser makes.
* `StatePipeline_proofs`: `TypeCorrect`, `NoneRefused` (`NeverRefused`),
  `TreeCorrect` (`TreeIsRobot`) and `SnapshotsWhole` (`SnapshotsAreWhole`), for
  robots, bounds, periods and queues of any size.  The inductive invariant has
  two ideas.  *What is in flight was announced*: the first topic holds states
  the `JointStatePublisher` published, under their stamps, the second holds TFs
  of such states, and both may have lost any of them.  *The edges go together*
  (`Shows`): the graph has none of the robot's edges or all of them, every edge
  has the graph's duration, and there is one set of stamps such that each edge's
  buffer is the map from those stamps to its transform in the state announced
  then.  The second needs all transforms of a message to be accepted: a first TF
  meets a graph with the root only and each of its transforms has a known parent
  and a new child (`FirstTF`, by `Publishable`); a later one repeats the edges
  (`LaterTF`), and since all edges hear the same stamp under the same duration,
  they keep and lose the same moments (`MomentsInserted`, from the buffer's
  lemmas in `FrameTree_proofs`).  `NeverRefused` is the acceptance half of `TFShown`.
  For `SnapshotsAreWhole` a stamp held by one edge is held by all, a lookup at a
  stamp that is stored does not interpolate (`LookupAtStamp`), and the product
  along the path in the graph is unrolled link by link against the product along
  `get_joints_in_chain` (`ChainPose`).
  The assumptions: the robot is what the parser makes of a description without
  repeated names (`RobotIsParsed`, whose last parts are the theorems
  `TransformsPublishable` and `WalksAgree`); its links are names of frames and
  none is called `world` (`LinksAreFrames`: such a robot would have its
  transforms refused, since the root of a graph gets no parent); joints have
  transforms in all their states (`JointsTransform`); the clock shows positive
  stamps (`TimesAreStamps`, `Init`) and the period is not zero.  `TreeIsRobot`
  and `SnapshotsAreWhole` suppose in addition that the robot hangs together
  (`RobotIsWhole`), which the parser does not check: joints of another tree or
  of a cycle are never published, links without a joint neither.  TLC evaluates
  all of these on the run's robot.  `SnapshotsAreWhole` is about `Composable`
  transforms, as `BranchesComposed` is.
* `PythonMiddleware_proofs`: `RegisteredAreKnown` (`BelievedIsKnown`),
  `AnnouncedExactlyOnce` (`AnnouncedOnce`) and `DeliveredInOrder`
  (`DeliversInOrder`), for any programs, any lengths of frames and any misread
  lengths, if a frame has a head and a body, lengths are natural numbers and
  the subscriber is not one of the publishers.  The inductive invariant has four
  parts.  `Typed` are the types.  `Remembered` ties each program's answer to the
  hub's table.  `Serving` says where the announcement of each publisher is:
  none before both are known, then exactly one, under way or taken; neither
  order in which the hub serves the two is singled out.  `Reading` says that
  what was delivered, what is in the frame being read, what has arrived and what
  is under way are, end to end, what was published; it is claimed only of
  publishers that are not in `torn`, for a frame read in parts loses the place
  in the stream for good.

* `MessageBuffer_proofs`: `ReadAsWritten` (`RoundTrip`), `SizesExact`
  (`SizesAreExact`) and `CutsRefused` (`CutMessagesAreRefused`), each with the
  exception it names, for message classes of any depth with any fields, messages
  of any values the writer's language has, any number of them in the buffer,
  either language on either side and the buffer cut anywhere.  Half of the argument is about the encoding alone and says nothing
  of states.  `DeserializeAtIs` and its like show that the tables by depth are
  what their recursive definitions say, `LengthBack` that four bytes give back
  every length below 2^32, and `EndToEndHolds` that the encoding of a composite
  has that of each part at the offset where the parts before it end.  What a
  reader does is one statement, `ReadBack`: of a buffer that has the encoding
  at an offset as far as it goes, it gives the object and the offset behind it
  if all of the bytes are there, and refuses otherwise, unless it may miss the
  cut (`MayMiss`: C++ and a vector of wide numbers).  Of an object with a string
  that does not arrive as it was written (`Foreign`) it gives some value and the
  same offset or, if it is Python, refuses.  `TextBack` is where that comes in:
  the bytes written are the whole string, and one the reader decodes, if it is in
  `Intact` (`IntactIs`), and their number is what the length in front of them
  says in any case.  `PartsBack` carries it
  through the loop over the parts by induction on how many were read,
  `NumberVectorBack` does the case in which the languages differ, and
  `AllReadable` closes it by induction on the depth (`SetInduction`, the least
  counterexample).  `AllSized` is the same induction for the sizes.
  The inductive invariant then only has to place messages.
  `MessagesLieEndToEnd`: each lies where the one before it ends, as far as the
  buffer goes.  `ReaderKeepsPlace`: the reader stands at the end of the last
  message it read; it is needed because `RoundTrip` says nothing of the offset
  after a cut was missed, and it holds even then, since a vector of wide
  numbers that was not all there still moves the offset as if it were.
  `SizesAdd`: what is announced is the sum of the lengths, or less for the
  reason `SizesAreExact` gives.
  The assumptions: `DepthIsNatural`, and `OutgoingAreObjects`, that what may be
  written is an object of its class: numbers have the 1, 2, 4 or 8 bytes of
  their type, strings fewer than 2^32 bytes and vectors fewer than 2^32 elements
  (their length is a `uint32_t`), classes have a field and fixed arrays an element.  TLC evaluates
  both for all messages of the run.

Every invariant and every action property of the passing runs is a theorem.  Only
model-checked: the liveness properties (`Converges`, `KeepsSpinning`,
`EventuallyDelivered`, `ForgetsTheClosed`), which
need fairness and ENABLED, out of the provers' reach.  Induction over data is done
where it is needed by least counterexample, without the library's induction
theorems, whose operator parameters the provers cannot instantiate.

## 5. Plan

Done: the buffer and the graph with their refinements, the parser, the two
publishers alone and composed with the listener, the encoding, registration and
the Python subscriber; the theorems above, which state all of their safety
properties.  What is left is copies: of a listener, which share a subscription
whose callback updates the original, and of a model, which share joints.  Both
need a pipeline with two owners of one object.

## 6. Not modelled

What Python does to a number its field cannot hold, floating-point geometry (with it `Joint::clamp` and the random setpoints), JSON
field conversion, logging, argument parsing, rendering, the URDF converter and
the operating-system wrappers; the binary middleware libraries are only an
environment.  Data races: readers of a listener on another thread, the GUI's
animation callback.  A Python publisher that goes on after a short send, and
several subscribers in one Python node.  `Iterator` is covered by the walks
(`Climb`).  The reasons are with each component in `PROJECT.json`.
