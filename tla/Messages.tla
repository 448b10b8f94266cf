------------------------------ MODULE Messages ------------------------------
(***************************************************************************)
(* The layouts of the message classes. A class of                          *)
(* include/rix/msg/<package> names its fields three times, in size(), in   *)
(* serialize() and in deserialize(); a layout is that list. The classes of *)
(* gui/rixmsg, which the Python programs use, list the same fields. A      *)
(* field's number says how many bytes it has: 1 for bool and the 8-bit     *)
(* integers, 2 for the 16-bit ones, 4 for the 32-bit ones and float, 8 for *)
(* the 64-bit ones and double.                                             *)
(***************************************************************************)
EXTENDS Serialization

-----------------------------------------------------------------------------
(* Scalars, text and their arrays, and the time stamps and headers that
   the other messages start with: include/rix/msg/standard. *)

Bool == Message(<<Number(1)>>)
Color == Message(<<Number(4), Number(4), Number(4), Number(4)>>)
Double == Message(<<Number(8)>>)
DoubleArray == Message(<<Vector(Number(8))>>)
Duration == Message(<<Number(4), Number(4)>>)
Float == Message(<<Number(4)>>)
FloatArray == Message(<<Vector(Number(4))>>)
Time == Message(<<Number(4), Number(4)>>)
Header == Message(<<Number(4), Time, Text>>)
Int16 == Message(<<Number(2)>>)
Int16Array == Message(<<Vector(Number(2))>>)
Int32 == Message(<<Number(4)>>)
Int32Array == Message(<<Vector(Number(4))>>)
Int64 == Message(<<Number(8)>>)
Int64Array == Message(<<Vector(Number(8))>>)
Int8 == Message(<<Number(1)>>)
Int8Array == Message(<<Vector(Number(1))>>)
String == Message(<<Text>>)
StringArray == Message(<<Vector(Text)>>)
UInt16 == Message(<<Number(2)>>)
UInt16Array == Message(<<Vector(Number(2))>>)
UInt32 == Message(<<Number(4)>>)
UInt32Array == Message(<<Vector(Number(4))>>)
UInt64 == Message(<<Number(8)>>)
UInt64Array == Message(<<Vector(Number(8))>>)
UInt8 == Message(<<Number(1)>>)
UInt8Array == Message(<<Vector(Number(1))>>)

-----------------------------------------------------------------------------
(* include/rix/msg/geometry. *)

Vector3 == Message(<<Number(4), Number(4), Number(4)>>)
Inertia == Message(<<Number(8), Vector3, Number(8), Number(8), Number(8),
                     Number(8), Number(8), Number(8)>>)
InertiaStamped == Message(<<Header, Inertia>>)
Point == Message(<<Number(4), Number(4), Number(4)>>)
PointStamped == Message(<<Header, Point>>)
Quaternion == Message(<<Number(4), Number(4), Number(4), Number(4)>>)
Pose == Message(<<Point, Quaternion>>)
Pose2D == Message(<<Number(4), Number(4), Number(4)>>)
Pose2DStamped == Message(<<Header, Pose2D>>)
PoseStamped == Message(<<Header, Pose>>)
QuaternionStamped == Message(<<Header, Quaternion>>)
Transform == Message(<<Vector3, Quaternion>>)
TransformStamped == Message(<<Header, Text, Transform>>)
TF == Message(<<Vector(TransformStamped)>>)
Twist == Message(<<Vector3, Vector3>>)
Twist2D == Message(<<Number(4), Number(4), Number(4)>>)
Twist2DStamped == Message(<<Header, Twist2D>>)
TwistStamped == Message(<<Header, Twist>>)
Vector3Stamped == Message(<<Header, Vector3>>)

-----------------------------------------------------------------------------
(* include/rix/msg/sensor. *)

ChannelFloat == Message(<<Text, Vector(Number(4))>>)
JointState == Message(<<Text, Number(8), Number(8), Number(8)>>)
JS == Message(<<Time, Vector(JointState)>>)
LaserScan == Message(<<Header, Number(4), Number(4), Number(4), Number(4),
                       Number(4), Number(4), Number(4), Vector(Number(4)),
                       Vector(Number(4))>>)
PointCloud == Message(<<Header, Vector(Point), Vector(ChannelFloat)>>)

-----------------------------------------------------------------------------
(* What nodes and the hub tell each other: include/rix/msg/mediator. *)

Endpoint == Message(<<Number(2), Text>>)
NodeInfo == Message(<<Text, Number(8), Number(8), Number(1), Endpoint>>)
Operation == Message(<<Number(4), Number(1)>>)
TopicInfo == Message(<<Text, Array(Number(8), 2)>>)
PubInfo == Message(<<Number(8), Number(8), Number(1), TopicInfo, Endpoint>>)
Status == Message(<<Number(8), Number(1)>>)
SubInfo == Message(<<Number(8), Number(8), Number(1), TopicInfo, Endpoint>>)
SubNotify == Message(<<Number(8), Number(1), Number(1), Vector(PubInfo)>>)
=============================================================================
