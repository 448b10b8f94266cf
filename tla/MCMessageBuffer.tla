-------------------------- MODULE MCMessageBuffer ---------------------------
(***************************************************************************)
(* MessageBuffer for TLC: every message class, with strings and vectors of *)
(* each length in Sizes and bytes that differ from field to field, and the *)
(* strings of Strange, alone, among others and in a header. The first      *)
(* message is any of them, the second shows where the reader of the first  *)
(* has stopped.                                                            *)
(***************************************************************************)
EXTENDS MessageBuffer

CONSTANT Sizes

AllTypes ==
    { Bool, Color, Double, DoubleArray, Duration, Float, FloatArray, Time,
      Header, Int16, Int16Array, Int32, Int32Array, Int64, Int64Array, Int8,
      Int8Array, String, StringArray, UInt16, UInt16Array, UInt32, UInt32Array, UInt64,
      UInt64Array, UInt8, UInt8Array, Vector3, Inertia, InertiaStamped, Point, PointStamped,
      Quaternion, Pose, Pose2D, Pose2DStamped, PoseStamped, QuaternionStamped, Transform, TransformStamped,
      TF, Twist, Twist2D, Twist2DStamped, TwistStamped, Vector3Stamped, ChannelFloat, JointState,
      JS, LaserScan, PointCloud, Endpoint, NodeInfo, Operation, TopicInfo, PubInfo,
      Status, SubInfo, SubNotify }

(* Some object of a layout whose vectors have n elements and whose strings are
   the text given, or n characters if that is empty.                        *)
RECURSIVE Sample(_, _, _, _)
Sample(t, n, text, seed) ==
  Object(t,
    CASE t.kind = "number" -> [i \in 1..t.width |-> (seed + 7 * i) % 256]
      [] t.kind = "string" -> IF text # <<>> THEN text ELSE [i \in 1..n |-> (seed + 5 * i) % 128]
      [] OTHER -> [i \in DOMAIN Parts(t, n) |-> Sample(Parts(t, n)[i], n, text, 3 * seed + 11 * i)])

Samples(cases) == {Sample(c.type, c.size, c.text, 1) : c \in cases}

Plain(types, sizes) == [type : types, size : sizes, text : {<<>>}]

(* Characters of two, three and four bytes, of which Python writes one, and one
   before ASCII, of which it writes itself; then no UTF-8: a byte of no
   character, a character without its end, one longer than it need be, half a
   surrogate pair and one beyond the last.                                  *)
Strange ==
    { <<195, 169>>, <<226, 130, 172>>, <<240, 159, 164, 150>>, <<195, 169, 97>>,
      <<255>>, <<97, 195>>, <<192, 128>>, <<237, 160, 128>>, <<244, 144, 128, 128>> }

MCOutgoing ==
    << Samples(Plain(AllTypes, Sizes) \cup Plain({String}, {258})
               \cup [type : {String, StringArray, Header}, size : {1, 2}, text : Strange]),
       Samples(Plain({Time, StringArray}, {1})) >>
=============================================================================
