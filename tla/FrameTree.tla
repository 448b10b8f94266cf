----------------------------- MODULE FrameTree ------------------------------
(***************************************************************************)
(* The value of one rix::tf::FrameGraph (src/rix/tf/frame_graph.cpp) and   *)
(* its operations as constant-level operators, shared by the state machine *)
(* FrameGraph and by the components that own such a graph.                 *)
(*                                                                         *)
(* The fields carry the names of the class members.  Positions count from  *)
(* one where the code counts from zero, so the root is position 1 and the  *)
(* code's -1 is None = 0.  graph[i] holds the parent of frame i and then   *)
(* its children; only the root's list starts empty.                        *)
(*                                                                         *)
(* Transforms are the elements of a group: Compose is the product of two   *)
(* Eigen::Affine3d, Invert their inverse(), Identity the identity.         *)
(***************************************************************************)
EXTENDS TimedDeque

CONSTANTS
    Compose(_, _),
    Invert(_),
    Identity,
    Names,       (* the strings used as frame_id and child_frame_id *)
    Root         (* the constructor's root *)

ASSUME RootIsAName == Root \in Names

None == 0
RootIndex == 1

Frames == [name : Names, buffer : Seq(Entries), duration : Durations \cup {0}]

(* One rix::msg::geometry::TransformStamped.                               *)
Messages == [frame_id : Names, child_frame_id : Names,
             stamp : Instants, transform : Transforms]

(* A rix::tf::Frame with an empty buffer.                                  *)
NewFrame(name, duration) ==
    [name |-> name, buffer |-> <<>>, duration |-> duration]

NewGraph(root, duration) ==
    [frames        |-> <<NewFrame(root, duration)>>,
     graph         |-> << <<>> >>,
     name_to_index |-> [n \in {root} |-> RootIndex],
     duration      |-> duration]

(* The copy constructor leaves duration_ to Duration's default, zero;      *)
(* assignment copies every member.                                         *)
CopyWithoutEdges(g) == [g EXCEPT !.duration = 0, !.graph = << <<>> >>]

CopyOf(g) == [g EXCEPT !.duration = 0]

Exists(g, name) == name \in DOMAIN g.name_to_index

Indices(g) == 1 .. Len(g.frames)

ParentOf(g, i) ==
    IF i = None \/ g.graph[i] = <<>> THEN None ELSE g.graph[i][1]

ChildrenOf(g, i) == {g.graph[i][k] : k \in 2 .. Len(g.graph[i])}

(* get_leaves: the root is never a leaf.                                   *)
LeavesWithOneChild(g) ==
    {g.frames[i].name : i \in {j \in Indices(g) : Len(g.graph[j]) <= 2} \ {RootIndex}}

Leaves(g) ==
    {g.frames[i].name : i \in {j \in Indices(g) : Len(g.graph[j]) <= 1} \ {RootIndex}}

-----------------------------------------------------------------------------
(***************************************************************************)
(* update(TransformStamped), in the order of the code: find the parent,    *)
(* give it a parent slot if its list is still empty, admit an unknown      *)
(* child, refuse a child that hangs elsewhere, list the child under the    *)
(* parent and insert the transform into the child's buffer.                *)
(***************************************************************************)
ListedParent(g, p) ==
    LET holders == {i \in Indices(g) : p \in ChildrenOf(g, i)}
    IN  IF p = RootIndex \/ holders = {} THEN None ELSE Min(holders)

WithParentSlot(g, p) ==
    IF g.graph[p] = <<>>
    THEN [g EXCEPT !.graph[p] = <<ListedParent(g, p)>>]
    ELSE g

AdmitOffByOne(g, name, p) ==
    [g EXCEPT !.frames        = Append(@, NewFrame(name, g.duration)),
              !.graph         = Append(@, <<p>>),
              !.name_to_index = [n \in DOMAIN @ \cup {name} |->
                                   IF n = name THEN Len(g.frames) ELSE @[n]]]

Admit(g, name, p) ==
    [g EXCEPT !.frames        = Append(@, NewFrame(name, g.duration)),
              !.graph         = Append(@, <<p>>),
              !.name_to_index = [n \in DOMAIN @ \cup {name} |->
                                   IF n = name THEN Len(g.frames) + 1 ELSE @[n]]]

LinkAlways(g, p, c) == [g EXCEPT !.graph[p] = Append(@, c)]

Link(g, p, c) ==
    IF c \in ChildrenOf(g, p) THEN g ELSE [g EXCEPT !.graph[p] = Append(@, c)]

StoreForGraph(g, c, stamp, transform) ==
    [g EXCEPT !.frames[c].buffer = InsertInto(@, g.duration, stamp, transform)]

Store(g, c, stamp, transform) ==
    [g EXCEPT !.frames[c].buffer =
        InsertInto(@, g.frames[c].duration, stamp, transform)]

Refused(g)  == [graph |-> g, ok |-> FALSE]
Accepted(g) == [graph |-> g, ok |-> TRUE]

(* Inserts before it has compared the parents.                             *)
UpdateThenCheck(g, m) ==
    IF ~Exists(g, m.frame_id) THEN Refused(g)
    ELSE LET p     == g.name_to_index[m.frame_id]
             grown == IF Exists(g, m.child_frame_id) THEN WithParentSlot(g, p)
                      ELSE Admit(WithParentSlot(g, p), m.child_frame_id, p)
             c     == grown.name_to_index[m.child_frame_id]
             held  == Store(grown, c, m.stamp, m.transform)
         IN  IF ParentOf(grown, c) # p THEN Refused(held) ELSE Accepted(Link(held, p, c))

(* Moves a known child under the parent it is now published with.          *)
UpdateReparenting(g, m) ==
    IF ~Exists(g, m.frame_id) THEN Refused(g)
    ELSE LET p     == g.name_to_index[m.frame_id]
             grown == IF Exists(g, m.child_frame_id) THEN WithParentSlot(g, p)
                      ELSE Admit(WithParentSlot(g, p), m.child_frame_id, p)
             c     == grown.name_to_index[m.child_frame_id]
             moved == IF c \in {p, RootIndex} THEN grown ELSE [grown EXCEPT !.graph[c][1] = p]
         IN  IF ParentOf(moved, c) # p THEN Refused(grown)
             ELSE Accepted(Store(Link(moved, p, c), c, m.stamp, m.transform))

(* Records only the second and later transforms of a frame.                *)
UpdateAdmittingEmpty(g, m) ==
    IF ~Exists(g, m.frame_id) THEN Refused(g)
    ELSE LET p      == g.name_to_index[m.frame_id]
             rooted == WithParentSlot(g, p)
             fresh  == Admit(rooted, m.child_frame_id, p)
             c      == rooted.name_to_index[m.child_frame_id]
         IN  IF ~Exists(g, m.child_frame_id)
             THEN Accepted(Link(fresh, p, Len(fresh.frames)))
             ELSE IF ParentOf(rooted, c) # p THEN Refused(rooted)
             ELSE Accepted(Store(Link(rooted, p, c), c, m.stamp, m.transform))

Update(g, m) ==
    IF ~Exists(g, m.frame_id) THEN Refused(g)
    ELSE LET p      == g.name_to_index[m.frame_id]
             rooted == WithParentSlot(g, p)
             grown  == IF Exists(g, m.child_frame_id) THEN rooted
                       ELSE Admit(rooted, m.child_frame_id, p)
             c      == grown.name_to_index[m.child_frame_id]
         IN  IF ParentOf(grown, c) # p THEN Refused(grown)
             ELSE Accepted(Store(Link(grown, p, c), c, m.stamp, m.transform))

-----------------------------------------------------------------------------
(***************************************************************************)
(* What every update must keep; the state machines above state these of    *)
(* the graphs they own.                                                    *)
(***************************************************************************)
Typed(g) ==
    /\ g \in [frames        : Seq(Frames),
              graph         : Seq(Seq(Nat)),
              name_to_index : [DOMAIN g.name_to_index -> Nat],
              duration      : Durations \cup {0}]
    /\ Len(g.graph) = Len(g.frames)
    /\ Len(g.frames) >= 1
    /\ DOMAIN g.name_to_index \subseteq Names
    /\ \A n \in DOMAIN g.name_to_index : g.name_to_index[n] \in Indices(g)
    /\ \A i \in Indices(g) : \A k \in DOMAIN g.graph[i] :
          g.graph[i][k] \in Indices(g) \cup {None}

NamesInverse(g) ==
    /\ \A n \in DOMAIN g.name_to_index : g.frames[g.name_to_index[n]].name = n
    /\ \A i \in Indices(g) :
          /\ Exists(g, g.frames[i].name)
          /\ g.name_to_index[g.frames[i].name] = i

ParentsPrecede(g) ==
    /\ g.frames[RootIndex].name = Root
    /\ ParentOf(g, RootIndex) = None
    /\ \A i \in Indices(g) \ {RootIndex} :
          g.graph[i] # <<>> /\ ParentOf(g, i) \in 1 .. i - 1

EdgesListedOnce(g) ==
    /\ \A i \in Indices(g) : \A c \in ChildrenOf(g, i) : c # None /\ ParentOf(g, c) = i
    /\ \A c \in Indices(g) \ {RootIndex} : c \in ChildrenOf(g, ParentOf(g, c))
    /\ \A i \in Indices(g) : \A j, k \in 2 .. Len(g.graph[i]) :
          g.graph[i][j] = g.graph[i][k] => j = k

EdgesCarryData(g) ==
    /\ g.frames[RootIndex].buffer = <<>>
    /\ \A i \in Indices(g) \ {RootIndex} :
          g.frames[i].buffer # <<>> /\ StrictlySorted(g.frames[i].buffer)

-----------------------------------------------------------------------------
(***************************************************************************)
(* get_transform and the searches below it.  Climb(g, i)[k] is the k-th    *)
(* ancestor of i and None above the root: what following graph[i][0], or   *)
(* decrementing an Iterator, visits.                                       *)
(***************************************************************************)
Climb(g, i) ==
    LET up[k \in 0 .. Len(g.frames)] == IF k = 0 THEN i ELSE ParentOf(g, up[k - 1])
    IN  up

Visited(g, i) == {Climb(g, i)[k] : k \in 0 .. Len(g.frames)} \ {None}

NearestIsOldest(g, a, b) ==
    LET met == Visited(g, a) \cap Visited(g, b)
    IN  IF met = {} THEN None ELSE Min(met)

NearestAncestor(g, a, b) ==
    LET up  == Climb(g, b)
        met == {k \in DOMAIN up : up[k] \in Visited(g, a)}
    IN  IF met = {} THEN None ELSE up[Min(met)]

(* build_path: how many edges lie between a frame and its ancestor.        *)
PathLength(g, ancestor, i) ==
    Min({k \in 0 .. Len(g.frames) : Climb(g, i)[k] = ancestor})

(* compute_transform fails if an edge of the path has no transform yet,    *)
(* and otherwise multiplies the edges from the ancestor down.              *)
Readable(g, ancestor, i) ==
    \A k \in 0 .. PathLength(g, ancestor, i) - 1 : g.frames[Climb(g, i)[k]].buffer # <<>>

AlongPathReversed(g, ancestor, i, t) ==
    LET up == Climb(g, i)
        product[k \in 0 .. Len(g.frames)] ==
            IF k = 0 THEN Identity
            ELSE Compose(product[k - 1], Lookup(g.frames[up[k - 1]].buffer, t))
    IN  product[PathLength(g, ancestor, i)]

AlongPath(g, ancestor, i, t) ==
    LET up == Climb(g, i)
        product[k \in 0 .. Len(g.frames)] ==
            IF k = 0 THEN Identity
            ELSE Compose(Lookup(g.frames[up[k - 1]].buffer, t), product[k - 1])
    IN  product[PathLength(g, ancestor, i)]

Failure == [ok |-> FALSE]

Answer(source, target, t, transform) ==
    [ok |-> TRUE, frame_id |-> source, child_frame_id |-> target, stamp |-> t,
     transform |-> transform]

(* A frame in itself is the identity, even when the frame is unknown.      *)
GetTransform(g, target, source, t) ==
    IF target = source THEN Answer(source, target, t, Identity)
    ELSE IF ~(Exists(g, target) /\ Exists(g, source)) THEN Failure
    ELSE LET to       == g.name_to_index[target]
             from     == g.name_to_index[source]
             ancestor == NearestAncestor(g, to, from)
         IN  IF ancestor = None \/ ~Readable(g, ancestor, to) \/ ~Readable(g, ancestor, from)
             THEN Failure
             ELSE Answer(source, target, t,
                         Compose(AlongPath(g, ancestor, to, t),
                                 Invert(AlongPath(g, ancestor, from, t))))

=============================================================================
